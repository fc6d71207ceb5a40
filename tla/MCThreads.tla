----------------------------- MODULE MCThreads -----------------------------
(***************************************************************************)
(* The parts of the HAL that threads and processes share without a lock,   *)
(* for TLC: an LPU or a TPU, on either architecture, whose driver several  *)
(* threads call; and the file store behind the guardian, which several     *)
(* processes call while one initializes the guardian.  A behaviour is      *)
(* about one of them, and the others stay as they began.                   *)
(***************************************************************************)
EXTENDS Lpu, FileStore, TLC

VARIABLE scene    (* which part the behaviour is about                     *)

T == INSTANCE Tpu

all == <<scene, vars, guardian, store>>

MCData == <<1, 2>>
Symmetric == Permutations(Threads) \cup Permutations(Processes)

DriverStep(t) ==
  \/ card.kind = "lpu" /\ Steps(t)
  \/ card.kind = "tpu" /\ T!Steps(t)

StoreStep ==
  \/ Initialize /\ UNCHANGED store
  \/ \E p \in Processes : \/ Calling(p) /\ Authorize(p) /\ UNCHANGED store
                          \/ FileSteps(p)

MCInit ==
  /\ Init /\ GuardianInit /\ StoreInit
  /\ card \in [kind : Kinds, arch : Archs]
  /\ \/ scene = "driver"
     \/ scene = "store" /\ card = [kind |-> "lpu", arch |-> "arm"]
  /\ scene = "driver" => exists = {}

MCNext ==
  /\ UNCHANGED scene
  /\ \/ /\ scene = "driver"
        /\ \E t \in Threads : DriverStep(t)
        /\ UNCHANGED <<guardian, store>>
     \/ scene = "store" /\ StoreStep /\ UNCHANGED vars

MCSpec == MCInit /\ [][MCNext]_all

-----------------------------------------------------------------------------

(* Every variable of the drivers, the guardian and the store has its type. *)
TypeOK == AcceleratorTypeOK /\ GuardianTypeOK /\ StoreTypeOK

(* A descriptor is left open only when the guardian refused its close, and *)
(* it refuses none that is asked once initialize has returned: every early *)
(* return of read_file, write_file, append_file and file_exists closes.    *)
DescriptorsAreClosed ==
  [][leaked' # leaked => \E p \in Processes : Refused(p) /\ ~asking[p].late]_all

Done(j) ==
  CASE j.op = "write"  -> j.after = Data
    [] j.op = "append" -> j.misled \/ j.after = j.before \o Data
    [] j.op = "read"   -> j.got = j.before
    [] j.op = "ensure" -> "dir" \in exists

(* A call of the file store that answers Ok, and during which nobody else  *)
(* changed the file, did what it promises in spite of partial reads and    *)
(* writes and of refused system calls.  An append that was told that its   *)
(* existing file does not exist is excepted.                               *)
OkMeansDone ==
  \A p \in Processes : pc[p] = "idle" /\ job[p].result = "ok" /\ job[p].alone => Done(job[p])
=============================================================================
