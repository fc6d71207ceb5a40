----------------------------- MODULE FileStore -----------------------------
(***************************************************************************)
(* nnn-parser/src/fs.rs: files read, written and appended to by sequences  *)
(* of system calls, each of which the guardian or the kernel may refuse.   *)
(* Processes that use the same paths interleave at every system call, and  *)
(* a write or a read may move fewer bytes than were asked for.             *)
(*                                                                         *)
(* One path for files and one for directories.  A refused system call is   *)
(* not told apart from one that failed: both answer -1.                    *)
(***************************************************************************)
EXTENDS Guardian, Sequences

CONSTANTS
  Data,        (* what is written, a sequence of bytes                     *)
  FileCalls    (* bound: calls made in a behaviour                         *)

Byte == 0 .. 255

ASSUME DataAssumption == Data \in Seq(Byte)

VARIABLES
  exists,      (* which of the two paths exist                             *)
  content,     (* the bytes of the file                                    *)
  pc,          (* the system call each process is about to make            *)
  job,         (* the call it is in, or the last one it made               *)
  leaked,      (* descriptors whose close was refused                      *)
  file_calls   (* calls that may still be made                             *)

store == <<exists, content, pc, job, leaked, file_calls>>

FileOps == {"read", "write", "append"}
DirOps == {"ensure"}
NoFd == [open |-> FALSE, pos |-> 0, append |-> FALSE]

(* Of a call: what it does, its descriptor, the bytes written and read,    *)
(* and its result.  The rest is history: the bytes of the file when the    *)
(* call began and when it returned, whether no other process changed them  *)
(* in between, and whether an open that asks if the path exists failed     *)
(* although it did.                                                        *)
NoJob == [op |-> "read", fd |-> NoFd, written |-> 0, got |-> <<>>, result |-> "none",
          before |-> <<>>, after |-> <<>>, alone |-> TRUE, misled |-> FALSE]

Labels == {"idle", "check", "check_close", "mkdir", "recheck", "recheck_close",
           "open_read", "reading", "open_write", "open_append", "writing",
           "close_ok", "close_failed"}

(* Contents stay short: each call writes Data at most once.                *)
StoreTypeOK ==
  /\ exists \subseteq {"file", "dir"}
  /\ Len(content) <= (FileCalls + 1) * Len(Data)
  /\ ("file" \notin exists => content = <<>>)
  /\ pc \in [Processes -> Labels]
  /\ \A p \in Processes :
       /\ job[p].op \in FileOps \cup DirOps
       /\ job[p].written \in 0 .. Len(Data)
       /\ job[p].result \in {"none", "ok", "failed"}
       /\ pc[p] = "idle" => ~job[p].fd.open
  /\ leaked \in Nat /\ file_calls \in 0 .. FileCalls

StoreInit ==
  /\ \/ exists = {} /\ content = <<>>
     \/ exists = {"file"} /\ content = Data
  /\ pc = [p \in Processes |-> "idle"]
  /\ job = [p \in Processes |-> NoJob]
  /\ leaked = 0
  /\ file_calls = FileCalls

-----------------------------------------------------------------------------
(* Helpers of the actions. *)

PathOf(op) == IF op \in DirOps THEN "dir" ELSE "file"

(* p goes on at label l with its job changed to j; nobody else sees it.    *)
Step(p, l, j) ==
  /\ pc' = [pc EXCEPT ![p] = l]
  /\ job' = [job EXCEPT ![p] = j]
  /\ UNCHANGED <<exists, content, file_calls>>

(* Is p about to make a system call, which the guardian is asked about?    *)
Calling(p) == pc[p] # "idle" /\ (pc[p] = "writing" => job[p].written < Len(Data))

(* The same when p changed the file, which the other calls take note of.   *)
StepChanging(p, l, j, bytes) ==
  /\ pc' = [pc EXCEPT ![p] = l]
  /\ job' = [q \in Processes |->
               IF q = p THEN j
               ELSE IF pc[q] = "idle" THEN job[q] ELSE [job[q] EXCEPT !.alone = FALSE]]
  /\ content' = bytes
  /\ exists' = exists \cup {"file"}
  /\ UNCHANGED <<leaked, file_calls>>

Return(p, j, result) ==
  Step(p, "idle", [j EXCEPT !.fd = NoFd, !.result = result, !.after = content])

Failing(p) == Refused(p) \/ Passed(p)    (* the kernel refuses, too        *)

(* The bytes of a file after chunk was written at pos: a hole is zeros.    *)
WriteAt(s, pos, chunk) ==
  [i \in 1 .. (IF pos + Len(chunk) > Len(s) THEN pos + Len(chunk) ELSE Len(s)) |->
     IF pos < i /\ i <= pos + Len(chunk) THEN chunk[i - pos]
     ELSE IF i <= Len(s) THEN s[i] ELSE 0]

-----------------------------------------------------------------------------
(* Calls.  An invalid path is refused before any system call.              *)

Begin(p, op) ==
  /\ pc[p] = "idle"
  /\ asking[p] = NotAsking
  /\ file_calls > 0
  /\ file_calls' = file_calls - 1
  /\ job' = [job EXCEPT ![p] = [NoJob EXCEPT !.op = op, !.before = content]]
  /\ pc' = [pc EXCEPT ![p] = CASE op = "read" -> "open_read"
                               [] op = "write" -> "open_write"
                               [] OTHER -> "check"]
  /\ UNCHANGED <<guardian, exists, content, leaked>>

(* file_exists: an open for reading that succeeds.  Whatever makes it fail *)
(* is taken for the absence of the path.                                   *)
Found(p, here, next) ==
  /\ pc[p] = here
  /\ Passed(p) /\ PathOf(job[p].op) \in exists
  /\ Answered(p)
  /\ UNCHANGED leaked
  /\ Step(p, next, [job[p] EXCEPT !.fd = [NoFd EXCEPT !.open = TRUE]])

NotFound(p, here) ==
  /\ pc[p] = here
  /\ Failing(p)
  /\ Answered(p)
  /\ UNCHANGED leaked

Misled(p) == [job[p] EXCEPT !.misled = @ \/ PathOf(job[p].op) \in exists]

(* close: refused by the guardian, it leaves the descriptor open.          *)
Close(p) == leaked' = IF Refused(p) THEN leaked + 1 ELSE leaked

Closes(p, here) ==
  /\ pc[p] = here
  /\ Passed(p) \/ Refused(p)
  /\ Answered(p)
  /\ Close(p)

Closed(p) == [job[p] EXCEPT !.fd = NoFd]

FirstCheck(p) ==
  \/ Found(p, "check", "check_close")
  \/ /\ NotFound(p, "check")
     /\ Step(p, IF job[p].op = "append" THEN "open_write" ELSE "mkdir", Misled(p))

FirstCheckClose(p) ==
  /\ Closes(p, "check_close")
  /\ IF job[p].op = "append" THEN Step(p, "open_append", Closed(p)) ELSE Return(p, Closed(p), "ok")

Mkdir(p) ==
  /\ pc[p] = "mkdir"
  /\ Answered(p)
  /\ UNCHANGED leaked
  /\ \/ /\ Passed(p) /\ "dir" \notin exists
        /\ exists' = exists \cup {"dir"}
        /\ pc' = [pc EXCEPT ![p] = "idle"]
        /\ job' = [job EXCEPT ![p].result = "ok"]
        /\ UNCHANGED <<content, file_calls>>
     \/ Failing(p) /\ Step(p, "recheck", job[p])

(* ensure_dir asks again when the directory could not be made.             *)
SecondCheck(p) ==
  \/ Found(p, "recheck", "recheck_close")
  \/ NotFound(p, "recheck") /\ Return(p, Misled(p), "failed")

SecondCheckClose(p) == Closes(p, "recheck_close") /\ Return(p, Closed(p), "ok")

OpenRead(p) ==
  /\ pc[p] = "open_read"
  /\ Answered(p)
  /\ UNCHANGED leaked
  /\ \/ /\ Passed(p) /\ "file" \in exists
        /\ Step(p, "reading", [job[p] EXCEPT !.fd = [NoFd EXCEPT !.open = TRUE]])
     \/ Failing(p) /\ Return(p, job[p], "failed")

(* A read moves the descriptor over at least one byte, or says it is at    *)
(* the end.  The callback is taken to want all of it.                      *)
Reading(p) ==
  LET j == job[p]
      left == Len(content) - j.fd.pos
  IN /\ pc[p] = "reading"
     /\ Answered(p)
     /\ UNCHANGED leaked
     /\ \/ /\ Passed(p) /\ left > 0
           /\ \E n \in 1 .. left :
                Step(p, "reading",
                     [j EXCEPT !.fd.pos = @ + n,
                               !.got = @ \o SubSeq(content, j.fd.pos + 1, j.fd.pos + n)])
        \/ Passed(p) /\ left <= 0 /\ Step(p, "close_ok", j)
        \/ Failing(p) /\ Step(p, "close_failed", j)

(* O_CREAT | O_TRUNC.                                                      *)
OpenWrite(p) ==
  /\ pc[p] = "open_write"
  /\ Answered(p)
  /\ \/ /\ Passed(p)
        /\ StepChanging(p, "writing", [job[p] EXCEPT !.fd = [NoFd EXCEPT !.open = TRUE]], <<>>)
     \/ Failing(p) /\ UNCHANGED leaked /\ Return(p, job[p], "failed")

(* O_CREAT | O_APPEND.                                                     *)
OpenAppend(p) ==
  /\ pc[p] = "open_append"
  /\ Answered(p)
  /\ UNCHANGED leaked
  /\ \/ /\ Passed(p)
        /\ Step(p, "writing", [job[p] EXCEPT !.fd = [open |-> TRUE, pos |-> 0, append |-> TRUE]])
     \/ Failing(p) /\ Return(p, job[p], "failed")

(* Mutant of Rest: a partial write is followed by the whole data again.    *)
RestWhole(j) == Data

Rest(j) == SubSeq(Data, j.written + 1, Len(Data))

Writing(p) ==
  LET j == job[p]
      pos == IF j.fd.append THEN Len(content) ELSE j.fd.pos
  IN /\ pc[p] = "writing"
     /\ j.written < Len(Data)
     /\ Answered(p)
     /\ \/ /\ Passed(p)
           /\ \E n \in 1 .. Len(Data) - j.written :
                StepChanging(p, "writing",
                             [j EXCEPT !.written = @ + n, !.fd.pos = pos + n],
                             WriteAt(content, pos, SubSeq(Rest(j), 1, n)))
        \/ Failing(p) /\ UNCHANGED leaked /\ Step(p, "close_failed", j)

(* All of it is written: the loop ends before it asks for another write.   *)
Written(p) ==
  /\ pc[p] = "writing"
  /\ job[p].written >= Len(Data)
  /\ UNCHANGED <<guardian, leaked>>
  /\ Step(p, "close_ok", job[p])

(* Mutant of CloseFailed: the early return forgets the descriptor.         *)
CloseFailedNot(p) ==
  /\ pc[p] = "close_failed"
  /\ leaked' = leaked + 1
  /\ UNCHANGED guardian
  /\ Return(p, job[p], "failed")

CloseFailed(p) == Closes(p, "close_failed") /\ Return(p, job[p], "failed")

CloseOk(p) == Closes(p, "close_ok") /\ Return(p, job[p], "ok")

FileSteps(p) ==
  \/ \E op \in FileOps \cup DirOps : Begin(p, op)
  \/ FirstCheck(p) \/ FirstCheckClose(p) \/ Mkdir(p)
  \/ SecondCheck(p) \/ SecondCheckClose(p)
  \/ OpenRead(p) \/ Reading(p)
  \/ OpenWrite(p) \/ OpenAppend(p) \/ Writing(p) \/ Written(p)
  \/ CloseOk(p) \/ CloseFailed(p)
=============================================================================
