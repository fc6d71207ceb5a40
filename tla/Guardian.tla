------------------------------ MODULE Guardian ------------------------------
(***************************************************************************)
(* nnn-hal/src/guardian: every system call asks authorize_syscall, which   *)
(* compares what it measures with limits in atomics.  initialize replaces  *)
(* the limits, and then the readers that measure, one store at a time, and *)
(* other threads authorize in between.                                     *)
(*                                                                         *)
(* Loads are percentages.  The budgets (surge.rs) are left out: every      *)
(* system call requests 0, which no budget refuses; so are the idle timer  *)
(* (reaper.rs) and the swap reader, whose answers nothing uses.            *)
(***************************************************************************)
EXTENDS Integers

CONSTANTS
  Processes,
  CpuLoads,      (* what the machine's load average may say, above 100 too *)
  RamLoads,      (* what its memory use may be                             *)
  CpuLimit,      (* limits of the configuration given to initialize        *)
  RamLimit

ASSUME CpuLimitAssumption == CpuLimit \in 0 .. 100
ASSUME RamLimitAssumption == RamLimit \in 0 .. 100
ASSUME LoadsAssumption == CpuLoads \subseteq Nat /\ RamLoads \subseteq 0 .. 100

VARIABLES
  setup,          (* the steps initialize has left, or not_called          *)
  cpu_limit,      (* CPU_LIMIT_PCT                                         *)
  ram_limit,      (* RAM_LIMIT_PCT                                         *)
  cpu_reader,     (* is CPU_READER set?                                    *)
  memory_reader,  (* is MEMORY_READER set?                                 *)
  asking          (* each process's authorization: how far it is, whether
                     the CPU was within its limit and, history, whether
                     initialize had returned when it began                 *)

guardian == <<setup, cpu_limit, ram_limit, cpu_reader, memory_reader, asking>>
policy == <<setup, cpu_limit, ram_limit, cpu_reader, memory_reader>>

SetupSteps == {"not_called", "cpu_limit", "ram_limit", "cpu_reader", "memory_reader", "done"}
Asks == {"start", "memory", "pass", "refuse"}
NotAsking == [at |-> "start", cpu |-> TRUE, late |-> FALSE]

GuardianTypeOK ==
  /\ setup \in SetupSteps
  /\ cpu_limit \in {100, CpuLimit} /\ ram_limit \in {100, RamLimit}
  /\ cpu_reader \in BOOLEAN /\ memory_reader \in BOOLEAN
  /\ asking \in [Processes -> [at : Asks, cpu : BOOLEAN, late : BOOLEAN]]

GuardianInit ==
  /\ setup = "not_called"
  /\ cpu_limit = 100 /\ ram_limit = 100
  /\ cpu_reader = FALSE /\ memory_reader = FALSE
  /\ asking = [p \in Processes |-> NotAsking]

-----------------------------------------------------------------------------
(* initialize.  The readers it installs always answer 0. *)

InitializeSteps ==
  \/ setup = "not_called" /\ setup' = "cpu_limit"
     /\ UNCHANGED <<cpu_limit, ram_limit, cpu_reader, memory_reader>>
  \/ setup = "cpu_limit" /\ setup' = "ram_limit" /\ cpu_limit' = CpuLimit
     /\ UNCHANGED <<ram_limit, cpu_reader, memory_reader>>
  \/ setup = "ram_limit" /\ setup' = "cpu_reader" /\ ram_limit' = RamLimit
     /\ UNCHANGED <<cpu_limit, cpu_reader, memory_reader>>
  \/ setup = "cpu_reader" /\ setup' = "memory_reader" /\ cpu_reader' = TRUE
     /\ UNCHANGED <<cpu_limit, ram_limit, memory_reader>>
  \/ setup = "memory_reader" /\ setup' = "done" /\ memory_reader' = TRUE
     /\ UNCHANGED <<cpu_limit, ram_limit, cpu_reader>>

Initialize == InitializeSteps /\ UNCHANGED asking

-----------------------------------------------------------------------------
(* authorize_syscall, in two steps.  It reads the CPU reader and then the  *)
(* CPU limit, which initialize stores in the opposite order: no store in   *)
(* between gives a pair that some other moment does not.  The RAM limit it *)
(* reads before the memory reader; an old limit with a reader that is new  *)
(* lets the call pass, as the new limit would.                             *)

See(p, next) == asking' = [asking EXCEPT ![p] = next] /\ UNCHANGED policy

WithinLimit(current, limit) == current <= limit

(* gate::cpu, of what the reader or else the snapshot says.                *)
GateCpu(p) ==
  /\ asking[p].at = "start"
  /\ \E load \in IF cpu_reader THEN {0} ELSE CpuLoads :
       See(p, [at |-> "memory", cpu |-> WithinLimit(load, cpu_limit),
               late |-> setup = "done"])

(* gate::memory, which prefers its reader, and the answer.                 *)
GateMemory(p) ==
  /\ asking[p].at = "memory"
  /\ \E load \in IF memory_reader THEN {0} ELSE RamLoads :
       LET allowed == asking[p].cpu /\ WithinLimit(load, ram_limit)
       IN See(p, [asking[p] EXCEPT !.at = IF allowed THEN "pass" ELSE "refuse",
                                   !.cpu = TRUE])

Authorize(p) == GateCpu(p) \/ GateMemory(p)

(* The answers a system call acts on; Answered makes the next call ask anew. *)
Passed(p) == asking[p].at = "pass"
Refused(p) == asking[p].at = "refuse"

Answered(p) == See(p, NotAsking)
=============================================================================
