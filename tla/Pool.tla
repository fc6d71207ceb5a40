-------------------------------- MODULE Pool --------------------------------
(***************************************************************************)
(* nnn-base/src/scratch/pool.rs: size classes over a Scratch.  The classes *)
(* are a rounding policy, not a free list; the only state the pool adds to *)
(* its arena is `last_class`, which a PoolMark copies and release restores.*)
(*                                                                         *)
(* Every step of a pool is a step of its arena: Arena!Spec is the contract *)
(* the pool inherits, and with it everything proved in ScratchProofs.      *)
(***************************************************************************)
EXTENDS SizeClasses

CONSTANTS
  Base, Total, Word, MaxMarks,   (* as in Scratch                          *)
  Blocks,            (* names for the blocks the caller can hold at once   *)
  Classes,           (* the class table                                    *)
  DefaultAlignment,  (* what with_alignment kept of its argument           *)
  Required           (* [bytes, align]: what the caller asks for           *)

ASSUME RegionAssumption == Base \in Nat /\ Total \in Nat /\ Base + Total \in Usize
ASSUME WordAssumption == Word \in Alignments
ASSUME ClassesAssumption == Classes \in Seq(Nat)
ASSUME RequiredAssumption == Required \subseteq [bytes : Nat, align : Nat]
ASSUME DefaultAlignmentAssumption == DefaultAlignment \in Alignments

VARIABLES
  cursor, remaining, carves,     (* the arena: see Scratch                 *)
  marks,                         (* the PoolMarks the caller keeps         *)
  last_class,                    (* the class of the last carve            *)
  blocks                         (* history: [class, end] of every block   *)
                                 (* that no rewind has taken back          *)

vars == <<cursor, remaining, carves, marks, last_class, blocks>>

(* The None of last_class. *)
NoClass == 0

PoolMarks == [mark : 0 .. Total, class : DOMAIN Classes]

ClassRequests ==
  { ForBytes(Classes[k], a) :
    k \in DOMAIN Classes, a \in {DefaultAlignment} \cup { r.align : r \in Required } }

Arena == INSTANCE Scratch WITH
  Ids <- Blocks,
  Requests <- ClassRequests,
  Contract <- "ends",
  marks <- { m.mark : m \in marks }

-----------------------------------------------------------------------------

Init ==
  /\ cursor = 0 /\ remaining = Total
  /\ carves = [b \in Blocks |-> Arena!NoCarve]
  /\ marks = {}
  /\ last_class = NoClass
  /\ blocks = {}

(* carve_apply on the plan, then last_class from the plan's region. *)
CarvePlan(b, plan) ==
  /\ UNCHANGED marks
  /\ Arena!CarveApply(b, plan.req)
  /\ last_class' = plan.class
  /\ blocks' = blocks \cup {[class |-> plan.class, end |-> cursor']}

(* carve_bytes and carve, which differ in the type of what they return. *)
CarveBytes(b, r) == \E plan \in PlanBytes(Classes, r.bytes, r.align) : CarvePlan(b, plan)

CarveClass(b, k) ==
  \E capacity \in ClassCapacity(Classes, k) :
    CarvePlan(b, [class |-> k, req |-> ForBytes(capacity, DefaultAlignment)])

DropBlock(b) == UNCHANGED <<marks, last_class, blocks>> /\ Arena!DropCarve(b)

Mark ==
  /\ last_class # NoClass
  /\ marks' = marks \cup {[mark |-> cursor, class |-> last_class]}
  /\ Arena!Mark
  /\ UNCHANGED <<last_class, blocks>>

ForgetMark(m) ==
  /\ marks' = marks \ {m}
  /\ UNCHANGED <<cursor, remaining, carves, last_class, blocks>>

(* The blocks a rewind leaves below the cursor. *)
Below(position) == { blk \in blocks : blk.end <= position }

(* Mutant of Release: the arena's refusal is not its own. *)
ReleaseUnchecked(m) ==
  /\ last_class' = m.class
  /\ Arena!Ended(m.mark, {}) /\ Arena!Rewind(m.mark)
  /\ blocks' = Below(m.mark)
  /\ UNCHANGED <<carves, marks>>

(* Mutant of Release: the class is forgotten, as in Reset. *)
ReleaseForgetful(m) ==
  /\ last_class' = NoClass
  /\ m.mark <= cursor
  /\ Arena!Ended(m.mark, {}) /\ Arena!Rewind(m.mark)
  /\ blocks' = Below(m.mark)
  /\ UNCHANGED <<carves, marks>>

(* last_class is set before the arena is asked: it changes even when the   *)
(* arena refuses a mark above its cursor.                                  *)
Release(m) ==
  /\ last_class' = m.class
  /\ IF m.mark <= cursor
       THEN /\ Arena!Ended(m.mark, {}) /\ Arena!Rewind(m.mark)
            /\ blocks' = Below(m.mark)
       ELSE UNCHANGED <<cursor, remaining, blocks>>
  /\ UNCHANGED <<carves, marks>>

Reset ==
  /\ Arena!Ended(0, {}) /\ Arena!Rewind(0)
  /\ last_class' = NoClass
  /\ blocks' = {}
  /\ UNCHANGED <<carves, marks>>

Next ==
  \/ \E b \in Blocks, r \in Required : CarveBytes(b, r)
  \/ \E b \in Blocks, k \in DOMAIN Classes : CarveClass(b, k)
  \/ \E b \in Blocks : DropBlock(b)
  \/ \E m \in marks : ForgetMark(m) \/ Release(m)
  \/ Mark
  \/ Reset

Spec == Init /\ [][Next]_vars

-----------------------------------------------------------------------------
(* Properties. *)

TypeOK ==
  /\ Arena!TypeOK
  /\ marks \subseteq PoolMarks
  /\ last_class \in {NoClass} \cup DOMAIN Classes
  /\ blocks \subseteq [class : DOMAIN Classes, end : 0 .. Total]

(* Whenever something is carved, the position can be marked: no sequence   *)
(* of carves, releases (of stale marks too, refused or not) and resets     *)
(* leaves the pool with bytes out and no class for mark to record.         *)
EveryPositionCanBeMarked == cursor > 0 => last_class # NoClass

(* A block the caller holds is recorded below the cursor as a block of     *)
(* its class, exactly as long as the class: no rewind to a mark, however   *)
(* old, takes a live block back.                                           *)
HeldBlocksAreWholeClasses ==
  \A b \in Blocks : carves[b].kind # "none" =>
    \E blk \in blocks :
      /\ blk.end = carves[b].offset + carves[b].len
      /\ carves[b].len = Classes[blk.class]

(* A pool does to its region only what a Scratch would do.                 *)
ArenaSteps == Arena!Spec

(* What tests/pool.rs says of mark: a PoolMark carries the class of the    *)
(* last carve, so there is none for the very beginning of the pool.        *)
NoMarkAtTheStart == cursor = 0 => last_class = NoClass
=============================================================================
