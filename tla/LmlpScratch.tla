---------------------------- MODULE LmlpScratch ----------------------------
(***************************************************************************)
(* nnn-base/src/scratch/helpers.rs and frame.rs: the facade the layers     *)
(* above use, and the Frame it opens.  A facade call is a short program of *)
(* arena operations in which every `?` may return early; what was carved   *)
(* before it stays carved.  A call is a sequence of instructions here, and *)
(* each instruction is a step, so that what an early return leaves behind  *)
(* is part of the model.                                                   *)
(*                                                                         *)
(* The facade borrows the arena mutably: no call starts while another is   *)
(* in progress, and while a Frame is alive everything goes through it.     *)
(***************************************************************************)
EXTENDS SizeClasses, FiniteSets

CONSTANTS
  Base, Total, Word, MaxMarks,   (* as in Scratch                          *)
  Callers,     (* names for the slices the caller can hold at once         *)
  Elems,       (* [size, align] of the element types T                     *)
  Lens,        (* element counts and byte counts the caller asks for       *)
  Plans,       (* DescSizes: a count for each region of a layer            *)
  Tables       (* the class tables the caller gives to pool_carve          *)

ASSUME RegionAssumption == Base \in Nat /\ Total \in Nat /\ Base + Total \in Usize
ASSUME WordAssumption == Word \in Alignments
ASSUME PowersAssumption == \A a \in Alignments : (UsizeMax + 1) % a = 0
ASSUME RequestsAssumption == MaxMarks \in Nat /\ Lens \subseteq Nat
ASSUME ElemsAssumption ==
  /\ Elems \subseteq [size : Nat \ {0}, align : Alignments]
  /\ \A e \in Elems : e.size % e.align = 0

(* The fields of a ScratchDesc, in the order they are carved. *)
Regions == <<"state", "input", "output", "weights", "bias", "gradient", "memory", "aux">>

RegionNames == { Regions[i] : i \in DOMAIN Regions }

(* The local variables of a call that own a carve. *)
Locals == {"a", "b"}

Names == Callers \cup RegionNames \cup Locals

ASSUME PlansAssumption == Plans \subseteq [DOMAIN Regions -> Nat]

VARIABLES
  cursor, remaining, carves, marks,   (* the arena: see Scratch            *)
  frame,     (* the Frame that borrows the arena                           *)
  call       (* the facade call in progress                                *)

vars == <<cursor, remaining, carves, marks, frame, call>>

NoFrame == [mark |-> 0, state |-> "none"]

(* op is the method, from the cursor when it was entered, need the bytes   *)
(* it computed that it would take, todo what is left of its body, ok       *)
(* whether no `?` has returned early.                                      *)
NoCall == [op |-> "none", from |-> 0, need |-> 0, todo |-> <<>>, ok |-> TRUE]

Rewinding(kind, position, count) ==
  [kind |-> kind, at |-> position, len |-> 0, bytes |-> count, align |-> Word]

ArenaRequests ==
  { ForBytes(n, a) : n \in 0 .. Total, a \in {1} \cup { e.align : e \in Elems } } \cup
  { Rewinding("marked", n, n) : n \in Lens } \cup
  { Rewinding(kind, 0, 1) : kind \in {"last", "reset"} }

Arena == INSTANCE Scratch WITH
  Ids <- Names,
  Requests <- ArenaRequests,
  Contract <- "ends",
  MaxMarks <- MaxMarks + 1,
  marks <- marks \cup IF frame.state = "none" THEN {} ELSE {frame.mark}

Held(name) == Arena!Held(name)

Idle == call = NoCall

(* Nothing borrows the arena. *)
Free == Idle /\ frame = NoFrame

-----------------------------------------------------------------------------
(* The instructions a call is made of. *)

Take(name, req) == [do |-> "take", name |-> name, req |-> req]
Give(name) == [do |-> "give", name |-> name]
ReuseBy(name) == [do |-> "reuse", name |-> name]
ResetAll == [do |-> "reset"]
OpenFrame == [do |-> "open"]
ReleaseFrame == [do |-> "release"]
CloseFrame == [do |-> "close"]
UsePool(classes, e, len) == [do |-> "pool", classes |-> classes, elem |-> e, len |-> len]
UseSlots(e, count) == [do |-> "slots", elem |-> e, count |-> count]

(* The bytes of len elements, if the product fits a usize. *)
TypeBytes(e, len) == { n \in {e.size * len} : n \in Usize }

(* split_take and divest_typed: a typed carve that is dropped before the   *)
(* call returns.  Carving the same request again inside the block it was   *)
(* just given (carve_split, carve_from) takes the whole block.             *)
SplitTakeBody(e, len) ==
  { <<Take("a", ForBytes(n, e.align)), Give("a")>> : n \in TypeBytes(e, len) }

(* Mutant of FrameCarveBody: the frame is released after the first carve.  *)
FrameCarveEarly(e, len) ==
  { <<OpenFrame, Take("a", ForBytes(n, e.align)), Give("a"), ReleaseFrame,
      CloseFrame, Take("b", ForBytes(n, e.align)), Give("b")>> :
    n \in TypeBytes(e, len) }

(* frame_carve: the two carves are dropped before the frame is released.   *)
FrameCarveBody(e, len) ==
  { <<OpenFrame, Take("a", ForBytes(n, e.align)), Take("b", ForBytes(n, e.align)),
      Give("b"), Give("a"), ReleaseFrame, CloseFrame>> :
    n \in TypeBytes(e, len) }

(* reuse_marked and reuse_last: carve the request, then rewind by it.      *)
ReuseBody(kind, position, count) ==
  { <<Take("a", Rewinding(kind, position, n)), ReuseBy("a")>> :
    n \in { n \in {count} : n # 0 } }

(* reuse_reset, which cannot carve its request in a full region.           *)
ReuseResetBody ==
  IF remaining = 0 THEN {<<ResetAll>>} ELSE ReuseBody("reset", 0, 1)

(* log_bytes: one LogBuf adopts a carve, the second the bytes that follow. *)
LogBytesBody(capacity) ==
  { <<Take("a", ForBytes(n, 1)), Take("b", ForBytes(n, 1)), Give("b"), Give("a")>> :
    n \in { n \in {capacity} : n # 0 } }

(* pool_carve: the product wraps, and the pool refuses what does not fit.  *)
PoolCarveBody(classes, e, len) ==
  { <<Take("a", ForBytes((e.size * len) % (UsizeMax + 1), e.align)),
      UsePool(classes, e, len), Give("a")>> }

(* slot_carve: the product saturates. *)
SlotCarveBody(e, count) ==
  LET n == IF e.size * count \in Usize THEN e.size * count ELSE UsizeMax
  IN  { <<Take("a", ForBytes(n, e.align)), UseSlots(e, count), Give("a")>> }

(* The loop of plan_bytes: the total after the first i requirements of a   *)
(* plan, each behind the padding its alignment asks for, if it fits.       *)
PlanTotal(e, plan) ==
  LET total[i \in 0 .. Len(Regions)] ==
        IF i = 0 THEN {0}
        ELSE (UNION { { aligned + e.size * plan[i] : aligned \in AlignUp(t, e.align) } :
                      t \in total[i - 1] }) \cap Usize
  IN  total

(* plan_bytes of carve.rs, for the eight typed requirements of a plan: the *)
(* bytes they take one after the other, if that fits a usize.              *)
Footprint(e, plan) == PlanTotal(e, plan)[Len(Regions)]

(* Mutant of DescFits: the elements are held against the bytes that remain.*)
DescFitsElements(e, n) ==
  /\ IsAligned(Base + cursor, e.align)
  /\ n \div e.size <= remaining

(* The checks ScratchDesc::carve makes before it touches the arena.        *)
DescFits(e, n) ==
  /\ IsAligned(Base + cursor, e.align)
  /\ n <= remaining

(* desc: the eight carves belong to the ScratchDesc the caller receives.   *)
DescBody(e, plan) ==
  { [i \in DOMAIN Regions |-> Take(Regions[i], ForBytes(e.size * plan[i], e.align))] :
    n \in { n \in Footprint(e, plan) : DescFits(e, n) } }

-----------------------------------------------------------------------------
(* Executing a call. *)

arena == <<cursor, remaining, carves>>

Doing(what) == call.todo # <<>> /\ Head(call.todo).do = what

Proceed == call' = [call EXCEPT !.todo = Tail(@)]

(* What goes out of scope is dropped, one owner after the other.           *)
GiveAll(owners) == [i \in DOMAIN owners |-> Give(owners[i])]

(* An early return: the locals that own a carve are dropped, and so is the *)
(* frame, which has no Drop and releases nothing.                          *)
Fail ==
  call' = [call EXCEPT
    !.ok = FALSE,
    !.todo = GiveAll(<<"b", "a">> \o (IF call.op = "desc" THEN Regions ELSE <<>>))
               \o IF frame = NoFrame THEN <<>> ELSE <<CloseFrame>>]

DoTake ==
  LET i == Head(call.todo) IN
  /\ Doing("take")
  /\ UNCHANGED <<marks, frame>>
  /\ IF CheckSplit(i.req, remaining, Base + cursor) # {}
       THEN Arena!CarveApply(i.name, i.req) /\ Proceed
       ELSE Fail /\ UNCHANGED arena

(* An owner that was never given a carve has nothing to drop.              *)
DoGive ==
  LET name == Head(call.todo).name IN
  /\ Doing("give")
  /\ UNCHANGED <<marks, frame>>
  /\ IF Held(name) THEN Arena!DropCarve(name) ELSE UNCHANGED arena
  /\ Proceed

(* reuse takes the request back when it accepts it; a request it refuses   *)
(* stays carved until the early return drops it.                           *)
DoReuse ==
  LET name == Head(call.todo).name IN
  /\ Doing("reuse")
  /\ UNCHANGED <<marks, frame>>
  /\ IF Arena!ReuseTarget(carves[name]) # {}
       THEN Arena!Reuse(name) /\ Proceed
       ELSE Fail /\ UNCHANGED arena

DoReset ==
  /\ Doing("reset")
  /\ UNCHANGED <<marks, frame>>
  /\ Arena!Reset
  /\ Proceed

(* What the three carves of pool_carve need of the storage it was given;   *)
(* the releases that follow stay inside the pool.                          *)
PoolServes(i, c) ==
  \E p \in PlanBytes(i.classes, i.elem.size * i.len, i.elem.align),
     q \in PlanBytes(i.classes, i.elem.size, i.elem.align) :
  \E s \in CheckSplit(p.req, c.len, Base + c.offset) :
  \E t \in CheckSplit(q.req, c.len - SpanEnd(s), Base + c.offset + SpanEnd(s)) :
    CheckSplit(p.req, c.len - SpanEnd(s) - SpanEnd(t),
               Base + c.offset + SpanEnd(s) + SpanEnd(t)) # {}

(* The SlotArena of slot_carve once it has acquired two slots; three are   *)
(* as good as more, and their size plays no part.                          *)
Slots == INSTANCE SlotArena WITH
  SlotCount <- 3, SlotSize <- 1, Carves <- {},
  used <- 2, live_lo <- 0, live_hi <- 0, carves <- <<>>, excl <- -1, carved <- {}

(* slot_carve carves the first of the two, then a third; releasing and     *)
(* borrowing the third again cannot fail after that.                       *)
SlotsServe(i, c) ==
  /\ c.len \div i.elem.size >= 3
  /\ Slots!CanCarve([index |-> 0, offset |-> 0], 2)

DoNested ==
  LET i == Head(call.todo) IN
  /\ Doing("pool") \/ Doing("slots")
  /\ IF CASE i.do = "pool" -> PoolServes(i, carves["a"])
          [] i.do = "slots" -> SlotsServe(i, carves["a"])
       THEN Proceed
       ELSE Fail
  /\ UNCHANGED <<arena, marks, frame>>

(* The call returns to the caller. *)
Return ==
  /\ call # NoCall /\ call.todo = <<>>
  /\ call' = NoCall
  /\ UNCHANGED <<arena, marks, frame>>

-----------------------------------------------------------------------------
(* The frame.  It borrows the arena from new until it goes out of scope.   *)

NewFrame ==
  /\ frame' = [mark |-> cursor, state |-> "alive"]
  /\ UNCHANGED <<arena, marks>>

DropFrame ==
  /\ frame # NoFrame
  /\ frame' = NoFrame
  /\ UNCHANGED <<arena, marks>>

(* Mutant of ReleaseByFrame: the whole region is taken back.               *)
ReleaseByFrameAll ==
  /\ UNCHANGED marks
  /\ frame' = [frame EXCEPT !.state = "released"]
  /\ cursor' = 0 /\ remaining' = Total
  /\ UNCHANGED carves

(* release: idempotent, and refused if the arena refuses the mark.         *)
ReleaseByFrame ==
  /\ UNCHANGED marks
  /\ frame' = [frame EXCEPT !.state = "released"]
  /\ IF frame.state = "alive" THEN Arena!Release(frame.mark) ELSE UNCHANGED arena

(* Mutant of CarveInFrame: a released frame still carves.                  *)
CarveInReleased(name, n, align) ==
  /\ Idle /\ frame # NoFrame
  /\ UNCHANGED <<marks, frame, call>>
  /\ Arena!CarveApply(name, ForBytes(n, align))

(* carve, carve_bytes and carve_of of a frame. *)
CarveInFrame(name, n, align) ==
  /\ Idle /\ frame.state = "alive"
  /\ UNCHANGED <<marks, frame, call>>
  /\ Arena!CarveApply(name, ForBytes(n, align))

DoFrame ==
  /\ \/ Doing("open") /\ NewFrame
     \/ Doing("release") /\ ReleaseByFrame
     \/ Doing("close") /\ DropFrame
  /\ Proceed

FrameByCaller ==
  /\ \/ Free /\ NewFrame
     \/ Idle /\ frame # NoFrame /\ ReleaseByFrame
     \/ Idle /\ DropFrame
  /\ UNCHANGED call

-----------------------------------------------------------------------------
(* The methods. *)

Enter(op, need, bodies) ==
  /\ Free
  /\ \E body \in bodies :
       call' = [op |-> op, from |-> cursor, need |-> need, todo |-> body, ok |-> TRUE]
  /\ UNCHANGED <<arena, marks, frame>>

SplitTake(e, len) == Enter("split_take", 0, SplitTakeBody(e, len))

FrameCarve(e, len) == Enter("frame_carve", 0, FrameCarveBody(e, len))

(* The safety contract of a rewind is the caller's, before the call.       *)
ReuseMarked(n) ==
  /\ Arena!Ended(n, {})
  /\ Enter("reuse_marked", 0, ReuseBody("marked", n, n))

ReuseLast == Enter("reuse_last", 0, ReuseBody("last", 0, 1))

ReuseReset ==
  /\ Arena!Ended(0, {})
  /\ Enter("reuse_reset", 0, ReuseResetBody)

LogBytes(capacity) == Enter("log_bytes", 0, LogBytesBody(capacity))

PoolCarve(classes, e, len) == Enter("pool_carve", 0, PoolCarveBody(classes, e, len))

SlotCarve(e, count) == Enter("slot_carve", 0, SlotCarveBody(e, count))

Desc(e, plan) ==
  /\ \A name \in RegionNames : ~Held(name)
  /\ \E n \in Footprint(e, plan) : Enter("desc", n, DescBody(e, plan))

(* carve_bytes, carve, carve_apply, carve_typed and buf: one arena step.   *)
CarveBytes(name, n, align) ==
  /\ Free
  /\ UNCHANGED <<marks, frame, call>>
  /\ Arena!CarveApply(name, ForBytes(n, align))

DropSlice(name) ==
  /\ Idle
  /\ UNCHANGED <<marks, frame, call>>
  /\ Arena!DropCarve(name)

(* The caller drops the ScratchDesc, and with it the eight slices it owns. *)
DropDesc ==
  /\ Idle
  /\ \E name \in RegionNames : Held(name)
  /\ call' = [NoCall EXCEPT !.op = "drop", !.todo = GiveAll(Regions)]
  /\ UNCHANGED <<arena, marks, frame>>

(* mark, release and reset. *)
Rewinds ==
  /\ Free
  /\ UNCHANGED <<frame, call>>
  /\ \/ /\ Cardinality(marks \cup {cursor}) <= MaxMarks
        /\ marks' = marks \cup {cursor}
        /\ Arena!Mark
     \/ \E m \in marks : marks' = marks \ {m} /\ Arena!ForgetMark(m)
     \/ UNCHANGED marks /\ (Arena!Reset \/ \E m \in marks : Arena!Release(m))

Init ==
  /\ cursor = 0 /\ remaining = Total
  /\ carves = [name \in Names |-> Arena!NoCarve]
  /\ marks = {}
  /\ frame = NoFrame
  /\ call = NoCall

Next ==
  \/ DoTake \/ DoGive \/ DoReuse \/ DoReset \/ DoNested \/ DoFrame \/ Return
  \/ FrameByCaller
  \/ Rewinds
  \/ \E name \in Callers, n \in Lens, e \in Elems :
       CarveBytes(name, n, e.align) \/ CarveInFrame(name, n, e.align)
  \/ \E name \in Callers : DropSlice(name)
  \/ DropDesc
  \/ \E e \in Elems, n \in Lens : SplitTake(e, n) \/ FrameCarve(e, n) \/ SlotCarve(e, n)
  \/ \E e \in Elems, n \in Lens, t \in Tables : PoolCarve(t, e, n)
  \/ \E e \in Elems, p \in Plans : Desc(e, p)
  \/ \E n \in Lens : ReuseMarked(n) \/ LogBytes(n)
  \/ ReuseLast
  \/ ReuseReset

Spec == Init /\ [][Next]_vars

-----------------------------------------------------------------------------
(* Properties. *)

TypeOK ==
  /\ Arena!TypeOK
  /\ marks \subseteq 0 .. Total
  /\ frame \in {NoFrame} \cup [mark : 0 .. Total, state : {"alive", "released"}]
  /\ call.from \in 0 .. Total /\ call.ok \in BOOLEAN

(* Whatever a method does between its entry and its return, early or not,  *)
(* is what a Scratch allows under the contract of its rewinds: no body     *)
(* rewinds below a slice that the caller or the body still holds.          *)
ArenaSteps == Arena!Spec

(* An alive frame never has to be refused its own release, and nothing is  *)
(* carved through a released one: its bytes stay given back.               *)
FrameHoldsItsStart ==
  /\ frame.state = "alive" => frame.mark <= cursor
  /\ frame.state = "released" => frame.mark = cursor

(* The call has run to its end without an early return.                    *)
Done(op) == call.op = op /\ call.todo = <<>> /\ call.ok

(* A frame_carve that succeeds leaves the region as it found it, though    *)
(* both its carves moved the cursor.                                       *)
FrameCarveGivesBack == Done("frame_carve") => cursor = call.from

(* desc checks everything before its first carve: none of the eight is     *)
(* then refused, and together they take exactly the footprint that was     *)
(* announced for the plan, with no padding between or after them.          *)
DescTakesItsFootprint ==
  call.op = "desc" =>
    /\ call.ok
    /\ call.todo = <<>> => cursor = call.from + call.need

(* What helpers.rs says of slot_carve: it carves and returns a block, here *)
(* in a region that holds the three slots it uses.                         *)
SlotCarveServes ==
  call.op = "slot_carve" /\ call.todo # <<>> /\ Head(call.todo).do = "give"
    /\ (\A e \in Elems : carves["a"].len >= 3 * e.size)
    => call.ok
=============================================================================
