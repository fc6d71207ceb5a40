-------------------------- MODULE LmlpScratchProofs --------------------------
(***************************************************************************)
(* Proofs about LmlpScratch, for every region, element type, count, plan   *)
(* and class table: whatever a method does, early returns included, its    *)
(* arena takes only the steps of a Scratch; a frame stands at or below the *)
(* cursor; a frame_carve that succeeds gives back what it took; and a desc *)
(* takes exactly the footprint it announced.                               *)
(*                                                                         *)
(* The invariant is about the arena, the frame and what is left of a call  *)
(* together: a rewind is left to a call only while there is no frame, and  *)
(* a frame opened by a call is the one the call still has to release.      *)
(***************************************************************************)
EXTENDS LmlpScratch, FiniteSetTheorems, SequenceTheorems, TLAPS

(* The requests of the instructions: those of the arena, and those that    *)
(* will be refused because they ask for more than the whole region.        *)
Asked == ArenaRequests \cup { ForBytes(n, a) : n \in Nat, a \in {1} \cup { e.align : e \in Elems } }

Instructions ==
  [do : {"take"}, name : Names, req : Asked] \cup
  [do : {"give", "reuse"}, name : Names] \cup
  [do : {"reset", "open", "release", "close"}] \cup
  [do : {"pool"}, classes : Tables, elem : Elems, len : Lens] \cup
  [do : {"slots"}, elem : Elems, count : Lens]

(* Nothing but these is left to do. *)
Only(names) == \A i \in DOMAIN call.todo : call.todo[i].do \in names

(* Outside a frame, inside one that is being unwound, or dropping.         *)
InRegion == frame = NoFrame /\ Only({"take", "give", "reuse", "reset", "pool", "slots"})

Dropping == Only({"give"})

Unwinding ==
  /\ frame # NoFrame
  /\ Only({"give", "close"})
  /\ \A i \in DOMAIN call.todo : call.todo[i].do = "close" => i = Len(call.todo)

(* What a frame_carve has left, from its end to its beginning.             *)
Releasing == <<ReleaseFrame, CloseFrame>>
DropFirst == <<Give("a"), ReleaseFrame, CloseFrame>>
DropBoth == <<Give("b"), Give("a"), ReleaseFrame, CloseFrame>>
TakeSecond(r) == <<Take("b", r), Give("b"), Give("a"), ReleaseFrame, CloseFrame>>
TakeBoth(r) == <<Take("a", r), Take("b", r), Give("b"), Give("a"), ReleaseFrame, CloseFrame>>
Opening(r) ==
  <<OpenFrame, Take("a", r), Take("b", r), Give("b"), Give("a"), ReleaseFrame, CloseFrame>>

InFrameCarve ==
  \/ /\ frame = NoFrame /\ cursor = call.from
     /\ call.todo = <<>> \/ \E r \in Asked : call.todo = Opening(r)
  \/ /\ frame = [mark |-> call.from, state |-> "alive"]
     /\ \/ call.todo \in {Releasing, DropFirst, DropBoth}
        \/ \E r \in Asked : call.todo \in {TakeSecond(r), TakeBoth(r)}
  \/ /\ frame = [mark |-> call.from, state |-> "released"] /\ cursor = call.from
     /\ call.todo = <<CloseFrame>>

CallTypes ==
  /\ call = [op |-> call.op, from |-> call.from, need |-> call.need, todo |-> call.todo,
             ok |-> call.ok]
  /\ call.todo \in Seq(Instructions)
  /\ call.from \in 0 .. Total /\ call.ok \in BOOLEAN
  /\ marks \subseteq 0 .. Total /\ IsFiniteSet(marks) /\ Cardinality(marks) <= MaxMarks
  /\ frame \in {NoFrame} \cup [mark : 0 .. Total, state : {"alive", "released"}]

CallInv ==
  IF call.op = "frame_carve" /\ call.ok THEN InFrameCarve ELSE InRegion \/ Dropping \/ Unwinding

Inv == CallTypes /\ CallInv /\ FrameHoldsItsStart

ArenaProofs == INSTANCE ScratchProofs WITH
  Ids <- Names,
  Requests <- ArenaRequests,
  Contract <- "ends",
  MaxMarks <- MaxMarks + 1,
  marks <- marks \cup IF frame.state = "none" THEN {} ELSE {frame.mark}

-----------------------------------------------------------------------------
(* The arena of a facade. *)

(* The requests of the arena are requests. *)
LEMMA RequestsAreTyped ==
  /\ ArenaRequests \subseteq [kind : ArenaProofs!Kinds, at : Nat, len : Nat, bytes : Nat, align : Nat]
  /\ Base \in Nat /\ Total \in Nat /\ Base + Total \in ArenaProofs!Usize
<1>1. Word \in Nat /\ \A e \in Elems : e.align \in Nat
  BY WordAssumption, AlignmentsAssumption, ElemsAssumption
<1>2. ASSUME NEW n \in 0 .. Total, NEW a \in {1} \cup { e.align : e \in Elems }
      PROVE  ForBytes(n, a) \in [kind : ArenaProofs!Kinds, at : Nat, len : Nat, bytes : Nat, align : Nat]
  BY <1>1, RegionAssumption DEF ForBytes, ArenaProofs!Kinds
<1>3. ASSUME NEW n \in Lens
      PROVE  Rewinding("marked", n, n) \in
               [kind : ArenaProofs!Kinds, at : Nat, len : Nat, bytes : Nat, align : Nat]
  BY <1>1, RequestsAssumption DEF Rewinding, ArenaProofs!Kinds, ArenaProofs!ReuseKinds
<1>4. ASSUME NEW kind \in {"last", "reset"}
      PROVE  Rewinding(kind, 0, 1) \in
               [kind : ArenaProofs!Kinds, at : Nat, len : Nat, bytes : Nat, align : Nat]
  BY <1>1 DEF Rewinding, ArenaProofs!Kinds, ArenaProofs!ReuseKinds
<1>5. ArenaRequests \subseteq [kind : ArenaProofs!Kinds, at : Nat, len : Nat, bytes : Nat, align : Nat]
  BY <1>2, <1>3, <1>4 DEF ArenaRequests
<1>6. QED
  BY <1>5, RegionAssumption DEF Usize, ArenaProofs!Usize

(* The two instances of the arena split alike.                             *)
LEMMA SameSplit ==
  ASSUME NEW req, NEW len, NEW addr
  PROVE  Arena!CheckSplit(req, len, addr) = ArenaProofs!CheckSplit(req, len, addr)
<1>1. \A body : Arena!SpanStart(req, body) = ArenaProofs!SpanStart(req, body)
  BY DEF Arena!SpanStart, ArenaProofs!SpanStart
<1>2. Arena!SpanLen(req) = ArenaProofs!SpanLen(req)
  BY DEF Arena!SpanLen, ArenaProofs!SpanLen
<1>3. Arena!Usize = ArenaProofs!Usize
  BY DEF Arena!Usize, ArenaProofs!Usize
<1>4. Arena!AlignUp(addr, req.align) = ArenaProofs!AlignUp(addr, req.align)
  BY <1>3 DEF Arena!AlignUp, ArenaProofs!AlignUp, Arena!Pad, ArenaProofs!Pad
<1>5. Arena!Validate(req) <=> ArenaProofs!Validate(req)
  BY <1>3 DEF Arena!Validate, ArenaProofs!Validate
<1>6. QED
  BY <1>1, <1>2, <1>3, <1>4, <1>5 DEF Arena!CheckSplit, ArenaProofs!CheckSplit

(* The two instances of the arena take the same steps.                     *)
LEMMA SameArena ==
  /\ Arena!Init => ArenaProofs!Init
  /\ [Arena!Next]_(Arena!vars) => [ArenaProofs!Next]_(ArenaProofs!vars)
<1>1. Arena!Init => ArenaProofs!Init
  BY DEF Arena!Init, ArenaProofs!Init, Arena!NoCarve, ArenaProofs!NoCarve
<1>2. Arena!Next => ArenaProofs!Next
  <2>2. ASSUME NEW id, NEW req PROVE Arena!CarveApply(id, req) => ArenaProofs!CarveApply(id, req)
    BY SameSplit DEF Arena!CarveApply, ArenaProofs!CarveApply, Arena!Held, ArenaProofs!Held,
         Arena!Advance, ArenaProofs!Advance, Arena!SpanEnd, ArenaProofs!SpanEnd
  <2>3. ASSUME NEW id PROVE Arena!DropCarve(id) => ArenaProofs!DropCarve(id)
    BY DEF Arena!DropCarve, ArenaProofs!DropCarve, Arena!NoCarve, ArenaProofs!NoCarve,
         Arena!Held, ArenaProofs!Held
  <2>4. ASSUME NEW position, NEW spent
        PROVE  /\ Arena!Ended(position, spent) <=> ArenaProofs!Ended(position, spent)
               /\ Arena!Rewind(position) <=> ArenaProofs!Rewind(position)
    BY DEF Arena!Ended, ArenaProofs!Ended, Arena!End, ArenaProofs!End,
         Arena!Held, ArenaProofs!Held, Arena!Rewind, ArenaProofs!Rewind
  <2>5. ASSUME NEW c PROVE Arena!ReuseTarget(c) = ArenaProofs!ReuseTarget(c)
    BY DEF Arena!ReuseTarget, ArenaProofs!ReuseTarget,
         Arena!MarkedTarget, ArenaProofs!MarkedTarget
  <2>6. ASSUME NEW id PROVE Arena!Reuse(id) => ArenaProofs!Reuse(id)
    BY <2>4, <2>5 DEF Arena!Reuse, ArenaProofs!Reuse, Arena!NoCarve, ArenaProofs!NoCarve
  <2>7. ASSUME NEW m
        PROVE  /\ Arena!ForgetMark(m) => ArenaProofs!ForgetMark(m)
               /\ Arena!Release(m) => ArenaProofs!Release(m)
    BY <2>4 DEF Arena!ForgetMark, ArenaProofs!ForgetMark, Arena!Release, ArenaProofs!Release
  <2>8. Arena!Mark => ArenaProofs!Mark
    BY DEF Arena!Mark, ArenaProofs!Mark, Arena!Cardinality, ArenaProofs!Cardinality
  <2>9. Arena!Reset => ArenaProofs!Reset
    BY <2>4 DEF Arena!Reset, ArenaProofs!Reset
  <2>10. QED
    BY <2>2, <2>3, <2>6, <2>7, <2>8, <2>9 DEF Arena!Next, ArenaProofs!Next
<1>3. UNCHANGED Arena!vars => UNCHANGED ArenaProofs!vars
  BY DEF Arena!vars, ArenaProofs!vars
<1>4. QED
  BY <1>1, <1>2, <1>3

-----------------------------------------------------------------------------
(* What is left of a call. *)

(* The first instruction is carried out, the others are left.              *)
LEMMA TailIsLeft ==
  ASSUME CallTypes, call.todo # <<>>, Proceed
  PROVE  /\ Head(call.todo) \in Instructions /\ Head(call.todo) = call.todo[1]
         /\ 1 \in DOMAIN call.todo
         /\ call'.todo = Tail(call.todo) /\ call'.todo \in Seq(Instructions)
         /\ Len(call'.todo) = Len(call.todo) - 1
         /\ \A i \in DOMAIN call'.todo : i + 1 \in DOMAIN call.todo /\ call'.todo[i] = call.todo[i + 1]
         /\ \A names : Only(names) => Only(names)'
         /\ call'.op = call.op /\ call'.from = call.from /\ call'.ok = call.ok
         /\ call' = [op |-> call'.op, from |-> call'.from, need |-> call'.need,
                     todo |-> call'.todo, ok |-> call'.ok]
<1>1. call.todo \in Seq(Instructions) /\ call.todo # <<>>
  BY DEF CallTypes
<1>2. /\ Head(call.todo) \in Instructions /\ Head(call.todo) = call.todo[1]
      /\ 1 \in DOMAIN call.todo
      /\ Tail(call.todo) \in Seq(Instructions) /\ Len(Tail(call.todo)) = Len(call.todo) - 1
      /\ \A i \in DOMAIN Tail(call.todo) :
           i + 1 \in DOMAIN call.todo /\ Tail(call.todo)[i] = call.todo[i + 1]
  BY <1>1
<1>3. call' = [op |-> call.op, from |-> call.from, need |-> call.need,
               todo |-> Tail(call.todo), ok |-> call.ok]
  BY DEF Proceed, CallTypes
<1>4. /\ call'.todo = Tail(call.todo)
      /\ call'.op = call.op /\ call'.from = call.from /\ call'.ok = call.ok
      /\ call' = [op |-> call'.op, from |-> call'.from, need |-> call'.need,
                  todo |-> call'.todo, ok |-> call'.ok]
  BY <1>3
<1>5. ASSUME NEW names, Only(names) PROVE Only(names)'
  BY <1>2, <1>4, <1>5 DEF Only
<1>6. QED
  BY <1>2, <1>4, <1>5

(* What goes out of scope is owned by someone.                             *)
LEMMA OwnersGive ==
  ASSUME NEW owners \in Seq(Names)
  PROVE  /\ GiveAll(owners) \in Seq(Instructions)
         /\ Len(GiveAll(owners)) = Len(owners)
         /\ \A i \in DOMAIN GiveAll(owners) : GiveAll(owners)[i].do = "give"
<1>1. \A i \in DOMAIN owners : owners[i] \in Names
  OBVIOUS
<1>2. GiveAll(owners) = [i \in 1 .. Len(owners) |-> Give(owners[i])]
  BY DEF GiveAll
<1>3. \A i \in 1 .. Len(owners) : Give(owners[i]) \in Instructions /\ Give(owners[i]).do = "give"
  BY <1>1 DEF Give, Instructions
<1>4. Len(owners) \in Nat
  OBVIOUS
<1>5. QED
  BY <1>2, <1>3, <1>4

(* The names of the regions and of the locals are names.                   *)
LEMMA NamesAreNames ==
  /\ Regions \in Seq(Names)
  /\ "a" \in Names /\ "b" \in Names /\ Callers \subseteq Names
  /\ <<"b", "a">> \in Seq(Names)
  /\ DOMAIN Regions = 1 .. 8 /\ \A i \in 1 .. 8 : Regions[i] \in Names
<1>1. DOMAIN Regions = 1 .. 8
  BY DEF Regions
<1>2. \A i \in 1 .. 8 : Regions[i] \in RegionNames
  BY <1>1 DEF RegionNames
<1>3. Regions \in Seq(RegionNames)
  BY <1>1, <1>2 DEF Regions
<1>4. "a" \in Names /\ "b" \in Names /\ RegionNames \subseteq Names /\ Callers \subseteq Names
  BY DEF Names, Locals
<1>5. Regions \in Seq(Names)
  BY <1>3, <1>4
<1>6. QED
  BY <1>1, <1>2, <1>4, <1>5

(* An early return leaves the drops of what is held, and the frame's end.  *)
LEMMA FailLeavesDrops ==
  ASSUME CallTypes, Fail, UNCHANGED frame
  PROVE  /\ call'.todo \in Seq(Instructions) /\ call'.from = call.from
         /\ call'.op = call.op /\ call'.ok = FALSE
         /\ call' = [op |-> call'.op, from |-> call'.from, need |-> call'.need,
                     todo |-> call'.todo, ok |-> call'.ok]
         /\ Dropping' \/ Unwinding'
<1> DEFINE owners == <<"b", "a">> \o (IF call.op = "desc" THEN Regions ELSE <<>>)
           gives == GiveAll(owners)
           close == IF frame = NoFrame THEN <<>> ELSE <<CloseFrame>>
<1>1. owners \in Seq(Names)
  BY NamesAreNames
<1>2. /\ gives \in Seq(Instructions)
      /\ \A i \in DOMAIN gives : gives[i].do = "give"
  <2> HIDE DEF owners
  <2>1. QED
    BY <1>1, OwnersGive
<1>3. call' = [op |-> call.op, from |-> call.from, need |-> call.need,
               todo |-> gives \o close, ok |-> FALSE]
  BY DEF Fail, CallTypes
<1>4. call'.todo = gives \o close
  BY <1>3
<1> HIDE DEF gives, owners
<1>5. CloseFrame \in Instructions /\ CloseFrame.do = "close"
  BY DEF CloseFrame, Instructions
<1>6. CASE frame = NoFrame
  <2>1. call'.todo = gives
    BY <1>2, <1>4, <1>6
  <2>2. Dropping'
    BY <2>1, <1>2 DEF Dropping, Only
  <2>3. QED
    BY <1>2, <1>3, <2>1, <2>2
<1>7. CASE frame # NoFrame
  <2>1. call'.todo = gives \o <<CloseFrame>>
    BY <1>4, <1>7
  <2>2. /\ call'.todo \in Seq(Instructions) /\ Len(call'.todo) = Len(gives) + 1
        /\ \A i \in 1 .. Len(gives) : call'.todo[i] = gives[i]
        /\ call'.todo[Len(gives) + 1] = CloseFrame
        /\ Len(gives) \in Nat /\ DOMAIN gives = 1 .. Len(gives)
        /\ DOMAIN call'.todo = 1 .. Len(gives) + 1
    BY <2>1, <1>2, <1>5
  <2>3. \A i \in DOMAIN call'.todo :
          \/ i \in DOMAIN gives /\ call'.todo[i].do = "give"
          \/ i = Len(call'.todo) /\ call'.todo[i].do = "close"
    BY <2>2, <1>2, <1>5
  <2>4. Unwinding'
    BY <2>3, <1>7 DEF Unwinding, Only
  <2>5. QED
    BY <1>3, <2>2, <2>4
<1>8. QED
  BY <1>6, <1>7

(* The instructions of the methods.                                        *)
LEMMA InstructionsAreTyped ==
  /\ \A name \in Names, r \in Asked : Take(name, r) \in Instructions /\ Take(name, r).do = "take"
  /\ \A name \in Names : Give(name) \in Instructions /\ Give(name).do = "give"
  /\ \A name \in Names : ReuseBy(name) \in Instructions /\ ReuseBy(name).do = "reuse"
  /\ ResetAll \in Instructions /\ ResetAll.do = "reset"
  /\ OpenFrame \in Instructions /\ ReleaseFrame \in Instructions /\ CloseFrame \in Instructions
  /\ \A t \in Tables, e \in Elems, n \in Lens :
       UsePool(t, e, n) \in Instructions /\ UsePool(t, e, n).do = "pool"
  /\ \A e \in Elems, n \in Lens : UseSlots(e, n) \in Instructions /\ UseSlots(e, n).do = "slots"
  BY DEF Instructions, Take, Give, ReuseBy, ResetAll, OpenFrame, ReleaseFrame, CloseFrame,
         UsePool, UseSlots

(* A byte count and an element's alignment make a request.                 *)
LEMMA AskedForBytes ==
  ASSUME NEW n \in Nat, NEW e \in Elems
  PROVE  ForBytes(n, e.align) \in Asked /\ ForBytes(n, 1) \in Asked
  BY DEF Asked

(* A method's body works in the region alone, unless it opens a frame.     *)
Body(op, body) ==
  /\ body \in Seq(Instructions)
  /\ IF op = "frame_carve"
       THEN \E r \in Asked : body = Opening(r)
       ELSE \A i \in DOMAIN body :
              body[i].do \in {"take", "give", "reuse", "reset", "pool", "slots"}

(* The bodies of the methods that carve elements.                          *)
LEMMA CarvingBodies ==
  ASSUME NEW e \in Elems, NEW n \in Lens
  PROVE  /\ \A body \in SplitTakeBody(e, n) : Body("split_take", body)
         /\ \A body \in FrameCarveBody(e, n) : Body("frame_carve", body)
         /\ \A body \in SlotCarveBody(e, n) : Body("slot_carve", body)
         /\ \A t \in Tables : \A body \in PoolCarveBody(t, e, n) : Body("pool_carve", body)
<1>0. n \in Nat /\ e.size \in Nat /\ UsizeMax \in Nat
  BY RequestsAssumption, ElemsAssumption, UsizeAssumption
<1>1. e.size * n \in Nat
  BY <1>0
<1>2. \A k \in TypeBytes(e, n) : k \in Nat
  BY <1>1 DEF TypeBytes
<1>3. ASSUME NEW body \in SplitTakeBody(e, n) PROVE Body("split_take", body)
  <2>1. PICK k \in TypeBytes(e, n) : body = <<Take("a", ForBytes(k, e.align)), Give("a")>>
    BY DEF SplitTakeBody
  <2>2. ForBytes(k, e.align) \in Asked
    BY <2>1, <1>2, AskedForBytes
  <2>3. QED
    BY <2>1, <2>2, InstructionsAreTyped, NamesAreNames DEF Body
<1>4. ASSUME NEW body \in FrameCarveBody(e, n) PROVE Body("frame_carve", body)
  <2>1. PICK k \in TypeBytes(e, n) : body = Opening(ForBytes(k, e.align))
    BY DEF FrameCarveBody, Opening
  <2>2. ForBytes(k, e.align) \in Asked
    BY <2>1, <1>2, AskedForBytes
  <2>3. Opening(ForBytes(k, e.align)) \in Seq(Instructions)
    BY <2>2, InstructionsAreTyped, NamesAreNames DEF Opening
  <2>4. QED
    BY <2>1, <2>2, <2>3 DEF Body
<1>5. ASSUME NEW body \in SlotCarveBody(e, n) PROVE Body("slot_carve", body)
  <2> DEFINE k == IF e.size * n \in Usize THEN e.size * n ELSE UsizeMax
  <2>1. body = <<Take("a", ForBytes(k, e.align)), UseSlots(e, n), Give("a")>>
    BY DEF SlotCarveBody
  <2>2. k \in Nat
    BY <1>0, <1>1
  <2> HIDE DEF k
  <2>3. ForBytes(k, e.align) \in Asked
    BY <2>2, AskedForBytes
  <2>4. QED
    BY <2>1, <2>3, InstructionsAreTyped, NamesAreNames DEF Body
<1>6. ASSUME NEW t \in Tables, NEW body \in PoolCarveBody(t, e, n) PROVE Body("pool_carve", body)
  <2> DEFINE k == (e.size * n) % (UsizeMax + 1)
  <2>1. body = <<Take("a", ForBytes(k, e.align)), UsePool(t, e, n), Give("a")>>
    BY DEF PoolCarveBody
  <2>2. k \in Nat
    BY <1>0, <1>1
  <2> HIDE DEF k
  <2>3. ForBytes(k, e.align) \in Asked
    BY <2>2, AskedForBytes
  <2>4. QED
    BY <2>1, <2>3, InstructionsAreTyped, NamesAreNames DEF Body
<1>7. QED
  BY <1>3, <1>4, <1>5, <1>6

(* The bodies of the methods that rewind.                                  *)
LEMMA RewindingBodies ==
  /\ \A n \in Lens : \A body \in ReuseBody("marked", n, n) : Body("reuse_marked", body)
  /\ \A body \in ReuseBody("last", 0, 1) : Body("reuse_last", body)
  /\ \A body \in ReuseResetBody : Body("reuse_reset", body)
<1>1. ASSUME NEW kind, NEW position, NEW count, NEW body \in ReuseBody(kind, position, count),
             Rewinding(kind, position, count) \in ArenaRequests, NEW op, op # "frame_carve"
      PROVE  Body(op, body)
  <2>1. body = <<Take("a", Rewinding(kind, position, count)), ReuseBy("a")>>
    BY DEF ReuseBody
  <2>2. Rewinding(kind, position, count) \in Asked
    BY <1>1 DEF Asked
  <2>3. QED
    BY <1>1, <2>1, <2>2, InstructionsAreTyped, NamesAreNames DEF Body
<1>2. \A n \in Lens : Rewinding("marked", n, n) \in ArenaRequests
  BY DEF ArenaRequests
<1>3. Rewinding("last", 0, 1) \in ArenaRequests /\ Rewinding("reset", 0, 1) \in ArenaRequests
  BY DEF ArenaRequests
<1>4. "reuse_reset" # "frame_carve" /\ "reuse_last" # "frame_carve" /\ "reuse_marked" # "frame_carve"
  OBVIOUS
<1>7. \A body \in ReuseBody("reset", 0, 1) : Body("reuse_reset", body)
  BY <1>1, <1>3, <1>4
<1>5. Body("reuse_reset", <<ResetAll>>)
  BY InstructionsAreTyped DEF Body
<1>8. QED
  BY <1>1, <1>2, <1>3, <1>4, <1>5, <1>7 DEF ReuseResetBody

(* The bodies of log_bytes and desc.                                       *)
LEMMA OtherBodies ==
  /\ \A n \in Lens : \A body \in LogBytesBody(n) : Body("log_bytes", body)
  /\ \A e \in Elems, p \in Plans : \A body \in DescBody(e, p) : Body("desc", body)
<1>1. ASSUME NEW n \in Lens, NEW body \in LogBytesBody(n) PROVE Body("log_bytes", body)
  <2>1. body = <<Take("a", ForBytes(n, 1)), Take("b", ForBytes(n, 1)), Give("b"), Give("a")>>
    BY DEF LogBytesBody
  <2>2. ForBytes(n, 1) \in Asked
    BY RequestsAssumption DEF Asked
  <2>3. QED
    BY <2>1, <2>2, InstructionsAreTyped, NamesAreNames DEF Body
<1>2. ASSUME NEW e \in Elems, NEW p \in Plans, NEW body \in DescBody(e, p) PROVE Body("desc", body)
  <2>1. body = [i \in 1 .. 8 |-> Take(Regions[i], ForBytes(e.size * p[i], e.align))]
    BY NamesAreNames DEF DescBody
  <2>2. ASSUME NEW i \in 1 .. 8
        PROVE  body[i] \in Instructions /\ body[i].do = "take"
    <3>1. p[i] \in Nat /\ e.size \in Nat
      BY PlansAssumption, ElemsAssumption, NamesAreNames
    <3>2. e.size * p[i] \in Nat
      BY <3>1
    <3>3. ForBytes(e.size * p[i], e.align) \in Asked
      BY <3>2, AskedForBytes
    <3>4. body[i] = Take(Regions[i], ForBytes(e.size * p[i], e.align))
      BY <2>1
    <3>5. QED
      BY <3>3, <3>4, NamesAreNames, InstructionsAreTyped
  <2>3. body \in Seq(Instructions)
    <3>1. body \in [1 .. 8 -> Instructions]
      BY <2>1, <2>2
    <3>2. 8 \in Nat /\ [1 .. 8 -> Instructions] \in {[1 .. n -> Instructions] : n \in Nat}
      OBVIOUS
    <3>3. body \in UNION {[1 .. n -> Instructions] : n \in Nat}
      BY <3>1, <3>2, Zenon
    <3>4. QED
      BY <3>3, SeqDef, Zenon
  <2>4. DOMAIN body = 1 .. 8
    BY <2>1
  <2>5. QED
    BY <2>2, <2>3, <2>4 DEF Body
<1>3. QED
  BY <1>1, <1>2

(* What an instruction carries.                                            *)
LEMMA InstructionsCarry ==
  ASSUME NEW i \in Instructions
  PROVE  /\ i.do = "take" => i.name \in Names /\ i.req \in Asked
         /\ i.do \in {"give", "reuse"} => i.name \in Names
  BY DEF Instructions

(* What a frame_carve does next.                                           *)
LEMMA FrameCarveSteps ==
  ASSUME CallTypes, InFrameCarve, call.todo # <<>>
  PROVE  \/ /\ Doing("open") /\ frame = NoFrame /\ cursor = call.from
            /\ \E r \in Asked : Tail(call.todo) = TakeBoth(r)
         \/ /\ Doing("take") /\ frame = [mark |-> call.from, state |-> "alive"]
            /\ \E r \in Asked : Tail(call.todo) \in {TakeSecond(r), DropBoth}
         \/ /\ Doing("give") /\ frame = [mark |-> call.from, state |-> "alive"]
            /\ Tail(call.todo) \in {DropFirst, Releasing}
         \/ /\ Doing("release") /\ frame = [mark |-> call.from, state |-> "alive"]
            /\ Tail(call.todo) = <<CloseFrame>>
         \/ /\ Doing("close") /\ frame = [mark |-> call.from, state |-> "released"]
            /\ cursor = call.from /\ Tail(call.todo) = <<>>
<1>1. ASSUME NEW r \in Asked, call.todo = Opening(r)
      PROVE  Head(call.todo) = OpenFrame /\ Tail(call.todo) = TakeBoth(r)
  BY <1>1 DEF Opening, TakeBoth
<1>2. ASSUME NEW r \in Asked, call.todo = TakeBoth(r)
      PROVE  Head(call.todo) = Take("a", r) /\ Tail(call.todo) = TakeSecond(r)
  BY <1>2 DEF TakeBoth, TakeSecond
<1>3. ASSUME NEW r \in Asked, call.todo = TakeSecond(r)
      PROVE  Head(call.todo) = Take("b", r) /\ Tail(call.todo) = DropBoth
  BY <1>3 DEF TakeSecond, DropBoth
<1>4. ASSUME call.todo = DropBoth
      PROVE  Head(call.todo) = Give("b") /\ Tail(call.todo) = DropFirst
  BY <1>4 DEF DropBoth, DropFirst
<1>5. ASSUME call.todo = DropFirst
      PROVE  Head(call.todo) = Give("a") /\ Tail(call.todo) = Releasing
  BY <1>5 DEF DropFirst, Releasing
<1>6. ASSUME call.todo = Releasing
      PROVE  Head(call.todo) = ReleaseFrame /\ Tail(call.todo) = <<CloseFrame>>
  BY <1>6 DEF Releasing
<1>7. ASSUME call.todo = <<CloseFrame>>
      PROVE  Head(call.todo) = CloseFrame /\ Tail(call.todo) = <<>>
  BY <1>7
<1>8. /\ OpenFrame.do = "open" /\ ReleaseFrame.do = "release" /\ CloseFrame.do = "close"
      /\ \A name, r : Take(name, r).do = "take" /\ Give(name).do = "give"
  BY DEF OpenFrame, ReleaseFrame, CloseFrame, Take, Give
<1>9. QED
  BY <1>1, <1>2, <1>3, <1>4, <1>5, <1>6, <1>7, <1>8 DEF InFrameCarve, Doing

(* What the other calls do next, and with which frame.                     *)
LEMMA OtherSteps ==
  ASSUME CallTypes, CallInv, ~(call.op = "frame_carve" /\ call.ok), call.todo # <<>>
  PROVE  \/ InRegion /\ \E what \in {"take", "give", "reuse", "reset", "pool", "slots"} : Doing(what)
         \/ Dropping /\ Doing("give")
         \/ Unwinding /\ Doing("give")
         \/ Unwinding /\ Doing("close") /\ Tail(call.todo) = <<>>
<1>1. /\ 1 \in DOMAIN call.todo /\ Head(call.todo) = call.todo[1]
      /\ Len(call.todo) = 1 => Tail(call.todo) = <<>>
  <2>1. call.todo \in Seq(Instructions)
    BY DEF CallTypes
  <2>2. Tail(call.todo) \in Seq(Instructions) /\ Len(Tail(call.todo)) = Len(call.todo) - 1
    BY <2>1
  <2>3. ASSUME Len(call.todo) = 1 PROVE Tail(call.todo) = <<>>
    <3> DEFINE rest == Tail(call.todo)
    <3>1. rest \in Seq(Instructions) /\ Len(rest) = 0
      BY <2>2, <2>3
    <3> HIDE DEF rest
    <3>2. rest = <<>>
      BY <3>1
    <3>3. QED
      BY <3>2 DEF rest
  <2>4. QED
    BY <2>1, <2>3
<1>2. CASE InRegion
  BY <1>1, <1>2 DEF InRegion, Only, Doing
<1>3. CASE Dropping
  BY <1>1, <1>3 DEF Dropping, Only, Doing
<1>4. CASE Unwinding
  BY <1>1, <1>4 DEF Unwinding, Only, Doing
<1>5. QED
  BY <1>2, <1>3, <1>4 DEF CallInv

(* The frame as an instruction finds it.                                   *)
LEMMA FramesAreInOrder ==
  ASSUME CallTypes, CallInv
  PROVE  /\ Doing("open") => frame = NoFrame
         /\ Doing("release") => frame.state = "alive"
         /\ Doing("close") => frame # NoFrame
         /\ Doing("reuse") \/ Doing("reset") => frame = NoFrame
         /\ Doing("take") => frame = NoFrame \/ frame.state = "alive"
<1>1. frame = NoFrame => frame.state = "none" /\ frame.mark = 0
  BY DEF NoFrame
<1>2. \A from : [mark |-> from, state |-> "alive"] # NoFrame /\ [mark |-> from, state |-> "released"] # NoFrame
  BY DEF NoFrame
<1>3. CASE call.op = "frame_carve" /\ call.ok
  BY <1>2, <1>3, FrameCarveSteps DEF CallInv, Doing
<1>4. CASE ~(call.op = "frame_carve" /\ call.ok)
  BY <1>4, OtherSteps DEF InRegion, Unwinding, Doing
<1>5. QED
  BY <1>3, <1>4

(* A request that was granted asked for no more than the region.           *)
LEMMA FittingRequests ==
  ASSUME ArenaProofs!IInv, NEW req \in Asked, NEW name, Arena!CarveApply(name, req)
  PROVE  req \in ArenaRequests
<1>1. PICK span \in Arena!CheckSplit(req, remaining, Base + cursor) : TRUE
  BY DEF Arena!CarveApply
<1>2. CASE req \in ArenaRequests
  BY <1>2
<1>3. ASSUME NEW n \in Nat, NEW a \in {1} \cup { e.align : e \in Elems }, req = ForBytes(n, a)
      PROVE  req \in ArenaRequests
  <2>1. a \in Nat \ {0}
    BY ElemsAssumption, AlignmentsAssumption
  <2>2. /\ Arena!SpanLen(req) = n /\ req.align = a
        /\ \A body : Arena!SpanStart(req, body) = 0
    BY <1>3 DEF ForBytes, Arena!SpanLen, Arena!SpanStart
  <2>3. PICK up \in Arena!AlignUp(Base + cursor, a) : 0 + n <= remaining - (up - (Base + cursor))
    BY <1>1, <2>2 DEF Arena!CheckSplit
  <2>4. Base + cursor \in Nat /\ remaining \in Nat /\ remaining <= Total /\ Total \in Nat
    BY RegionAssumption DEF ArenaProofs!IInv, ArenaProofs!TypeOK
  <2>5. up = Base + cursor + Arena!Pad(Base + cursor, a)
    BY <2>3 DEF Arena!AlignUp
  <2>6. Arena!Pad(Base + cursor, a) \in Nat
    <3>1. (Base + cursor) % a \in Int
      BY <2>1, <2>4
    <3>2. QED
      BY <2>1, <3>1 DEF Arena!Pad
  <2>7. n \in 0 .. Total
    BY <2>3, <2>4, <2>5, <2>6
  <2>8. QED
    BY <1>3, <2>7 DEF ArenaRequests
<1>4. QED
  BY <1>2, <1>3 DEF Asked

-----------------------------------------------------------------------------
(* Every step is a step of the arena, or leaves it alone. *)

(* The marks the arena knows of: the caller's, and the frame's.            *)
Marked == marks \cup IF frame.state = "none" THEN {} ELSE {frame.mark}

(* A new frame remembers the position, as mark does.                       *)
LEMMA NewFrameMarks ==
  ASSUME CallTypes, frame = NoFrame, NewFrame
  PROVE  Arena!Mark
<1>1. Marked = marks /\ Marked' = marks \cup {cursor}
  BY DEF NewFrame, NoFrame, Marked
<1>2. /\ IsFiniteSet(marks) /\ Cardinality(marks) \in Nat /\ Cardinality(marks) <= MaxMarks
      /\ MaxMarks \in Nat
  BY FS_CardinalityType, RequestsAssumption DEF CallTypes
<1>3. Cardinality(marks \cup {cursor}) <= MaxMarks + 1
  <2>1. Cardinality(marks \cup {cursor}) \in {Cardinality(marks), Cardinality(marks) + 1}
    BY <1>2, FS_AddElement, Zenon
  <2>2. QED
    BY <1>2, <2>1
<1>4. Arena!Cardinality(marks \cup {cursor}) = Cardinality(marks \cup {cursor})
  BY DEF Arena!Cardinality, Arena!IsFiniteSet, Cardinality, IsFiniteSet
<1>5. QED
  BY <1>1, <1>3, <1>4 DEF NewFrame, arena, Arena!Mark, Marked

(* A frame that goes out of scope takes its mark with it, unless the       *)
(* caller holds a mark of the same position.                               *)
LEMMA DropFrameForgets ==
  ASSUME DropFrame
  PROVE  [Arena!Next]_(Arena!vars)
<1>1. Marked' = marks
  BY DEF DropFrame, NoFrame, Marked
<1>2. CASE Marked = marks
  BY <1>1, <1>2 DEF DropFrame, arena, Arena!vars, Marked
<1>3. CASE Marked # marks
  <2>1. Marked = marks \cup {frame.mark} /\ frame.mark \notin marks
    BY <1>3 DEF Marked
  <2>2. Arena!ForgetMark(frame.mark)
    BY <1>1, <2>1 DEF DropFrame, arena, Arena!ForgetMark, Marked
  <2>3. QED
    BY <2>1, <2>2 DEF Arena!Next, Marked
<1>4. QED
  BY <1>2, <1>3

(* release of a frame is a release of its mark.                            *)
LEMMA ReleaseByFrameReleases ==
  ASSUME CallTypes, frame # NoFrame, ReleaseByFrame
  PROVE  [Arena!Next]_(Arena!vars)
<1>1. frame \in [mark : 0 .. Total, state : {"alive", "released"}]
  BY DEF CallTypes
<1>2. frame' = [mark |-> frame.mark, state |-> "released"]
  BY <1>1 DEF ReleaseByFrame
<1>3. Marked' = Marked /\ frame.mark \in Marked
  BY <1>1, <1>2 DEF ReleaseByFrame, Marked
<1>4. CASE frame.state = "alive"
  <2>1. Arena!Release(frame.mark)
    BY <1>4 DEF ReleaseByFrame
  <2>2. QED
    BY <1>3, <2>1 DEF Arena!Next, Marked
<1>5. CASE frame.state # "alive"
  BY <1>3, <1>5 DEF ReleaseByFrame, arena, Arena!vars, Marked
<1>6. QED
  BY <1>4, <1>5

(* Each step of the facade, as the arena sees it.                          *)
LEMMA StepsAreArenaSteps ==
  ASSUME CallTypes, CallInv, ArenaProofs!IInv, [Next]_vars
  PROVE  [Arena!Next]_(Arena!vars)
<1>1. UNCHANGED <<marks, frame>> => Marked' = Marked
  BY DEF Marked
<1>2. ASSUME UNCHANGED <<arena, marks, frame>> PROVE [Arena!Next]_(Arena!vars)
  BY <1>1, <1>2 DEF arena, Arena!vars, Marked
<1>3. call.todo # <<>> => Head(call.todo) \in Instructions
  BY DEF CallTypes
<1>4. ASSUME DoTake PROVE [Arena!Next]_(Arena!vars)
  <2> DEFINE i == Head(call.todo)
  <2>1. i.name \in Names /\ i.req \in Asked
    BY <1>3, <1>4, InstructionsCarry DEF DoTake, Doing
  <2>2. CASE Arena!CarveApply(i.name, i.req)
    <3>1. i.req \in ArenaRequests
      BY <2>1, <2>2, FittingRequests
    <3>2. QED
      BY <2>1, <2>2, <3>1 DEF Arena!Next
  <2>3. CASE ~Arena!CarveApply(i.name, i.req)
    BY <1>2, <1>4, <2>3 DEF DoTake
  <2>4. QED
    BY <2>2, <2>3
<1>5. ASSUME DoGive PROVE [Arena!Next]_(Arena!vars)
  <2> DEFINE name == Head(call.todo).name
  <2>1. name \in Names
    BY <1>3, <1>5, InstructionsCarry DEF DoGive, Doing
  <2>2. Arena!DropCarve(name) \/ UNCHANGED <<arena, marks, frame>>
    BY <1>5 DEF DoGive
  <2>3. QED
    BY <1>2, <2>1, <2>2 DEF Arena!Next
<1>6. ASSUME DoReuse PROVE [Arena!Next]_(Arena!vars)
  <2> DEFINE name == Head(call.todo).name
  <2>1. name \in Names
    BY <1>3, <1>6, InstructionsCarry DEF DoReuse, Doing
  <2>2. Arena!Reuse(name) \/ UNCHANGED <<arena, marks, frame>>
    BY <1>6 DEF DoReuse
  <2>3. QED
    BY <1>2, <2>1, <2>2 DEF Arena!Next
<1>7. ASSUME DoReset PROVE [Arena!Next]_(Arena!vars)
  BY <1>7 DEF DoReset, Arena!Next
<1>8. ASSUME DoNested \/ Return \/ DropDesc PROVE [Arena!Next]_(Arena!vars)
  BY <1>2, <1>8 DEF DoNested, Return, DropDesc
<1>9. ASSUME DoFrame \/ FrameByCaller PROVE [Arena!Next]_(Arena!vars)
  <2>1. \/ frame = NoFrame /\ NewFrame
        \/ frame # NoFrame /\ ReleaseByFrame
        \/ DropFrame
    <3>1. Doing("release") => frame # NoFrame
      BY FramesAreInOrder DEF NoFrame
    <3>2. QED
      BY <1>9, <3>1, FramesAreInOrder DEF DoFrame, FrameByCaller, Free
  <2>2. QED
    BY <2>1, NewFrameMarks, DropFrameForgets, ReleaseByFrameReleases DEF Arena!Next
<1>10. ASSUME Rewinds PROVE [Arena!Next]_(Arena!vars)
  <2>1. Marked = marks
    BY <1>10 DEF Rewinds, Free, NoFrame, Marked
  <2>2. \/ Arena!Mark \/ Arena!Reset
        \/ \E m \in marks : Arena!ForgetMark(m) \/ Arena!Release(m)
    BY <1>10 DEF Rewinds
  <2>3. QED
    BY <2>1, <2>2 DEF Arena!Next, Marked
<1>11. ASSUME NEW name \in Callers, NEW n \in Lens, NEW e \in Elems,
              CarveBytes(name, n, e.align) \/ CarveInFrame(name, n, e.align)
       PROVE  [Arena!Next]_(Arena!vars)
  <2>1. Arena!CarveApply(name, ForBytes(n, e.align))
    BY <1>11 DEF CarveBytes, CarveInFrame
  <2>2. ForBytes(n, e.align) \in Asked
    BY RequestsAssumption, AskedForBytes
  <2>3. ForBytes(n, e.align) \in ArenaRequests
    BY <2>1, <2>2, FittingRequests
  <2>4. QED
    BY <2>1, <2>3, NamesAreNames DEF Arena!Next
<1>12. ASSUME NEW name \in Callers, DropSlice(name) PROVE [Arena!Next]_(Arena!vars)
  BY <1>12, NamesAreNames DEF DropSlice, Arena!Next
<1>13. ASSUME NEW op, NEW need, NEW bodies, Enter(op, need, bodies) PROVE [Arena!Next]_(Arena!vars)
  BY <1>2, <1>13 DEF Enter
<1>14. ASSUME NEW e \in Elems, NEW n \in Lens, SplitTake(e, n) \/ FrameCarve(e, n) \/ SlotCarve(e, n)
       PROVE  [Arena!Next]_(Arena!vars)
  BY <1>13, <1>14 DEF SplitTake, FrameCarve, SlotCarve
<1>15. ASSUME NEW e \in Elems, NEW n \in Lens, NEW t \in Tables, PoolCarve(t, e, n)
       PROVE  [Arena!Next]_(Arena!vars)
  BY <1>13, <1>15 DEF PoolCarve
<1>16. ASSUME NEW e \in Elems, NEW p \in Plans, Desc(e, p) PROVE [Arena!Next]_(Arena!vars)
  BY <1>13, <1>16 DEF Desc
<1>17. ASSUME NEW n \in Lens, ReuseMarked(n) \/ LogBytes(n) PROVE [Arena!Next]_(Arena!vars)
  BY <1>13, <1>17 DEF ReuseMarked, LogBytes
<1>18. ASSUME ReuseLast \/ ReuseReset PROVE [Arena!Next]_(Arena!vars)
  BY <1>13, <1>18 DEF ReuseLast, ReuseReset
<1>19. ASSUME UNCHANGED vars PROVE [Arena!Next]_(Arena!vars)
  BY <1>2, <1>19 DEF vars, arena
<1>20. QED
  BY <1>4, <1>5, <1>6, <1>7, <1>8, <1>9, <1>10, <1>11, <1>12, <1>14, <1>15, <1>16, <1>17, <1>18,
     <1>19 DEF Next

-----------------------------------------------------------------------------
(* The invariant. *)

(* A carve only moves the cursor forwards.                                 *)
LEMMA CarvesGoForwards ==
  ASSUME ArenaProofs!IInv, NEW req \in Asked, NEW name, Arena!CarveApply(name, req)
  PROVE  cursor \in Nat /\ cursor' \in Nat /\ cursor <= cursor'
<1>1. PICK span \in Arena!CheckSplit(req, remaining, Base + cursor) : Arena!Advance(name, req, span)
  BY DEF Arena!CarveApply
<1>2. req \in ArenaProofs!Request
  BY FittingRequests, RequestsAreTyped DEF ArenaProofs!Request
<1>3. cursor \in Nat /\ remaining \in Nat /\ Base + cursor \in Nat
  BY RegionAssumption DEF ArenaProofs!IInv, ArenaProofs!TypeOK
<1>4. span \in ArenaProofs!CheckSplit(req, remaining, Base + cursor)
  BY <1>1, SameSplit
<1>5. span.prefix \in Nat /\ span.start \in Nat /\ span.len \in Nat
  BY <1>2, <1>3, <1>4, RequestsAreTyped, WordAssumption, UsizeAssumption, AlignmentsAssumption,
     ArenaProofs!CheckSplitFits
<1>6. cursor' = cursor + (span.prefix + span.start + span.len)
  BY <1>1 DEF Arena!Advance, Arena!SpanEnd
<1>7. QED
  BY <1>3, <1>5, <1>6

(* A call goes on, without touching the frame.                             *)
LEMMA ProceedKeepsCall ==
  ASSUME CallTypes, CallInv, call.todo # <<>>, Proceed, UNCHANGED <<marks, frame>>,
         ~Doing("open"), ~Doing("release"), ~Doing("close")
  PROVE  CallTypes' /\ CallInv'
<1>1. CallTypes'
  BY TailIsLeft DEF CallTypes
<1>2. CASE call.op = "frame_carve" /\ call.ok
  <2>1. \/ \E r \in Asked : call'.todo \in {TakeSecond(r), DropBoth}
        \/ call'.todo \in {DropFirst, Releasing}
    BY <1>2, FrameCarveSteps, TailIsLeft DEF CallInv
  <2>2. frame = [mark |-> call.from, state |-> "alive"]
    BY <1>2, FrameCarveSteps DEF CallInv
  <2>3. InFrameCarve'
    BY <2>1, <2>2, TailIsLeft DEF InFrameCarve, DropFirst, Releasing, DropBoth, TakeSecond, TakeBoth
  <2>4. QED
    BY <1>1, <1>2, <2>3, TailIsLeft DEF CallInv
<1>3. CASE ~(call.op = "frame_carve" /\ call.ok)
  <2>1. InRegion => InRegion'
    BY TailIsLeft DEF InRegion
  <2>2. Dropping => Dropping'
    BY TailIsLeft DEF Dropping
  <2>3. ASSUME Unwinding PROVE Unwinding'
    <3>1. Only({"give", "close"})' /\ frame' # NoFrame
      BY <2>3, TailIsLeft DEF Unwinding
    <3>2. \A i \in DOMAIN call'.todo : call'.todo[i].do = "close" => i = Len(call'.todo)
      <4> SUFFICES ASSUME NEW i \in DOMAIN call'.todo, call'.todo[i].do = "close"
                   PROVE  i = Len(call'.todo)
        OBVIOUS
      <4>1. i + 1 = Len(call.todo) /\ Len(call'.todo) = Len(call.todo) - 1
        BY <2>3, TailIsLeft DEF Unwinding
      <4>2. i \in Nat /\ Len(call.todo) \in Nat
        BY <1>1 DEF CallTypes
      <4>3. QED
        BY <4>1, <4>2
    <3>3. QED
      BY <3>1, <3>2 DEF Unwinding
  <2>4. QED
    BY <1>1, <1>3, <2>1, <2>2, <2>3, TailIsLeft DEF CallInv
<1>4. QED
  BY <1>2, <1>3

(* An early return unwinds.                                                *)
LEMMA FailKeepsCall ==
  ASSUME CallTypes, Fail, UNCHANGED <<marks, frame>>
  PROVE  CallTypes' /\ CallInv'
  BY FailLeavesDrops DEF CallTypes, CallInv

(* No call is in progress: only the frame and the marks have to be typed.  *)
LEMMA NoCallKeeps ==
  ASSUME CallTypes, call' = NoCall,
         marks' \subseteq 0 .. Total /\ IsFiniteSet(marks') /\ Cardinality(marks') <= MaxMarks,
         frame' \in {NoFrame} \cup [mark : 0 .. Total, state : {"alive", "released"}]
  PROVE  CallTypes' /\ CallInv'
<1>1. /\ call'.todo = <<>> /\ call'.from = 0 /\ call'.op = "none" /\ call'.ok \in BOOLEAN
      /\ call' = [op |-> call'.op, from |-> call'.from, need |-> call'.need,
                  todo |-> call'.todo, ok |-> call'.ok]
  BY DEF NoCall
<1>2. call'.todo \in Seq(Instructions) /\ Dropping'
  BY <1>1 DEF Dropping, Only
<1>3. QED
  BY <1>1, <1>2, RegionAssumption DEF CallTypes, CallInv

(* A call begins.                                                          *)
LEMMA EnterKeepsCall ==
  ASSUME CallTypes, ArenaProofs!IInv, NEW op, NEW need, NEW bodies, Enter(op, need, bodies),
         \A body \in bodies : Body(op, body)
  PROVE  CallTypes' /\ CallInv'
<1>1. PICK body \in bodies :
        call' = [op |-> op, from |-> cursor, need |-> need, todo |-> body, ok |-> TRUE]
  BY DEF Enter
<1>2. /\ call'.op = op /\ call'.from = cursor /\ call'.todo = body /\ call'.ok = TRUE
      /\ call' = [op |-> call'.op, from |-> call'.from, need |-> call'.need,
                  todo |-> call'.todo, ok |-> call'.ok]
  BY <1>1
<1>3. cursor \in 0 .. Total /\ cursor' = cursor /\ frame = NoFrame /\ UNCHANGED <<marks, frame>>
  BY DEF Enter, Free, arena, ArenaProofs!IInv, ArenaProofs!TypeOK
<1>4. CallTypes'
  BY <1>2, <1>3 DEF CallTypes, Body
<1>5. CASE op = "frame_carve"
  BY <1>2, <1>3, <1>4, <1>5 DEF CallInv, InFrameCarve, Body
<1>6. CASE op # "frame_carve"
  BY <1>2, <1>3, <1>4, <1>6 DEF CallInv, InRegion, Only, Body
<1>7. QED
  BY <1>5, <1>6

(* The methods that are more than one arena step.                          *)
Methods ==
  \/ \E e \in Elems, n \in Lens : SplitTake(e, n) \/ FrameCarve(e, n) \/ SlotCarve(e, n)
  \/ \E e \in Elems, n \in Lens, t \in Tables : PoolCarve(t, e, n)
  \/ \E e \in Elems, p \in Plans : Desc(e, p)
  \/ \E n \in Lens : ReuseMarked(n) \/ LogBytes(n)
  \/ ReuseLast
  \/ ReuseReset

(* Each of them begins with its body.                                      *)
LEMMA MethodsKeepCall ==
  ASSUME CallTypes, ArenaProofs!IInv, Methods
  PROVE  CallTypes' /\ CallInv' /\ UNCHANGED <<arena, frame>>
<1>1. ASSUME NEW op, NEW need, NEW bodies, Enter(op, need, bodies),
             \A body \in bodies : Body(op, body)
      PROVE  CallTypes' /\ CallInv' /\ UNCHANGED <<arena, frame>>
  BY <1>1, EnterKeepsCall DEF Enter
<1>2. ASSUME NEW e \in Elems, NEW n \in Lens, SplitTake(e, n) \/ FrameCarve(e, n) \/ SlotCarve(e, n)
      PROVE  CallTypes' /\ CallInv' /\ UNCHANGED <<arena, frame>>
  BY <1>1, <1>2, CarvingBodies DEF SplitTake, FrameCarve, SlotCarve
<1>3. ASSUME NEW e \in Elems, NEW n \in Lens, NEW t \in Tables, PoolCarve(t, e, n)
      PROVE  CallTypes' /\ CallInv' /\ UNCHANGED <<arena, frame>>
  BY <1>1, <1>3, CarvingBodies DEF PoolCarve
<1>4. ASSUME NEW e \in Elems, NEW p \in Plans, Desc(e, p)
      PROVE  CallTypes' /\ CallInv' /\ UNCHANGED <<arena, frame>>
  BY <1>1, <1>4, OtherBodies DEF Desc
<1>5. ASSUME NEW n \in Lens, ReuseMarked(n) \/ LogBytes(n)
      PROVE  CallTypes' /\ CallInv' /\ UNCHANGED <<arena, frame>>
  BY <1>1, <1>5, OtherBodies, RewindingBodies DEF ReuseMarked, LogBytes
<1>6. ASSUME ReuseLast \/ ReuseReset
      PROVE  CallTypes' /\ CallInv' /\ UNCHANGED <<arena, frame>>
  BY <1>1, <1>6, RewindingBodies DEF ReuseLast, ReuseReset
<1>7. QED
  BY <1>2, <1>3, <1>4, <1>5, <1>6 DEF Methods

(* Each step keeps what is known of the call and of the frame.             *)
LEMMA StepsKeepInv ==
  ASSUME Inv, ArenaProofs!IInv, [Next]_vars
  PROVE  Inv'
<1>1. CallTypes /\ CallInv /\ FrameHoldsItsStart
  BY DEF Inv
<1>2. cursor \in 0 .. Total
  BY DEF ArenaProofs!IInv, ArenaProofs!TypeOK
<1>3. ASSUME CallTypes' /\ CallInv', UNCHANGED <<frame, cursor>> PROVE Inv'
  BY <1>1, <1>3 DEF Inv, FrameHoldsItsStart
<1>4. ASSUME CallTypes' /\ CallInv', frame = NoFrame, frame' = frame PROVE Inv'
  BY <1>4 DEF Inv, FrameHoldsItsStart, NoFrame
<1>5. ASSUME NEW what, Doing(what)
      PROVE  /\ call.todo # <<>> /\ Head(call.todo) \in Instructions
             /\ \A other : Doing(other) => other = what
  <2>1. call.todo # <<>> /\ call.todo \in Seq(Instructions)
    BY <1>1, <1>5 DEF Doing, CallTypes
  <2>2. Head(call.todo) \in Instructions
    BY <2>1
  <2>3. QED
    BY <1>5, <2>1, <2>2 DEF Doing
<1>6. ASSUME NEW what \in {"take", "give", "reuse", "reset", "pool", "slots"}, Doing(what),
             Proceed \/ Fail, UNCHANGED <<marks, frame>>
      PROVE  CallTypes' /\ CallInv'
  <2>1. ~Doing("open") /\ ~Doing("release") /\ ~Doing("close")
    BY <1>5, <1>6
  <2>2. QED
    BY <1>1, <1>5, <1>6, <2>1, ProceedKeepsCall, FailKeepsCall
<1>7. ASSUME NEW req \in Asked, NEW name, Arena!CarveApply(name, req), UNCHANGED frame,
             CallTypes' /\ CallInv', frame = NoFrame \/ frame.state = "alive"
      PROVE  Inv'
  <2>1. cursor \in Nat /\ cursor' \in Nat /\ cursor <= cursor'
    BY <1>7, CarvesGoForwards
  <2>2. CASE frame = NoFrame
    BY <1>4, <1>7, <2>2
  <2>3. CASE frame.state = "alive" /\ frame # NoFrame
    <3>1. frame.mark \in Nat
      BY <1>1, <2>3 DEF CallTypes
    <3>2. QED
      BY <1>1, <1>7, <2>1, <2>3, <3>1 DEF Inv, FrameHoldsItsStart
  <2>4. QED
    BY <1>7, <2>2, <2>3
<1>8. ASSUME DoTake PROVE Inv'
  <2> DEFINE i == Head(call.todo)
  <2>1. Doing("take") /\ UNCHANGED <<marks, frame>> /\ (Proceed \/ Fail)
        /\ (Arena!CarveApply(i.name, i.req) \/ UNCHANGED arena)
    BY <1>8 DEF DoTake
  <2>2. CallTypes' /\ CallInv'
    BY <1>6, <2>1
  <2>3. i.req \in Asked /\ (frame = NoFrame \/ frame.state = "alive")
    BY <1>1, <1>5, <2>1, InstructionsCarry, FramesAreInOrder DEF Doing
  <2> HIDE DEF i
  <2>4. CASE Arena!CarveApply(i.name, i.req)
    BY <1>7, <2>1, <2>2, <2>3, <2>4
  <2>5. CASE UNCHANGED arena
    BY <1>3, <2>1, <2>2, <2>5 DEF arena
  <2>6. QED
    BY <2>1, <2>4, <2>5
<1>9. ASSUME DoGive PROVE Inv'
  <2>1. Doing("give") /\ UNCHANGED <<marks, frame>> /\ Proceed /\ UNCHANGED cursor
    BY <1>9 DEF DoGive, Arena!DropCarve, arena
  <2>2. QED
    BY <1>3, <1>6, <2>1
<1>10. ASSUME DoReuse \/ DoReset PROVE Inv'
  <2>1. (Doing("reuse") \/ Doing("reset")) /\ UNCHANGED <<marks, frame>> /\ (Proceed \/ Fail)
    BY <1>10 DEF DoReuse, DoReset
  <2>2. frame = NoFrame
    BY <1>1, <2>1, FramesAreInOrder
  <2>3. QED
    BY <1>4, <1>6, <2>1, <2>2
<1>11. ASSUME DoNested PROVE Inv'
  <2>1. /\ Doing("pool") \/ Doing("slots")
        /\ UNCHANGED <<marks, frame, cursor>>
        /\ Proceed \/ Fail
    BY <1>11 DEF DoNested, arena
  <2>2. QED
    BY <1>3, <1>6, <2>1
<1>12. ASSUME Return PROVE Inv'
  <2>1. call' = NoCall /\ UNCHANGED <<marks, frame, cursor>>
    BY <1>12 DEF Return, arena
  <2>2. CallTypes' /\ CallInv'
    BY <1>1, <2>1, NoCallKeeps DEF CallTypes
  <2>3. QED
    BY <1>3, <2>1, <2>2
<1>13. ASSUME DoFrame PROVE Inv'
  <2>1. call.todo # <<>> /\ Proceed /\ UNCHANGED marks
    BY <1>13 DEF DoFrame, Doing, NewFrame, ReleaseByFrame, DropFrame
  <2>2. CASE call.op = "frame_carve" /\ call.ok
    <3> DEFINE alive == [mark |-> call.from, state |-> "alive"]
               released == [mark |-> call.from, state |-> "released"]
    <3>1. call'.op = call.op /\ call'.ok = call.ok /\ call'.from = call.from
          /\ call'.todo = Tail(call.todo) /\ call.from \in 0 .. Total
      BY <1>1, <2>1, TailIsLeft DEF CallTypes
    <3>2. InFrameCarve
      BY <1>1, <2>2 DEF CallInv
    <3>3. \A what, other : Doing(what) /\ Doing(other) => what = other
      BY <1>5
    <3>4. CASE Doing("open") /\ NewFrame
      <4>1. frame' = alive /\ cursor' = cursor /\ \E r \in Asked : call'.todo = TakeBoth(r)
        BY <1>1, <2>1, <3>1, <3>2, <3>3, <3>4, FrameCarveSteps DEF NewFrame, arena
      <4>2. cursor = call.from
        BY <1>1, <2>1, <3>2, <3>3, <3>4, FrameCarveSteps
      <4>3. InFrameCarve'
        BY <3>1, <4>1 DEF InFrameCarve
      <4>4. CallTypes'
        BY <1>1, <2>1, <3>1, <4>1, TailIsLeft DEF CallTypes
      <4>5. QED
        BY <1>2, <2>2, <3>1, <4>1, <4>2, <4>3, <4>4 DEF Inv, CallInv, FrameHoldsItsStart
    <3>5. CASE Doing("release") /\ ReleaseByFrame
      <4>1. frame = alive /\ call'.todo = <<CloseFrame>>
        BY <1>1, <2>1, <3>1, <3>2, <3>3, <3>5, FrameCarveSteps
      <4>2. frame' = released /\ cursor' = call.from
        BY <3>5, <4>1 DEF ReleaseByFrame, Arena!Release, Arena!Rewind
      <4>3. InFrameCarve'
        BY <3>1, <4>1, <4>2 DEF InFrameCarve
      <4>4. CallTypes'
        BY <1>1, <2>1, <3>1, <4>2, TailIsLeft DEF CallTypes
      <4>5. QED
        BY <2>2, <3>1, <4>2, <4>3, <4>4 DEF Inv, CallInv, FrameHoldsItsStart
    <3>6. CASE Doing("close") /\ DropFrame
      <4>1. cursor = call.from /\ call'.todo = <<>>
        BY <1>1, <2>1, <3>1, <3>2, <3>3, <3>6, FrameCarveSteps
      <4>2. frame' = NoFrame /\ cursor' = cursor
        BY <3>6 DEF DropFrame, arena
      <4>3. InFrameCarve'
        BY <3>1, <4>1, <4>2 DEF InFrameCarve
      <4>4. CallTypes'
        BY <1>1, <2>1, <3>1, <4>2, TailIsLeft DEF CallTypes
      <4>5. QED
        BY <2>2, <3>1, <4>2, <4>3, <4>4 DEF Inv, CallInv, FrameHoldsItsStart, NoFrame
    <3>7. QED
      BY <1>13, <3>4, <3>5, <3>6 DEF DoFrame
  <2>3. CASE ~(call.op = "frame_carve" /\ call.ok)
    <3>1. Unwinding /\ Doing("close") /\ Tail(call.todo) = <<>>
      BY <1>1, <1>5, <1>13, <2>1, <2>3, OtherSteps DEF DoFrame
    <3>2. DropFrame
      BY <1>5, <1>13, <3>1 DEF DoFrame
    <3>3. frame' = NoFrame /\ call'.todo = <<>> /\ call'.op = call.op /\ call'.ok = call.ok
      BY <1>1, <2>1, <3>1, <3>2, TailIsLeft DEF DropFrame
    <3>4. CallTypes'
      BY <1>1, <2>1, <3>3, TailIsLeft DEF CallTypes
    <3>5. Dropping'
      BY <3>3 DEF Dropping, Only
    <3>6. QED
      BY <2>3, <3>3, <3>4, <3>5 DEF Inv, CallInv, FrameHoldsItsStart, NoFrame
  <2>4. QED
    BY <2>2, <2>3
<1>14. ASSUME Idle, UNCHANGED <<call, marks>>,
              frame' \in {NoFrame} \cup [mark : 0 .. Total, state : {"alive", "released"}]
       PROVE  CallTypes' /\ CallInv'
  BY <1>1, <1>14, NoCallKeeps DEF Idle, CallTypes
<1>15. ASSUME FrameByCaller PROVE Inv'
  <2>1. CASE Free /\ NewFrame
    <3>1. frame' = [mark |-> cursor, state |-> "alive"] /\ cursor' = cursor /\ Idle
          /\ UNCHANGED <<call, marks>>
      BY <1>15, <2>1 DEF FrameByCaller, Free, NewFrame, arena
    <3>2. CallTypes' /\ CallInv'
      BY <1>2, <1>14, <3>1
    <3>3. QED
      BY <1>2, <3>1, <3>2 DEF Inv, FrameHoldsItsStart
  <2>2. CASE Idle /\ frame # NoFrame /\ ReleaseByFrame
    <3>1. frame \in [mark : 0 .. Total, state : {"alive", "released"}]
      BY <1>1, <2>2 DEF CallTypes
    <3>2. frame' = [mark |-> frame.mark, state |-> "released"] /\ UNCHANGED <<call, marks>>
      BY <1>15, <2>2, <3>1 DEF FrameByCaller, ReleaseByFrame
    <3>3. CallTypes' /\ CallInv'
      BY <1>14, <2>2, <3>1, <3>2
    <3>4. cursor' = frame.mark
      BY <1>1, <2>2, <3>1 DEF ReleaseByFrame, Arena!Release, Arena!Rewind, FrameHoldsItsStart, arena
    <3>5. QED
      BY <3>2, <3>3, <3>4 DEF Inv, FrameHoldsItsStart
  <2>3. CASE Idle /\ DropFrame
    <3>1. frame' = NoFrame /\ Idle /\ UNCHANGED <<call, marks>>
      BY <1>15, <2>3 DEF FrameByCaller, DropFrame
    <3>2. CallTypes' /\ CallInv'
      BY <1>14, <3>1
    <3>3. QED
      BY <3>1, <3>2 DEF Inv, FrameHoldsItsStart, NoFrame
  <2>4. QED
    BY <1>15, <2>1, <2>2, <2>3 DEF FrameByCaller
<1>16. ASSUME Rewinds PROVE Inv'
  <2>1. Idle /\ frame = NoFrame /\ UNCHANGED <<frame, call>>
    BY <1>16 DEF Rewinds, Free
  <2>2. marks' \subseteq 0 .. Total /\ IsFiniteSet(marks') /\ Cardinality(marks') <= MaxMarks
    <3>1. ASSUME marks' = marks \cup {cursor}, Cardinality(marks \cup {cursor}) <= MaxMarks
          PROVE  marks' \subseteq 0 .. Total /\ IsFiniteSet(marks') /\ Cardinality(marks') <= MaxMarks
      BY <1>1, <1>2, <3>1, FS_AddElement DEF CallTypes
    <3>2. ASSUME NEW m \in marks, marks' = marks \ {m}
          PROVE  marks' \subseteq 0 .. Total /\ IsFiniteSet(marks') /\ Cardinality(marks') <= MaxMarks
      <4>1. /\ IsFiniteSet(marks) /\ Cardinality(marks) \in Nat /\ Cardinality(marks) <= MaxMarks
            /\ MaxMarks \in Nat
        BY <1>1, FS_CardinalityType, RequestsAssumption DEF CallTypes
      <4>2. IsFiniteSet(marks \ {m}) /\ Cardinality(marks \ {m}) = Cardinality(marks) - 1
        BY <4>1, FS_RemoveElement
      <4>3. QED
        BY <1>1, <3>2, <4>1, <4>2 DEF CallTypes
    <3>3. QED
      BY <1>1, <1>16, <3>1, <3>2 DEF Rewinds, CallTypes
  <2>3. CallTypes' /\ CallInv'
    BY <1>1, <2>1, <2>2, NoCallKeeps DEF Idle
  <2>4. QED
    BY <1>4, <2>1, <2>3
<1>17. ASSUME NEW name \in Callers, NEW n \in Lens, NEW e \in Elems,
              CarveBytes(name, n, e.align) \/ CarveInFrame(name, n, e.align)
       PROVE  Inv'
  <2>1. /\ Idle /\ UNCHANGED <<marks, frame, call>> /\ (frame = NoFrame \/ frame.state = "alive")
        /\ Arena!CarveApply(name, ForBytes(n, e.align))
    BY <1>17 DEF CarveBytes, CarveInFrame, Free
  <2>2. ForBytes(n, e.align) \in Asked
    BY RequestsAssumption, AskedForBytes
  <2>3. CallTypes' /\ CallInv'
    BY <1>1, <1>14, <2>1 DEF CallTypes
  <2>4. QED
    BY <1>7, <2>1, <2>2, <2>3
<1>18. ASSUME NEW name \in Callers, DropSlice(name) PROVE Inv'
  <2>1. Idle /\ UNCHANGED <<marks, frame, call, cursor>>
    BY <1>18 DEF DropSlice, Arena!DropCarve
  <2>2. CallTypes' /\ CallInv'
    BY <1>1, <1>14, <2>1 DEF CallTypes
  <2>3. QED
    BY <1>3, <2>1, <2>2
<1>19. ASSUME DropDesc PROVE Inv'
  <2>1. call' = [NoCall EXCEPT !.op = "drop", !.todo = GiveAll(Regions)]
        /\ UNCHANGED <<marks, frame, cursor>>
    BY <1>19 DEF DropDesc, arena
  <2>2. /\ call'.op = "drop" /\ call'.todo = GiveAll(Regions) /\ call'.from = 0
        /\ call'.ok \in BOOLEAN
        /\ call' = [op |-> call'.op, from |-> call'.from, need |-> call'.need,
                    todo |-> call'.todo, ok |-> call'.ok]
    BY <2>1 DEF NoCall
  <2>3. call'.todo \in Seq(Instructions) /\ Dropping'
    BY <2>2, OwnersGive, NamesAreNames DEF Dropping, Only
  <2>4. CallTypes' /\ CallInv'
    BY <1>1, <2>1, <2>2, <2>3, RegionAssumption DEF CallTypes, CallInv
  <2>5. QED
    BY <1>3, <2>1, <2>4
<1>20. ASSUME Methods PROVE Inv'
  <2>1. CallTypes' /\ CallInv' /\ UNCHANGED <<arena, frame>>
    BY <1>1, <1>20, MethodsKeepCall
  <2>2. QED
    BY <1>3, <2>1 DEF arena
<1>21. ASSUME UNCHANGED vars PROVE Inv'
  BY <1>1, <1>21 DEF vars, Inv, CallTypes, CallInv, FrameHoldsItsStart, InFrameCarve, InRegion,
     Dropping, Unwinding, Only
<1>22. QED
  BY <1>8, <1>9, <1>10, <1>11, <1>12, <1>13, <1>15, <1>16, <1>17, <1>18, <1>19, <1>20, <1>21
     DEF Next, Methods

(* The call, the frame and the arena together are as they should be.       *)
LEMMA Invariance == Spec => [](Inv /\ ArenaProofs!IInv)
<1>1. Init => Inv /\ Arena!Init
  <2> SUFFICES ASSUME Init PROVE Inv /\ Arena!Init
    OBVIOUS
  <2>1. call = NoCall /\ frame = NoFrame /\ marks = {} /\ frame.state = "none" /\ Marked = {}
    BY DEF Init, NoFrame, Marked
  <2>2. /\ call.todo = <<>> /\ call.from = 0 /\ call.op = "none" /\ call.ok \in BOOLEAN
        /\ call = [op |-> call.op, from |-> call.from, need |-> call.need,
                   todo |-> call.todo, ok |-> call.ok]
    BY <2>1 DEF NoCall
  <2>3. call.todo \in Seq(Instructions) /\ Dropping
    BY <2>2 DEF Dropping, Only
  <2>4. CallTypes
    BY <2>1, <2>2, <2>3, FS_EmptySet, RequestsAssumption, RegionAssumption DEF CallTypes
  <2>5. Inv
    BY <2>1, <2>2, <2>3, <2>4 DEF Inv, CallInv, FrameHoldsItsStart
  <2>6. Arena!Init
    BY <2>1 DEF Init, Arena!Init, Marked
  <2>7. QED
    BY <2>5, <2>6
<1>2. Arena!Init => ArenaProofs!IInv
  BY SameArena, RequestsAreTyped, WordAssumption, UsizeAssumption, AlignmentsAssumption,
     ArenaProofs!InitEstablishesIInv
<1>3. Inv /\ ArenaProofs!IInv /\ [Next]_vars => Inv' /\ ArenaProofs!IInv'
  <2> SUFFICES ASSUME Inv, ArenaProofs!IInv, [Next]_vars PROVE Inv' /\ ArenaProofs!IInv'
    OBVIOUS
  <2>1. Inv'
    BY StepsKeepInv
  <2>2. [ArenaProofs!Next]_(ArenaProofs!vars)
    BY StepsAreArenaSteps, SameArena DEF Inv
  <2>3. ArenaProofs!IInv'
    BY <2>2, RequestsAreTyped, WordAssumption, UsizeAssumption, AlignmentsAssumption,
       ArenaProofs!NextKeepsIInv
  <2>4. QED
    BY <2>1, <2>3
<1>4. QED
  BY <1>1, <1>2, <1>3, PTL DEF Spec

-----------------------------------------------------------------------------
(* The theorems. *)

(* The state of the facade is typed, the arena it borrows included.        *)
THEOREM FacadeTypeCorrect == Spec => []TypeOK
<1>1. Inv /\ ArenaProofs!IInv => TypeOK
  <2> SUFFICES ASSUME Inv, ArenaProofs!IInv PROVE TypeOK
    OBVIOUS
  <2>1. ArenaProofs!TypeOK
    BY DEF ArenaProofs!IInv
  <2>2. Arena!TypeOK
    BY <2>1 DEF Arena!TypeOK, ArenaProofs!TypeOK, Arena!Carves, ArenaProofs!Carves,
       Arena!Kinds, ArenaProofs!Kinds, Arena!SplitKinds, ArenaProofs!SplitKinds,
       Arena!ReuseKinds, ArenaProofs!ReuseKinds
  <2>3. QED
    BY <2>2 DEF Inv, CallTypes, TypeOK
<1>2. QED
  BY <1>1, Invariance, PTL

(* ArenaSteps: whatever a method does between its entry and its return,    *)
(* early or not, is what a Scratch allows under the contract of its        *)
(* rewinds; no method of helpers.rs rewinds below a slice that is held.    *)
THEOREM FacadeImplementsArena == Spec => ArenaSteps
<1>1. Init => Arena!Init
  <2>1. Init => marks = {} /\ frame.state = "none"
    BY DEF Init, NoFrame
  <2>2. QED
    BY <2>1 DEF Init, Arena!Init
<1>2. Inv /\ ArenaProofs!IInv /\ [Next]_vars => [Arena!Next]_(Arena!vars)
  BY StepsAreArenaSteps DEF Inv
<1>3. QED
  BY <1>1, <1>2, Invariance, PTL DEF Spec, ArenaSteps, Arena!Spec

(* Hence the facade never lends a byte twice: not to the caller, not to    *)
(* the slices a method holds for itself, and not to a descriptor.          *)
THEOREM FacadeLendsExclusively == Spec => ArenaProofs!LendsExclusively
<1>1. ArenaProofs!Spec => ArenaProofs!LendsExclusively
  BY RequestsAreTyped, WordAssumption, UsizeAssumption, AlignmentsAssumption,
     ArenaProofs!ImplementsLoans
<1>2. Arena!Spec => ArenaProofs!Spec
  BY SameArena, PTL DEF Arena!Spec, ArenaProofs!Spec
<1>3. QED
  BY <1>1, <1>2, FacadeImplementsArena, PTL DEF ArenaSteps

(* FrameHoldsItsStart: an alive frame never has to be refused its release, *)
(* and nothing is carved through a released one.                           *)
THEOREM FramesHoldTheirStart == Spec => []FrameHoldsItsStart
<1>1. Inv => FrameHoldsItsStart
  BY DEF Inv
<1>2. QED
  BY <1>1, Invariance, PTL

(* FrameCarveGivesBack: a frame_carve that succeeds leaves the region as   *)
(* it found it, though both its carves moved the cursor.                   *)
THEOREM FrameCarvesGiveBack == Spec => []FrameCarveGivesBack
<1>1. Inv => FrameCarveGivesBack
  <2> SUFFICES ASSUME Inv, Done("frame_carve") PROVE cursor = call.from
    BY DEF FrameCarveGivesBack
  <2>1. call.todo = <<>> /\ InFrameCarve
    BY DEF Done, Inv, CallInv
  <2>2. \A r : TakeBoth(r) # <<>> /\ TakeSecond(r) # <<>>
    BY DEF TakeBoth, TakeSecond
  <2>3. DropBoth # <<>> /\ DropFirst # <<>> /\ Releasing # <<>> /\ <<CloseFrame>> # <<>>
    BY DEF DropBoth, DropFirst, Releasing
  <2>4. QED
    BY <2>1, <2>2, <2>3 DEF InFrameCarve
<1>2. QED
  BY <1>1, Invariance, PTL

-----------------------------------------------------------------------------
(* desc takes exactly what it announced. *)

(* What plan_bytes adds to a total. *)
More(e, plan, totals, i) ==
  (UNION { { aligned + e.size * plan[i] : aligned \in AlignUp(t, e.align) } : t \in totals }) \cap Usize

(* The loop of plan_bytes, turn by turn. *)
LEMMA PlanTotalUnrolled ==
  ASSUME NEW e, NEW plan
  PROVE  /\ PlanTotal(e, plan)[0] = {0}
         /\ \A i \in 1 .. 8 : PlanTotal(e, plan)[i] = More(e, plan, PlanTotal(e, plan)[i - 1], i)
<1> DEFINE t0 == {0}
           t1 == More(e, plan, t0, 1)
           t2 == More(e, plan, t1, 2)
           t3 == More(e, plan, t2, 3)
           t4 == More(e, plan, t3, 4)
           t5 == More(e, plan, t4, 5)
           t6 == More(e, plan, t5, 6)
           t7 == More(e, plan, t6, 7)
           t8 == More(e, plan, t7, 8)
           w == [i \in 0 .. 8 |->
                  IF i = 0 THEN t0 ELSE IF i = 1 THEN t1 ELSE IF i = 2 THEN t2 ELSE
                  IF i = 3 THEN t3 ELSE IF i = 4 THEN t4 ELSE IF i = 5 THEN t5 ELSE
                  IF i = 6 THEN t6 ELSE IF i = 7 THEN t7 ELSE t8]
           Loop(f) == f = [i \in 0 .. 8 |-> IF i = 0 THEN {0} ELSE More(e, plan, f[i - 1], i)]
<1>1. PlanTotal(e, plan) = CHOOSE f : Loop(f)
  <2>1. Len(Regions) = 8
    BY DEF Regions
  <2>2. QED
    BY <2>1 DEF PlanTotal, More
<1>2. Loop(w)
  <2>1. /\ t1 = More(e, plan, t0, 1) /\ t2 = More(e, plan, t1, 2) /\ t3 = More(e, plan, t2, 3)
        /\ t4 = More(e, plan, t3, 4) /\ t5 = More(e, plan, t4, 5) /\ t6 = More(e, plan, t5, 6)
        /\ t7 = More(e, plan, t6, 7) /\ t8 = More(e, plan, t7, 8) /\ t0 = {0}
    OBVIOUS
  <2> HIDE DEF t0, t1, t2, t3, t4, t5, t6, t7, t8
  <2>2. \A i \in 0 .. 8 : w[i] = IF i = 0 THEN {0} ELSE More(e, plan, w[i - 1], i)
    BY <2>1
  <2>3. QED
    BY <2>2
<1>3. Loop(PlanTotal(e, plan))
  <2> HIDE DEF w, Loop
  <2>1. QED
    BY <1>1, <1>2
<1>4. QED
  BY <1>3

(* What is aligned already stays where it is.                              *)
LEMMA MultiplesStay ==
  ASSUME NEW a \in Nat \ {0}, NEW q \in Nat, NEW up \in AlignUp(a * q, a)
  PROVE  up = a * q
<1>1. (a * q) % a = 0
  BY RequestsAreTyped, WordAssumption, UsizeAssumption, AlignmentsAssumption,
     ArenaProofs!MultipleHasNoRemainder
<1>2. Pad(a * q, a) = a % a
  BY <1>1 DEF Pad
<1>3. a % a = 0 /\ a * q \in Nat
  OBVIOUS
<1>4. QED
  BY <1>2, <1>3 DEF AlignUp

(* What leaves no remainder is a multiple.                                 *)
LEMMA QuotientOfMultiple ==
  ASSUME NEW x \in Nat, NEW a \in Nat \ {0}, x % a = 0
  PROVE  \E b \in Nat : x = a * b
<1> DEFINE d == x \div a
           m == x % a
<1>1. x = a * d + m /\ d \in Int
  OBVIOUS
<1>2. x = a * d
  BY <1>1
<1> HIDE DEF d, m
<1>3. d >= 0
  <2>1. ~(d <= -1)
    <3> SUFFICES ASSUME d <= -1 PROVE FALSE
      OBVIOUS
    <3>1. a * d <= -a
      BY <1>1
    <3>2. QED
      BY <1>2, <3>1
  <2>2. QED
    BY <1>1, <2>1
<1>4. d \in Nat
  BY <1>1, <1>3
<1>5. QED
  BY <1>2, <1>4

(* The bytes of the first k regions of a plan.                             *)
Taken(e, plan) ==
  LET c(i) == e.size * plan[i]
      upTo(k, i) == IF i <= k THEN c(i) ELSE 0
  IN  [k \in 0 .. 8 |-> upTo(k, 1) + upTo(k, 2) + upTo(k, 3) + upTo(k, 4)
                        + upTo(k, 5) + upTo(k, 6) + upTo(k, 7) + upTo(k, 8)]

(* Each region adds its bytes, and leaves a multiple of the alignment.     *)
LEMMA TakenGrows ==
  ASSUME NEW e \in Elems, NEW plan \in Plans
  PROVE  /\ Taken(e, plan)[0] = 0
         /\ \A k \in 1 .. 8 : Taken(e, plan)[k] = Taken(e, plan)[k - 1] + e.size * plan[k]
         /\ \A k \in 0 .. 8 : Taken(e, plan)[k] \in Nat /\ Taken(e, plan)[k] <= Taken(e, plan)[8]
         /\ \A k \in 0 .. 8 : \E q \in Nat : Taken(e, plan)[k] = e.align * q
<1> DEFINE c(i) == e.size * plan[i]
           s == Taken(e, plan)
           a == e.align
<1>1. e.size \in Nat \ {0} /\ a \in Nat \ {0} /\ e.size % a = 0
  BY ElemsAssumption, AlignmentsAssumption
<1>2. \A i \in 1 .. 8 : plan[i] \in Nat
  BY PlansAssumption, NamesAreNames
<1>3. \A i \in 1 .. 8 : c(i) \in Nat
  BY <1>1, <1>2
<1>4. PICK b \in Nat : e.size = a * b
  BY <1>1, QuotientOfMultiple
<1>5. s = [k \in 0 .. 8 |->
             (IF 1 <= k THEN c(1) ELSE 0) + (IF 2 <= k THEN c(2) ELSE 0)
             + (IF 3 <= k THEN c(3) ELSE 0) + (IF 4 <= k THEN c(4) ELSE 0)
             + (IF 5 <= k THEN c(5) ELSE 0) + (IF 6 <= k THEN c(6) ELSE 0)
             + (IF 7 <= k THEN c(7) ELSE 0) + (IF 8 <= k THEN c(8) ELSE 0)]
  BY DEF Taken
<1>6. /\ c(1) \in Nat /\ c(2) \in Nat /\ c(3) \in Nat /\ c(4) \in Nat
      /\ c(5) \in Nat /\ c(6) \in Nat /\ c(7) \in Nat /\ c(8) \in Nat
  BY <1>3
<1> HIDE DEF s, c
<1>7. /\ s[0] = 0 /\ s[1] = c(1) /\ s[2] = s[1] + c(2) /\ s[3] = s[2] + c(3) /\ s[4] = s[3] + c(4)
      /\ s[5] = s[4] + c(5) /\ s[6] = s[5] + c(6) /\ s[7] = s[6] + c(7) /\ s[8] = s[7] + c(8)
  BY <1>5, <1>6
<1>8. \A k \in 1 .. 8 : s[k] = s[k - 1] + c(k)
  BY <1>6, <1>7
<1>9. \A k \in 0 .. 8 : s[k] \in Nat /\ s[k] <= s[8]
  BY <1>6, <1>7
<1>10. \A k \in 0 .. 8 : \E q \in Nat : s[k] = a * q
  <2> DEFINE P(k) == \E q \in Nat : s[k] = a * q
  <2>1. P(0)
    BY <1>1, <1>7
  <2>2. ASSUME NEW k \in 1 .. 8, P(k - 1) PROVE P(k)
    <3>1. PICK q \in Nat : s[k - 1] = a * q
      BY <2>2
    <3>2. c(k) = a * (b * plan[k]) /\ b * plan[k] \in Nat
      BY <1>1, <1>2, <1>4 DEF c
    <3>3. s[k] = a * (q + b * plan[k])
      BY <1>1, <1>8, <3>1, <3>2
    <3>4. QED
      BY <3>2, <3>3
  <2> HIDE DEF P
  <2>3. P(1) /\ P(2) /\ P(3) /\ P(4)
    BY <2>1, <2>2
  <2>4. P(5) /\ P(6) /\ P(7) /\ P(8)
    BY <2>2, <2>3
  <2>5. \A k \in 0 .. 8 : P(k)
    BY <2>1, <2>3, <2>4
  <2>6. QED
    BY <2>5 DEF P
<1>11. QED
  BY <1>7, <1>8, <1>9, <1>10 DEF s, c

(* The footprint of a plan is what its regions take, without any padding.  *)
LEMMA FootprintIsTaken ==
  ASSUME NEW e \in Elems, NEW plan \in Plans, NEW n \in Footprint(e, plan)
  PROVE  n = Taken(e, plan)[8] /\ n \in Usize
<1> DEFINE s == Taken(e, plan)
           t == PlanTotal(e, plan)
           P(k) == t[k] \subseteq {s[k]}
<1>1. /\ s[0] = 0
      /\ \A k \in 1 .. 8 : s[k] = s[k - 1] + e.size * plan[k]
      /\ \A k \in 0 .. 8 : \E q \in Nat : s[k] = e.align * q
  BY TakenGrows
<1>2. t[0] = {0} /\ \A i \in 1 .. 8 : t[i] = More(e, plan, t[i - 1], i)
  BY PlanTotalUnrolled
<1>3. e.align \in Nat \ {0}
  BY ElemsAssumption, AlignmentsAssumption
<1> HIDE DEF s, t
<1>4. P(0)
  BY <1>1, <1>2
<1>5. ASSUME NEW k \in 1 .. 8, P(k - 1) PROVE P(k)
  <2> SUFFICES ASSUME NEW x \in t[k] PROVE x = s[k]
    OBVIOUS
  <2>1. PICK y \in t[k - 1] : \E up \in AlignUp(y, e.align) : x = up + e.size * plan[k]
    BY <1>2 DEF More
  <2>6. PICK up \in AlignUp(y, e.align) : x = up + e.size * plan[k]
    BY <2>1
  <2>2. y = s[k - 1]
    BY <1>5, <2>1
  <2>3. PICK q \in Nat : s[k - 1] = e.align * q
    BY <1>1
  <2>4. up = s[k - 1]
    BY <1>3, <2>2, <2>3, <2>6, MultiplesStay
  <2>5. QED
    BY <1>1, <2>4, <2>6
<1> HIDE DEF P
<1>6. P(1) /\ P(2) /\ P(3) /\ P(4)
  BY <1>4, <1>5
<1>7. P(5) /\ P(6) /\ P(7) /\ P(8)
  BY <1>5, <1>6
<1>8. n \in t[8] /\ Len(Regions) = 8
  BY DEF Footprint, Regions, t
<1>9. n \in Usize
  BY <1>2, <1>8 DEF More
<1>10. QED
  BY <1>7, <1>8, <1>9 DEF P, s

(* What a desc has left after its first k carves.                          *)
Rest(e, plan, k) ==
  [i \in 1 .. 8 - k |-> Take(Regions[k + i], ForBytes(e.size * plan[k + i], e.align))]

DescAt(e, plan, k) ==
  /\ call.todo = Rest(e, plan, k)
  /\ cursor = call.from + Taken(e, plan)[k]
  /\ call.need = Taken(e, plan)[8]
  /\ call.from + call.need <= Total
  /\ IsAligned(Base + call.from, e.align)

DescInv ==
  call.op = "desc" => call.ok /\ \E e \in Elems, plan \in Plans, k \in 0 .. 8 : DescAt(e, plan, k)

(* The facade and its arena split alike.                                   *)
LEMMA OwnSplit ==
  ASSUME NEW req, NEW len, NEW addr
  PROVE  Arena!CheckSplit(req, len, addr) = CheckSplit(req, len, addr)
<1>1. \A body : Arena!SpanStart(req, body) = SpanStart(req, body)
  BY DEF Arena!SpanStart, SpanStart
<1>2. Arena!SpanLen(req) = SpanLen(req)
  BY DEF Arena!SpanLen, SpanLen
<1>3. Arena!Usize = Usize
  BY DEF Arena!Usize, Usize
<1>4. Arena!AlignUp(addr, req.align) = AlignUp(addr, req.align)
  BY <1>3 DEF Arena!AlignUp, AlignUp, Arena!Pad, Pad
<1>5. Arena!Validate(req) <=> Validate(req)
  BY <1>3 DEF Arena!Validate, Validate
<1>6. QED
  BY <1>1, <1>2, <1>3, <1>4, <1>5 DEF Arena!CheckSplit, CheckSplit

(* An aligned address leaves room for the mask: alignments divide 2^w.     *)
LEMMA AlignedAddressesRound ==
  ASSUME NEW a \in Alignments, NEW q \in Nat, a * q \in Usize
  PROVE  AlignUp(a * q, a) = {a * q}
<1>1. a \in Nat \ {0} /\ UsizeMax \in Nat /\ UsizeMax + 1 \in Nat /\ a * q \in Nat
  BY AlignmentsAssumption, UsizeAssumption
<1>2. PICK u \in Nat : UsizeMax + 1 = a * u
  BY <1>1, QuotientOfMultiple, PowersAssumption
<1>3. q < u
  <2> SUFFICES ASSUME u <= q PROVE FALSE
    BY <1>2
  <2>1. a * u <= a * q
    BY <1>1
  <2>2. QED
    BY <1>1, <1>2, <2>1 DEF Usize
<1>4. a * (q + 1) <= a * u
  BY <1>1, <1>3
<1>5. a * q + (a - 1) \in Usize
  BY <1>1, <1>2, <1>4 DEF Usize
<1>6. AlignUp(a * q, a) # {}
  BY <1>5 DEF AlignUp
<1>7. PICK up : up \in AlignUp(a * q, a) /\ AlignUp(a * q, a) = {up}
  BY <1>5 DEF AlignUp
<1>8. QED
  BY <1>1, <1>7, MultiplesStay

(* Every carve of a desc begins where the one before it ended, and fits.   *)
LEMMA RegionsFit ==
  ASSUME ArenaProofs!IInv, CallTypes, NEW e \in Elems, NEW plan \in Plans, NEW k \in 0 .. 7,
         DescAt(e, plan, k)
  PROVE  CheckSplit(ForBytes(e.size * plan[k + 1], e.align), remaining, Base + cursor)
           = {[prefix |-> 0, start |-> 0, len |-> e.size * plan[k + 1]]}
<1> DEFINE a == e.align
           s == Taken(e, plan)
           n == e.size * plan[k + 1]
           req == ForBytes(n, a)
           at == Base + cursor
<1>1. /\ s[k + 1] = s[k] + n
      /\ s[k] \in Nat /\ s[k + 1] \in Nat /\ s[8] \in Nat
      /\ s[k + 1] <= s[8]
      /\ \E q \in Nat : s[k] = a * q
  BY TakenGrows
<1>2. n \in Nat
  <2>1. e.size \in Nat /\ plan[k + 1] \in Nat
    BY ElemsAssumption, PlansAssumption, NamesAreNames
  <2>2. QED
    BY <2>1
<1>3. /\ cursor \in Nat /\ remaining \in Nat /\ cursor + remaining = Total /\ Total \in Nat
      /\ Base \in Nat /\ Base + Total <= UsizeMax /\ UsizeMax \in Nat /\ call.from \in Nat
  BY RegionAssumption, UsizeAssumption
     DEF ArenaProofs!IInv, ArenaProofs!TypeOK, ArenaProofs!StorageIsTheRest, CallTypes, Usize
<1>4. a \in Alignments /\ a \in Nat \ {0}
  BY ElemsAssumption, AlignmentsAssumption
<1>5. cursor = call.from + s[k] /\ call.from + s[8] <= Total
  BY DEF DescAt
<1> HIDE DEF s, n
<1>6. n <= remaining /\ n \in Usize
  BY <1>1, <1>2, <1>3, <1>5 DEF Usize
<1>7. PICK b \in Nat : Base + call.from = a * b
  <2>1. (Base + call.from) % a = 0 /\ Base + call.from \in Nat
    BY <1>3 DEF DescAt, IsAligned
  <2>2. QED
    BY <1>4, <2>1, QuotientOfMultiple
<1>8. PICK q \in Nat : s[k] = a * q
  BY <1>1
<1>9. at = a * (b + q) /\ b + q \in Nat
  <2>1. at = (Base + call.from) + s[k]
    BY <1>1, <1>3, <1>5
  <2>4. at = a * b + a * q
    BY <1>7, <1>8, <2>1
  <2>2. a * b + a * q = a * (b + q)
    BY <1>4
  <2>3. QED
    BY <2>2, <2>4
<1>10. at \in Usize
  BY <1>3 DEF Usize
<1>11. AlignUp(at, a) = {at}
  BY <1>4, <1>9, <1>10, AlignedAddressesRound
<1>12. /\ req.align = a /\ SpanLen(req) = n /\ Validate(req)
       /\ \A body : SpanStart(req, body) = 0
  BY <1>4 DEF ForBytes, SpanLen, SpanStart, Validate
<1>13. at \in Int
  BY <1>3
<1> HIDE DEF req, at
<1>14. CheckSplit(req, remaining, at) = {[prefix |-> 0, start |-> 0, len |-> n]}
  BY <1>2, <1>3, <1>6, <1>11, <1>12, <1>13 DEF CheckSplit
<1>15. QED
  BY <1>14 DEF req, at, n

(* What a desc has left shrinks from the front.                            *)
LEMMA RestIsLeft ==
  ASSUME NEW e, NEW plan, NEW k \in 0 .. 8, call.todo = Rest(e, plan, k),
         call.todo \in Seq(Instructions)
  PROVE  /\ (k = 8) <=> (call.todo = <<>>)
         /\ k # 8 => /\ Head(call.todo) = Take(Regions[k + 1], ForBytes(e.size * plan[k + 1], e.align))
                     /\ Tail(call.todo) = Rest(e, plan, k + 1)
<1> DEFINE r == Rest(e, plan, k)
           Item(i) == Take(Regions[i], ForBytes(e.size * plan[i], e.align))
<1>1. r = [i \in 1 .. 8 - k |-> Item(k + i)]
  BY DEF Rest
<1>2. Rest(e, plan, k + 1) = [i \in 1 .. 8 - (k + 1) |-> Item((k + 1) + i)]
  BY DEF Rest
<1> HIDE DEF r, Item
<1>3. 8 - k \in Nat /\ Len(r) = 8 - k /\ DOMAIN r = 1 .. 8 - k
  BY <1>1
<1>4. CASE k = 8
  <2>1. r = [i \in 1 .. 0 |-> Item(k + i)]
    BY <1>1, <1>4
  <2>2. r = <<>>
    BY <2>1
  <2>3. QED
    BY <1>4, <2>2 DEF r
<1>5. CASE k # 8
  <2>1. 8 - k \in Nat \ {0} /\ 1 \in 1 .. 8 - k
    BY <1>5
  <2>2. r # <<>> /\ Head(r) = r[1] /\ r[1] = Item(k + 1)
    BY <1>1, <1>3, <2>1
  <2>3. Tail(r) = [i \in 1 .. (8 - k) - 1 |-> r[i + 1]]
    <3>1. r \in Seq(Instructions)
      BY DEF r
    <3>2. /\ Tail(r) \in Seq(Instructions) /\ Len(Tail(r)) = (8 - k) - 1
          /\ \A i \in 1 .. (8 - k) - 1 : Tail(r)[i] = r[i + 1]
      BY <1>3, <2>2, <3>1
    <3> DEFINE t == Tail(r)
    <3>3. t \in Seq(Instructions) /\ DOMAIN t = 1 .. (8 - k) - 1
      BY <3>2
    <3> HIDE DEF t
    <3>4. t = [i \in DOMAIN t |-> t[i]]
      BY <3>3
    <3>5. t = [i \in 1 .. (8 - k) - 1 |-> r[i + 1]]
      BY <3>2, <3>3, <3>4 DEF t
    <3>6. QED
      BY <3>5 DEF t
  <2>4. \A i \in 1 .. (8 - k) - 1 : r[i + 1] = Item((k + 1) + i)
    BY <1>1, <2>1
  <2>5. (8 - k) - 1 = 8 - (k + 1)
    OBVIOUS
  <2>6. Tail(r) = Rest(e, plan, k + 1)
    BY <1>2, <2>3, <2>4, <2>5
  <2>7. QED
    BY <1>5, <2>2, <2>6 DEF r, Item
<1>6. QED
  BY <1>4, <1>5

(* A desc takes its next region.                                           *)
LEMMA TakesKeepDesc ==
  ASSUME Inv, ArenaProofs!IInv, call.op = "desc", DescInv, DoTake
  PROVE  DescInv'
<1>1. PICK e \in Elems, plan \in Plans, k \in 0 .. 8 : DescAt(e, plan, k)
  BY DEF DescInv
<1> DEFINE n == e.size * plan[k + 1]
           req == ForBytes(n, e.align)
           s == Taken(e, plan)
<1>2. k \in 0 .. 7 /\ k + 1 \in 0 .. 8 /\ call.todo # <<>>
  BY <1>1, RestIsLeft DEF DoTake, Doing, DescAt, Inv, CallTypes
<1>3. /\ Head(call.todo) = Take(Regions[k + 1], req)
      /\ Tail(call.todo) = Rest(e, plan, k + 1)
  BY <1>1, <1>2, RestIsLeft DEF DescAt, Inv, CallTypes
<1>4. CheckSplit(req, remaining, Base + cursor) = {[prefix |-> 0, start |-> 0, len |-> n]}
  BY <1>1, <1>2, RegionsFit DEF Inv
<1> HIDE DEF req
<1>5. Arena!CarveApply(Regions[k + 1], req) /\ Proceed
  <2>1. Head(call.todo).name = Regions[k + 1] /\ Head(call.todo).req = req
    BY <1>3 DEF Take
  <2>2. CheckSplit(req, remaining, Base + cursor) # {}
    BY <1>4
  <2>3. QED
    BY <2>1, <2>2 DEF DoTake
<1>6. cursor' = cursor + n
  <2>1. PICK span \in Arena!CheckSplit(req, remaining, Base + cursor) :
          Arena!Advance(Regions[k + 1], req, span)
    BY <1>5 DEF Arena!CarveApply
  <2>2. span = [prefix |-> 0, start |-> 0, len |-> n]
    BY <1>4, <2>1, OwnSplit
  <2>3. n \in Nat
    <3>1. e.size \in Nat /\ plan[k + 1] \in Nat
      BY <1>2, ElemsAssumption, PlansAssumption, NamesAreNames
    <3>2. QED
      BY <3>1
  <2>4. cursor' = cursor + (0 + 0 + n)
    BY <2>1, <2>2 DEF Arena!Advance, Arena!SpanEnd
  <2>5. QED
    BY <2>3, <2>4
<1>7. s[k + 1] = s[k] + n /\ s[k] \in Nat /\ s[k + 1] \in Nat
  BY <1>2, TakenGrows
<1>8. /\ call'.todo = Rest(e, plan, k + 1) /\ call'.from = call.from /\ call'.op = call.op
      /\ call'.ok = call.ok /\ call'.need = call.need /\ call.from \in Nat
  <2>1. call = [op |-> call.op, from |-> call.from, need |-> call.need, todo |-> call.todo,
                ok |-> call.ok] /\ call.from \in Nat
    BY DEF Inv, CallTypes
  <2>2. call' = [op |-> call.op, from |-> call.from, need |-> call.need,
                 todo |-> Tail(call.todo), ok |-> call.ok]
    BY <1>5, <2>1 DEF Proceed
  <2>3. QED
    BY <1>3, <2>1, <2>2
<1>9. cursor' = call.from + s[k + 1]
  <2>1. cursor = call.from + s[k]
    BY <1>1 DEF DescAt
  <2> HIDE DEF n, s
  <2>2. n \in Nat
    <3>1. e.size \in Nat /\ plan[k + 1] \in Nat
      BY <1>2, ElemsAssumption, PlansAssumption, NamesAreNames
    <3>2. QED
      BY <3>1 DEF n
  <2>3. QED
    BY <1>6, <1>7, <1>8, <2>1, <2>2
<1>10. DescAt(e, plan, k + 1)'
  BY <1>1, <1>8, <1>9 DEF DescAt
<1>11. QED
  BY <1>2, <1>8, <1>10 DEF DescInv

(* A desc begins with all its regions to carve, and room for them.         *)
LEMMA DescsBegin ==
  ASSUME Inv, ArenaProofs!IInv, NEW e \in Elems, NEW plan \in Plans, Desc(e, plan)
  PROVE  DescInv'
<1>1. PICK n \in Footprint(e, plan) : Enter("desc", n, DescBody(e, plan))
  BY DEF Desc
<1>2. PICK body \in DescBody(e, plan) :
        call' = [op |-> "desc", from |-> cursor, need |-> n, todo |-> body, ok |-> TRUE]
  BY <1>1 DEF Enter
<1>3. PICK m \in Footprint(e, plan) : DescFits(e, m)
  BY <1>2 DEF DescBody
<1>4. n = Taken(e, plan)[8] /\ m = Taken(e, plan)[8] /\ Taken(e, plan)[0] = 0
      /\ Taken(e, plan)[8] \in Nat
  BY FootprintIsTaken, TakenGrows
<1>5. cursor' = cursor /\ cursor \in Nat /\ remaining \in Nat /\ cursor + remaining = Total
  BY <1>1, RegionAssumption
     DEF Enter, arena, ArenaProofs!IInv, ArenaProofs!TypeOK, ArenaProofs!StorageIsTheRest
<1>6. body = Rest(e, plan, 0)
  <2>1. body = [i \in 1 .. 8 |-> Take(Regions[i], ForBytes(e.size * plan[i], e.align))]
    BY <1>2, NamesAreNames DEF DescBody
  <2>2. 1 .. 8 - 0 = 1 .. 8 /\ \A i \in 1 .. 8 : 0 + i = i
    OBVIOUS
  <2>3. QED
    BY <2>1, <2>2 DEF Rest
<1>7. /\ call'.op = "desc" /\ call'.from = cursor /\ call'.need = n /\ call'.todo = body
      /\ call'.ok = TRUE
  BY <1>2
<1>8. cursor + n <= Total /\ IsAligned(Base + cursor, e.align)
  BY <1>3, <1>4, <1>5 DEF DescFits
<1>9. DescAt(e, plan, 0)'
  BY <1>4, <1>5, <1>6, <1>7, <1>8 DEF DescAt
<1>10. QED
  BY <1>7, <1>9 DEF DescInv

(* Each step keeps a desc on its way: nothing it carves is refused.        *)
LEMMA StepsKeepDesc ==
  ASSUME Inv, ArenaProofs!IInv, DescInv, [Next]_vars
  PROVE  DescInv'
<1>1. /\ call = [op |-> call.op, from |-> call.from, need |-> call.need, todo |-> call.todo,
                 ok |-> call.ok]
      /\ call.todo \in Seq(Instructions)
  BY DEF Inv, CallTypes
<1>2. Proceed \/ Fail => call'.op = call.op
  BY <1>1 DEF Proceed, Fail
<1>3. ASSUME call'.op # "desc" PROVE DescInv'
  BY <1>3 DEF DescInv
<1>4. ASSUME Idle, UNCHANGED call PROVE DescInv'
  BY <1>3, <1>4 DEF Idle, NoCall
<1>5. ASSUME call.op = "desc", NEW what, Doing(what) PROVE what = "take"
  <2>1. PICK e \in Elems, plan \in Plans, k \in 0 .. 8 : DescAt(e, plan, k)
    BY <1>5 DEF DescInv
  <2>2. Head(call.todo) = Take(Regions[k + 1], ForBytes(e.size * plan[k + 1], e.align))
    BY <1>1, <1>5, <2>1, RestIsLeft DEF DescAt, Doing
  <2>3. QED
    BY <1>5, <2>2 DEF Doing, Take
<1>6. ASSUME NEW what, Doing(what), what # "take", Proceed \/ Fail PROVE DescInv'
  BY <1>2, <1>3, <1>5, <1>6
<1>7. ASSUME DoTake PROVE DescInv'
  <2>1. CASE call.op = "desc"
    BY <1>7, <2>1, TakesKeepDesc
  <2>2. CASE call.op # "desc"
    BY <1>2, <1>3, <1>7, <2>2 DEF DoTake
  <2>3. QED
    BY <2>1, <2>2
<1>8. ASSUME DoGive \/ DoReuse \/ DoReset \/ DoNested \/ DoFrame PROVE DescInv'
  BY <1>6, <1>8 DEF DoGive, DoReuse, DoReset, DoNested, DoFrame
<1>9. ASSUME Return PROVE DescInv'
  BY <1>3, <1>9 DEF Return, NoCall
<1>10. ASSUME FrameByCaller \/ Rewinds PROVE DescInv'
  BY <1>4, <1>10 DEF FrameByCaller, Rewinds, Free
<1>11. ASSUME NEW name \in Callers, NEW n \in Lens, NEW e \in Elems,
              CarveBytes(name, n, e.align) \/ CarveInFrame(name, n, e.align)
       PROVE  DescInv'
  BY <1>4, <1>11 DEF CarveBytes, CarveInFrame, Free
<1>12. ASSUME NEW name \in Callers, DropSlice(name) PROVE DescInv'
  BY <1>4, <1>12 DEF DropSlice
<1>13. ASSUME DropDesc PROVE DescInv'
  <2>1. call'.op = "drop"
    BY <1>13 DEF DropDesc, NoCall
  <2>2. QED
    BY <1>3, <2>1
<1>14. ASSUME Methods PROVE DescInv'
  <2>1. ASSUME NEW op, NEW need, NEW bodies, Enter(op, need, bodies), op # "desc" PROVE DescInv'
    <3>1. call'.op = op
      BY <2>1 DEF Enter
    <3>2. QED
      BY <1>3, <2>1, <3>1
  <2>2. ASSUME NEW e \in Elems, NEW plan \in Plans, Desc(e, plan) PROVE DescInv'
    BY <2>2, DescsBegin
  <2>3. ASSUME NEW e \in Elems, NEW n \in Lens, SplitTake(e, n) \/ FrameCarve(e, n) \/ SlotCarve(e, n)
        PROVE  DescInv'
    BY <2>1, <2>3 DEF SplitTake, FrameCarve, SlotCarve
  <2>4. ASSUME NEW e \in Elems, NEW n \in Lens, NEW t \in Tables, PoolCarve(t, e, n) PROVE DescInv'
    BY <2>1, <2>4 DEF PoolCarve
  <2>5. ASSUME NEW n \in Lens, ReuseMarked(n) \/ LogBytes(n) PROVE DescInv'
    BY <2>1, <2>5 DEF ReuseMarked, LogBytes
  <2>6. ASSUME ReuseLast \/ ReuseReset PROVE DescInv'
    BY <2>1, <2>6 DEF ReuseLast, ReuseReset
  <2>7. QED
    BY <1>14, <2>2, <2>3, <2>4, <2>5, <2>6 DEF Methods
<1>15. ASSUME UNCHANGED vars PROVE DescInv'
  BY <1>15 DEF vars, DescInv, DescAt
<1>16. QED
  BY <1>7, <1>8, <1>9, <1>10, <1>11, <1>12, <1>13, <1>14, <1>15 DEF Next, Methods

(* DescTakesItsFootprint: desc checks everything before its first carve,   *)
(* so none of the eight is refused, and together they take exactly the     *)
(* footprint announced for the plan.                                       *)
THEOREM DescsTakeTheirFootprint == Spec => []DescTakesItsFootprint
<1>1. Init => DescInv
  BY DEF Init, DescInv, NoCall
<1>2. Inv /\ ArenaProofs!IInv /\ DescInv /\ [Next]_vars => DescInv'
  BY StepsKeepDesc
<1>3. Inv /\ DescInv => DescTakesItsFootprint
  <2> SUFFICES ASSUME Inv, DescInv, call.op = "desc"
               PROVE  call.ok /\ (call.todo = <<>> => cursor = call.from + call.need)
    BY DEF DescTakesItsFootprint
  <2>1. PICK e \in Elems, plan \in Plans, k \in 0 .. 8 : DescAt(e, plan, k)
    BY DEF DescInv
  <2>2. call.todo = <<>> => k = 8
    BY <2>1, RestIsLeft DEF DescAt, Inv, CallTypes
  <2>3. QED
    BY <2>1, <2>2 DEF DescAt, DescInv
<1>4. QED
  BY <1>1, <1>2, <1>3, Invariance, PTL DEF Spec
=============================================================================
