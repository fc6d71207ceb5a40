--------------------------- MODULE ScratchProofs ---------------------------
(***************************************************************************)
(* Proofs about Scratch, for every region, usize, set of requests and      *)
(* number of carves, under the contract the code relies on (Contract =     *)
(* "ends").  IInv is the inductive invariant: the cursor and the storage   *)
(* slice agree, every live carve lies below the cursor, and live carves    *)
(* are disjoint.  Disjointness alone is not inductive: a carve is disjoint *)
(* from the earlier ones because they all lie below the cursor.            *)
(***************************************************************************)
EXTENDS Scratch, TLAPS

(* Rounding up never goes down, and stays within one alignment.            *)
LEMMA AlignUpBounds ==
  ASSUME NEW v \in Nat, NEW a, NEW up \in AlignUp(v, a)
  PROVE  up \in Nat /\ v <= up /\ up < v + a /\ a \in Nat \ {0}
<1>1. a \in Nat \ {0} /\ up = v + Pad(v, a)
  BY AlignmentsAssumption DEF AlignUp
<1>2. v % a \in Int
  BY <1>1
<1>3. Pad(v, a) \in 0 .. a - 1
  BY <1>1, <1>2 DEF Pad
<1>4. QED
  BY <1>1, <1>3

(* A multiple leaves no remainder: the provers know the quotient and the   *)
(* remainder of a division only by what they add up to.                    *)
LEMMA MultipleHasNoRemainder ==
  ASSUME NEW a \in Nat \ {0}, NEW q \in Int
  PROVE  (a * q) % a = 0
<1> DEFINE d == (a * q) \div a
           m == (a * q) % a
<1>1. a * q = a * d + m /\ m \in 0 .. a - 1 /\ d \in Int
  OBVIOUS
<1>2. m = a * (q - d)
  BY <1>1
<1>3. q - d \in Int
  BY <1>1
<1>4. CASE q - d >= 1
  <2>1. a * (q - d) >= a
    BY <1>3, <1>4
  <2>2. QED
    BY <2>1, <1>1, <1>2
<1>5. CASE q - d <= -1
  <2>1. a * (q - d) <= -a
    BY <1>3, <1>5
  <2>2. QED
    BY <2>1, <1>1, <1>2
<1>6. CASE q - d = 0
  BY <1>6, <1>2
<1>7. QED
  BY <1>3, <1>4, <1>5, <1>6

(* What align_up returns is a multiple of the alignment.                   *)
LEMMA AlignUpAligns ==
  ASSUME NEW v \in Nat, NEW a, NEW up \in AlignUp(v, a)
  PROVE  IsAligned(up, a)
<1>1. a \in Alignments /\ a \in Nat \ {0} /\ up = v + Pad(v, a)
  BY AlignmentsAssumption DEF AlignUp
<1> DEFINE d == v \div a
           m == v % a
<1>2. d \in Int /\ m \in 0 .. a - 1 /\ v = a * d + m
  BY <1>1
<1>3. CASE m = 0
  <2>1. Pad(v, a) = a % a
    BY <1>3, <1>1 DEF Pad
  <2>2. a % a = 0
    BY <1>1
  <2>3. QED
    BY <1>1, <1>3, <2>1, <2>2 DEF IsAligned
<1>4. CASE m > 0
  <2>1. Pad(v, a) = (a - m) % a
    BY DEF Pad
  <2>2. a - m \in 0 .. a - 1
    BY <1>1, <1>2, <1>4
  <2>3. (a - m) % a = a - m
    BY <1>1, <2>2
  <2>4. up = a * (d + 1)
    BY <1>1, <1>2, <2>1, <2>3
  <2>5. QED
    BY <1>1, <1>2, <2>4, MultipleHasNoRemainder DEF IsAligned
<1>5. QED
  BY <1>2, <1>3, <1>4

-----------------------------------------------------------------------------

Request == [kind : Kinds, at : Nat, len : Nat, bytes : Nat, align : Nat]

(* What check_split accepts lies inside the region it was checked against. *)
LEMMA CheckSplitFits ==
  ASSUME NEW req \in Request, NEW arenaLen \in Nat, NEW arenaAddr \in Nat,
         NEW span \in CheckSplit(req, arenaLen, arenaAddr)
  PROVE  /\ span.prefix \in Nat /\ span.start \in Nat /\ span.len \in Nat
         /\ SpanEnd(span) <= arenaLen
<1>1. PICK up \in AlignUp(arenaAddr, req.align) :
        /\ up - arenaAddr <= arenaLen
        /\ SpanStart(req, arenaLen - (up - arenaAddr)) >= 0
        /\ SpanStart(req, arenaLen - (up - arenaAddr)) + SpanLen(req)
             <= arenaLen - (up - arenaAddr)
        /\ span = [prefix |-> up - arenaAddr,
                   start |-> SpanStart(req, arenaLen - (up - arenaAddr)),
                   len |-> SpanLen(req)]
  BY DEF CheckSplit
<1>2. up - arenaAddr \in Nat
  BY AlignUpBounds
<1>3. SpanLen(req) \in Nat
  BY DEF SpanLen, Request
<1>4. SpanStart(req, arenaLen - (up - arenaAddr)) \in Int
  BY <1>2 DEF SpanStart, Request
<1>5. QED
  BY <1>1, <1>2, <1>3, <1>4 DEF SpanEnd

-----------------------------------------------------------------------------

IInv == TypeOK /\ StorageIsTheRest /\ HeldBelowCursor /\ Disjoint

(* An empty region with nothing lent satisfies it.                         *)
LEMMA InitEstablishesIInv == Init => IInv
  BY RegionAssumption, AlignmentsAssumption
     DEF Init, IInv, TypeOK, StorageIsTheRest, HeldBelowCursor, Disjoint,
         NoCarve, Held, Carves, Kinds

(* A new carve starts at or above the cursor, hence above every live one,  *)
(* and the cursor and the storage slice give up the same bytes.            *)
LEMMA CarveApplyKeepsIInv ==
  ASSUME IInv, NEW id \in Ids, NEW req \in Requests, CarveApply(id, req)
  PROVE  IInv'
<1> USE DEF IInv, TypeOK, StorageIsTheRest
<1>1. cursor \in Nat /\ remaining \in Nat /\ Total \in Nat /\ Base \in Nat
  BY RegionAssumption
<1>2. req \in Request
  BY RequestsAssumption DEF Request
<1>3. PICK span \in CheckSplit(req, remaining, Base + cursor) : Advance(id, req, span)
  BY DEF CarveApply
<1>4. /\ span.prefix \in Nat /\ span.start \in Nat /\ span.len \in Nat
      /\ SpanEnd(span) <= remaining
  BY <1>1, <1>2, CheckSplitFits
<1> DEFINE c == [kind |-> req.kind, at |-> req.at, align |-> req.align,
                 offset |-> cursor + span.prefix + span.start, len |-> span.len]
<1>5. /\ carves' = [carves EXCEPT ![id] = c]
      /\ cursor' = cursor + SpanEnd(span) /\ remaining' = remaining - SpanEnd(span)
      /\ marks' = marks
  BY <1>3 DEF Advance, CarveApply
<1>6. c \in Carves /\ c.offset >= cursor /\ c.offset + c.len = cursor'
  BY <1>1, <1>2, <1>4, <1>5 DEF Carves, Request, SpanEnd
<1>7. TypeOK' /\ StorageIsTheRest'
  BY <1>1, <1>4, <1>5, <1>6 DEF SpanEnd
<1>8. ASSUME NEW i \in Ids, carves[i].kind # "none", i # id
      PROVE  End(i)' <= cursor /\ carves'[i] = carves[i]
  BY <1>5, <1>8 DEF HeldBelowCursor, Held, End
<1>9. HeldBelowCursor'
  <2> SUFFICES ASSUME NEW i \in Ids, carves'[i].kind # "none" PROVE End(i)' <= cursor'
    BY DEF HeldBelowCursor, Held
  <2>1. CASE i = id
    BY <2>1, <1>5, <1>6 DEF End
  <2>2. CASE i # id
    <3>1. End(i)' <= cursor /\ End(i)' \in Int
      BY <2>2, <1>5, <1>8 DEF End, Carves
    <3>2. QED
      BY <3>1, <1>1, <1>4, <1>5 DEF SpanEnd
  <2>3. QED
    BY <2>1, <2>2
<1>10. Disjoint'
  <2> SUFFICES ASSUME NEW i \in Ids, NEW j \in Ids, i # j,
                      carves'[i].kind # "none", carves'[j].kind # "none",
                      carves'[i].len > 0, carves'[j].len > 0
               PROVE  End(i)' <= carves'[j].offset \/ End(j)' <= carves'[i].offset
    BY DEF Disjoint, Held
  <2>1. ASSUME NEW k \in Ids, k # id, carves[k].kind # "none"
        PROVE  End(k)' <= c.offset
    BY <2>1, <1>1, <1>5, <1>6, <1>8 DEF End, Carves
  <2>2. CASE i = id
    BY <2>1, <2>2, <1>5
  <2>3. CASE j = id
    BY <2>1, <2>3, <1>5
  <2>4. CASE i # id /\ j # id
    BY <2>4, <1>5 DEF Disjoint, Held, End
  <2>5. QED
    BY <2>2, <2>3, <2>4
<1>11. QED
  BY <1>7, <1>9, <1>10

(* A rewind to a position above which no live carve ends, whatever carve   *)
(* it takes back.                                                          *)
LEMMA RewindKeepsIInv ==
  ASSUME IInv, NEW position \in 0 .. Total, NEW spent \in SUBSET Ids,
         Contract = "ends", Ended(position, spent), Rewind(position),
         carves' = [id \in Ids |-> IF id \in spent THEN NoCarve ELSE carves[id]],
         marks' = marks
  PROVE  IInv'
<1>1. TypeOK' /\ StorageIsTheRest'
  <2>1. NoCarve \in Carves
    BY DEF NoCarve, Carves
  <2>2. QED
    BY <2>1, RegionAssumption DEF Rewind, IInv, TypeOK, StorageIsTheRest
<1>2. HeldBelowCursor'
  BY DEF HeldBelowCursor, Held, End, Ended, Rewind, NoCarve
<1>3. Disjoint'
  BY DEF IInv, Disjoint, Held, End, NoCarve
<1>4. QED
  BY <1>1, <1>2, <1>3 DEF IInv

(* Every step preserves the invariant.                                     *)
LEMMA NextKeepsIInv ==
  ASSUME Contract = "ends"
  PROVE  IInv /\ [Next]_vars => IInv'
<1> SUFFICES ASSUME IInv, [Next]_vars PROVE IInv'
  OBVIOUS
<1>a. carves = [id \in Ids |-> IF id \in {} THEN NoCarve ELSE carves[id]]
  BY DEF IInv, TypeOK
<1>b. NoCarve \in Carves
  BY DEF NoCarve, Carves
<1>1. ASSUME NEW id \in Ids, NEW req \in Requests, CarveApply(id, req) PROVE IInv'
  BY <1>1, CarveApplyKeepsIInv
<1>2. ASSUME NEW id \in Ids, DropCarve(id) PROVE IInv'
  <2>1. TypeOK' /\ StorageIsTheRest'
    BY <1>2, <1>b DEF DropCarve, IInv, TypeOK, StorageIsTheRest
  <2>2. HeldBelowCursor' /\ Disjoint'
    BY <1>2 DEF DropCarve, IInv, TypeOK, HeldBelowCursor, Disjoint, Held, End, NoCarve
  <2>3. QED
    BY <2>1, <2>2 DEF IInv
<1>3. ASSUME NEW id \in Ids, Reuse(id) PROVE IInv'
  <2>1. PICK position \in ReuseTarget(carves[id]) :
          /\ Ended(position, {id}) /\ Rewind(position)
          /\ carves' = [carves EXCEPT ![id] = NoCarve] /\ marks' = marks
    BY <1>3 DEF Reuse
  <2>2. position \in 0 .. Total
    BY RegionAssumption
       DEF ReuseTarget, MarkedTarget, IInv, TypeOK, Carves
  <2>3. carves' = [i \in Ids |-> IF i \in {id} THEN NoCarve ELSE carves[i]]
    BY <2>1 DEF IInv, TypeOK
  <2>4. {id} \in SUBSET Ids
    OBVIOUS
  <2>5. QED
    BY <2>1, <2>2, <2>3, <2>4, RewindKeepsIInv
<1>4. ASSUME NEW m \in marks, Release(m) PROVE IInv'
  <2>1. Ended(m, {}) /\ Rewind(m) /\ carves' = carves /\ marks' = marks /\ m \in 0 .. Total
    BY <1>4 DEF Release, IInv, TypeOK
  <2>2. QED
    BY <2>1, <1>a, RewindKeepsIInv
<1>5. CASE Reset
  <2>1. Ended(0, {}) /\ Rewind(0) /\ carves' = carves /\ marks' = marks /\ 0 \in 0 .. Total
    BY <1>5, RegionAssumption DEF Reset
  <2>2. QED
    BY <2>1, <1>a, RewindKeepsIInv
<1>6. ASSUME NEW m \in marks, ForgetMark(m) PROVE IInv'
  BY <1>6 DEF ForgetMark, IInv, TypeOK, StorageIsTheRest, HeldBelowCursor, Disjoint, Held, End
<1>7. CASE Mark
  BY <1>7 DEF Mark, IInv, TypeOK, StorageIsTheRest, HeldBelowCursor, Disjoint, Held, End
<1>8. CASE UNCHANGED vars
  BY <1>8 DEF vars, IInv, TypeOK, StorageIsTheRest, HeldBelowCursor, Disjoint, Held, End
<1>9. QED
  BY <1>1, <1>2, <1>3, <1>4, <1>5, <1>6, <1>7, <1>8 DEF Next
(* The invariant holds in every reachable state. *)
LEMMA Invariance ==
  ASSUME Contract = "ends"
  PROVE  Spec => []IInv
<1>1. Init => IInv
  BY InitEstablishesIInv
<1>2. IInv /\ [Next]_vars => IInv'
  BY NextKeepsIInv
<1>3. QED
  BY <1>1, <1>2, PTL DEF Spec

-----------------------------------------------------------------------------

(* The arena's counters stay inside the region. *)
THEOREM TypeCorrect ==
  ASSUME Contract = "ends"
  PROVE  Spec => []TypeOK
<1>1. IInv => TypeOK
  BY DEF IInv
<1>2. QED
  BY <1>1, Invariance, PTL

(* The cursor and the storage slice never disagree on what is free, though *)
(* every operation updates them from different quantities.                 *)
THEOREM CursorMatchesStorage ==
  ASSUME Contract = "ends"
  PROVE  Spec => []StorageIsTheRest
<1>1. IInv => StorageIsTheRest
  BY DEF IInv
<1>2. QED
  BY <1>1, Invariance, PTL

(* No byte the caller holds is ever at or above the cursor. *)
THEOREM NothingHeldAboveCursor ==
  ASSUME Contract = "ends"
  PROVE  Spec => []HeldBelowCursor
<1>1. IInv => HeldBelowCursor
  BY DEF IInv
<1>2. QED
  BY <1>1, Invariance, PTL

(* Two live carves never share a byte. *)
THEOREM LiveCarvesAreDisjoint ==
  ASSUME Contract = "ends"
  PROVE  Spec => []Disjoint
<1>1. IInv => Disjoint
  BY DEF IInv
<1>2. QED
  BY <1>1, Invariance, PTL

(* reuse, release and reset never move the cursor forwards: each names a   *)
(* position and is refused when that lies above the cursor.                *)
THEOREM RewindsOnlyGoBack ==
  ASSUME Contract = "ends"
  PROVE  Spec => RewindsNeverAdvance
<1> DEFINE NothingNew == \A id \in Ids : carves'[id] \in {carves[id], NoCarve}
<1>1. IInv /\ [Next]_vars => [NothingNew => cursor' <= cursor]_vars
  <2> SUFFICES ASSUME IInv, Next, NothingNew PROVE cursor' <= cursor
    BY DEF vars
  <2>1. ASSUME NEW id \in Ids, NEW req \in Requests, CarveApply(id, req) PROVE FALSE
    <3>1. carves'[id].kind = req.kind
      BY <2>1 DEF CarveApply, Advance, IInv, TypeOK
    <3>2. carves'[id].kind = "none"
      BY <2>1 DEF CarveApply, Held, NoCarve
    <3>3. QED
      BY <3>1, <3>2, RequestsAssumption DEF Kinds, SplitKinds, ReuseKinds
  <2>2. ASSUME NEW id \in Ids, Reuse(id) PROVE cursor' <= cursor
    BY <2>2, RegionAssumption DEF Reuse, ReuseTarget, MarkedTarget, Rewind, IInv, TypeOK
  <2>3. ASSUME NEW m \in marks, Release(m) PROVE cursor' <= cursor
    BY <2>3 DEF Release, Rewind
  <2>4. CASE Reset
    BY <2>4, RegionAssumption DEF Reset, Rewind, IInv, TypeOK
  <2>5. ASSUME cursor' = cursor PROVE cursor' <= cursor
    BY <2>5, RegionAssumption DEF IInv, TypeOK
  <2>6. QED
    BY <2>1, <2>2, <2>3, <2>4, <2>5 DEF Next, DropCarve, ForgetMark, Mark
<1>2. QED
  BY <1>1, Invariance, PTL DEF Spec, RewindsNeverAdvance

(* A carve starts on the boundary it asked for, whatever the address of    *)
(* the region and wherever the cursor was.                                 *)
THEOREM CarvesStartAligned ==
  ASSUME Contract = "ends"
  PROVE  Spec => []StartsAligned
<1>1. Init => StartsAligned
  BY DEF Init, StartsAligned, NoCarve
<1>2. IInv /\ StartsAligned /\ [Next]_vars => StartsAligned'
  <2> SUFFICES ASSUME IInv, StartsAligned, [Next]_vars PROVE StartsAligned'
    OBVIOUS
  <2>0. /\ carves \in [Ids -> Carves] /\ cursor \in Nat /\ remaining \in Nat
        /\ Base \in Nat
    BY RegionAssumption DEF IInv, TypeOK
  <2>1. ASSUME NEW id \in Ids, NEW req \in Requests, CarveApply(id, req)
        PROVE  StartsAligned'
    <3>1. PICK span \in CheckSplit(req, remaining, Base + cursor) : Advance(id, req, span)
      BY <2>1 DEF CarveApply
    <3>2. req \in Request
      BY RequestsAssumption DEF Request
    <3>3. PICK up \in AlignUp(Base + cursor, req.align) :
            span = [prefix |-> up - (Base + cursor),
                    start |-> SpanStart(req, remaining - (up - (Base + cursor))),
                    len |-> SpanLen(req)]
      BY DEF CheckSplit
    <3>4. up \in Nat /\ IsAligned(up, req.align)
      BY <2>0, AlignUpBounds, AlignUpAligns
    <3>5. /\ carves'[id].kind = req.kind /\ carves'[id].align = req.align
          /\ carves'[id].offset = cursor + span.prefix + span.start
          /\ \A i \in Ids : i # id => carves'[i] = carves[i]
      BY <3>1, <2>0 DEF Advance
    <3>6. CASE req.kind \in {"tail", "middle"}
      BY <3>5, <3>6 DEF StartsAligned
    <3>7. CASE req.kind \notin {"tail", "middle"}
      <4>1. span.start = 0 /\ span.prefix = up - (Base + cursor)
        BY <3>3, <3>7 DEF SpanStart
      <4>2. Base + carves'[id].offset = up
        BY <4>1, <3>4, <3>5, <2>0
      <4>3. QED
        BY <4>2, <3>4, <3>5 DEF StartsAligned
    <3>8. QED
      BY <3>6, <3>7
  <2>2. ASSUME NEW id \in Ids, carves' = [carves EXCEPT ![id] = NoCarve]
        PROVE  StartsAligned'
    BY <2>2, <2>0 DEF StartsAligned, NoCarve
  <2>3. ASSUME carves' = carves PROVE StartsAligned'
    BY <2>3 DEF StartsAligned
  <2>4. QED
    BY <2>1, <2>2, <2>3
       DEF Next, DropCarve, Reuse, Release, ForgetMark, Mark, Reset, vars
<1>3. QED
  BY <1>1, <1>2, Invariance, PTL DEF Spec

(* The arena implements the exclusive lending that Loans specifies: a      *)
(* carve lends its bytes, the end of one or a reuse that spends it gives   *)
(* them back, everything else is invisible.                                *)
THEOREM ImplementsLoans ==
  ASSUME Contract = "ends"
  PROVE  Spec => LendsExclusively
<1> DEFINE L == [id \in Ids |-> BytesOf(carves[id])]
<1>1. Init => Lent!Init
  BY DEF Init, Lent!Init, BytesOf, NoCarve
<1>2. IInv /\ IInv' /\ [Next]_vars => [Lent!Next]_L
  <2> SUFFICES ASSUME IInv, IInv', [Next]_vars PROVE Lent!Next \/ L' = L
    OBVIOUS
  <2>0. carves \in [Ids -> Carves] /\ carves' \in [Ids -> Carves]
        /\ cursor' \in 0 .. Total /\ Total \in Nat
    BY RegionAssumption DEF IInv, TypeOK
  <2>1. ASSUME NEW id \in Ids, NEW req \in Requests, CarveApply(id, req)
        PROVE  Lent!Lend(id)
    <3>1. carves' = [carves EXCEPT ![id] = carves'[id]] /\ ~Held(id)
      BY <2>1, <2>0 DEF CarveApply, Advance
    <3>2. L' = [L EXCEPT ![id] = L'[id]] /\ L[id] = {}
      BY <3>1, <2>0 DEF BytesOf, Held
    <3>3. ASSUME NEW i \in Ids PROVE BytesOf(carves'[i]) \subseteq 0 .. Total - 1
      <4>1. carves'[i] \in Carves
        BY <2>0
      <4>2. CASE carves'[i].kind = "none"
        BY <4>2 DEF BytesOf
      <4>3. CASE carves'[i].kind # "none"
        <5>1. carves'[i].offset + carves'[i].len <= cursor'
          BY <4>3 DEF IInv, HeldBelowCursor, Held, End
        <5>2. QED
          BY <4>1, <4>3, <5>1, <2>0 DEF BytesOf, Carves
      <4>4. QED
        BY <4>2, <4>3
    <3>4. ASSUME NEW i \in Ids PROVE L[i] \cap L'[id] = {}
      <4>1. CASE i = id
        BY <4>1, <3>2
      <4>2. CASE i # id
        <5>1. L[i] = BytesOf(carves'[i]) /\ L'[id] = BytesOf(carves'[id])
          BY <4>2, <3>1, <2>0
        <5>2. carves'[i] \in Carves /\ carves'[id] \in Carves
          BY <2>0
        <5>3. carves'[i].kind # "none" /\ carves'[id].kind # "none"
              /\ carves'[i].len > 0 /\ carves'[id].len > 0
              => \/ carves'[i].offset + carves'[i].len <= carves'[id].offset
                 \/ carves'[id].offset + carves'[id].len <= carves'[i].offset
          BY <4>2 DEF IInv, Disjoint, Held, End
        <5>4. BytesOf(carves'[i]) \cap BytesOf(carves'[id]) = {}
          BY <5>2, <5>3 DEF BytesOf, Carves
        <5>5. QED
          BY <5>1, <5>4
      <4>3. QED
        BY <4>1, <4>2
    <3>5. QED
      BY <3>2, <3>3, <3>4 DEF Lent!Lend
  <2>2. ASSUME NEW id \in Ids, carves' = [carves EXCEPT ![id] = NoCarve]
        PROVE  Lent!GiveBack(id)
    BY <2>2, <2>0 DEF Lent!GiveBack, BytesOf, NoCarve
  <2>3. ASSUME carves' = carves PROVE L' = L
    BY <2>3
  <2>4. QED
    BY <2>1, <2>2, <2>3
       DEF Next, Lent!Next, DropCarve, Reuse, Release, ForgetMark, Mark, Reset, vars
<1>3. QED
  <2>1. Spec => []IInv
    BY Invariance
  <2>2. QED
    BY <1>1, <1>2, <2>1, PTL DEF Spec, LendsExclusively, Lent!Spec
=============================================================================
