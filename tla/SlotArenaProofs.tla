-------------------------- MODULE SlotArenaProofs --------------------------
(***************************************************************************)
(* Proofs about SlotArena, for any number of slots of any size and any     *)
(* number of carves held by the caller.  IInv is the inductive invariant:  *)
(* the counters bound every slot that can still be claimed, and a borrow   *)
(* is always backed by a slot that counts as carved.                       *)
(***************************************************************************)
EXTENDS SlotArena, TLAPS

(* The strengthening of the invariants the runs check. *)
IInv == TypeOK /\ LiveRangeCoversCarved /\ OneBorrowPerSlot

(* No step can disturb what the initial state establishes vacuously. *)
LEMMA InitEstablishesIInv == Init => IInv
  BY SlotCountAssumption
     DEF Init, IInv, TypeOK, LiveRangeCoversCarved, OneBorrowPerSlot, NoSlot, Slots, IsLive

(* The carve itself: a slot just below `used` that is not live lies above  *)
(* a non-empty live range, so extending the range to it loses none.        *)
LEMMA MarkLiveKeepsIInv ==
  ASSUME IInv,
         NEW c \in Carves, NEW i \in Slots, NEW u \in 0 .. SlotCount,
         Shared, carves[c] = NoSlot,
         u \in {used, used + 1}, i + 1 = u, ~IsLive(i),
         MarkLive(c, i), used' = u, excl' = excl
  PROVE  IInv'
<1> USE SlotCountAssumption DEF Slots, NoSlot
<1>1. i \notin carved /\ (live_lo < live_hi => live_hi <= i)
  BY DEF IInv, TypeOK, LiveRangeCoversCarved, IsLive
<1>2. TypeOK'
  BY DEF IInv, TypeOK, MarkLive
<1>3. live_lo' <= live_hi' /\ live_hi' <= used' /\ live_lo' \in carved'
  BY <1>1 DEF IInv, TypeOK, LiveRangeCoversCarved, MarkLive
<1>4. ASSUME NEW s \in carved' PROVE IsLive(s)'
  <2>1. CASE s = i
    BY <1>1, <2>1 DEF IInv, TypeOK, LiveRangeCoversCarved, MarkLive, IsLive
  <2>2. CASE s \in carved
    BY <1>1, <2>2 DEF IInv, TypeOK, LiveRangeCoversCarved, MarkLive, IsLive
  <2>3. QED
    BY <1>4, <2>1, <2>2 DEF MarkLive
<1>5. OneBorrowPerSlot'
  BY <1>1 DEF IInv, TypeOK, OneBorrowPerSlot, MarkLive, Shared
<1>6. QED
  BY <1>2, <1>3, <1>4, <1>5 DEF IInv, LiveRangeCoversCarved

(* Every step preserves the invariant: one case per operation. *)
LEMMA NextKeepsIInv == IInv /\ [Next]_vars => IInv'
<1> SUFFICES ASSUME IInv, [Next]_vars PROVE IInv'
  OBVIOUS
<1> USE SlotCountAssumption DEF Slots, NoSlot
<1>1. CASE Acquire
  BY <1>1 DEF Acquire, IInv, TypeOK, LiveRangeCoversCarved, OneBorrowPerSlot, IsLive
<1>2. CASE EndGetMut
  BY <1>2 DEF EndGetMut, IInv, TypeOK, LiveRangeCoversCarved, OneBorrowPerSlot, IsLive
<1>3. ASSUME NEW c \in Carves, CarveSlot(c) PROVE IInv'
  <2> DEFINE h == [index |-> used, offset |-> used * SlotSize]
  <2>1. /\ Shared /\ carves[c] = NoSlot /\ used < SlotCount
        /\ used' = used + 1 /\ excl' = excl
    BY <1>3 DEF CarveSlot
  <2>2. used \in Slots /\ used + 1 \in 0 .. SlotCount
    BY <2>1 DEF IInv, TypeOK
  <2>3. CASE CanCarve(h, used + 1)
    <3>1. MarkLive(c, used)
      BY <1>3, <2>3 DEF CarveSlot
    <3>2. ~IsLive(used)
      BY <2>3 DEF CanCarve
    <3>3. QED
      BY <2>1, <2>2, <3>1, <3>2, MarkLiveKeepsIInv
  <2>4. CASE ~CanCarve(h, used + 1)
    <3>1. UNCHANGED <<live_lo, live_hi, carves, carved>>
      BY <1>3, <2>4 DEF CarveSlot
    <3>2. QED
      BY <2>1, <2>2, <3>1
         DEF IInv, TypeOK, LiveRangeCoversCarved, OneBorrowPerSlot, IsLive
  <2>5. QED
    BY <2>3, <2>4
<1>4. ASSUME NEW c \in Carves, DropCarve(c) PROVE IInv'
  BY <1>4 DEF DropCarve, IInv, TypeOK, LiveRangeCoversCarved, OneBorrowPerSlot, IsLive
<1>5. ASSUME NEW h \in Handles, GetMut(h) PROVE IInv'
  BY <1>5 DEF GetMut, Exclusive, Shared, Validate, IInv, TypeOK,
              LiveRangeCoversCarved, OneBorrowPerSlot, IsLive
<1>6. ASSUME NEW h \in Handles, Release(h) PROVE IInv'
  <2>1. /\ h.index \in Slots /\ IsLive(h.index) /\ h.index + 1 = live_hi
        /\ live_hi' = h.index /\ used' = h.index /\ carved' = carved \ {h.index}
        /\ UNCHANGED <<live_lo, carves, excl>>
        /\ excl = NoSlot /\ \A c \in Carves : carves[c] = NoSlot
    BY <1>6 DEF Release, CanRelease, Validate, Exclusive, Shared
  <2>2. TypeOK'
    <3>1. h.index \in 0 .. SlotCount
      BY <2>1
    <3>2. QED
      BY <2>1, <3>1 DEF IInv, TypeOK
  <2>3. LiveRangeCoversCarved'
    <3>1. live_lo' <= live_hi' /\ live_hi' <= used'
      BY <2>1 DEF IInv, TypeOK, IsLive
    <3>2. \A s \in carved' : IsLive(s)'
      BY <2>1 DEF IInv, TypeOK, LiveRangeCoversCarved, IsLive
    <3>3. live_lo' < live_hi' => live_lo' \in carved'
      BY <2>1 DEF IInv, TypeOK, LiveRangeCoversCarved, IsLive
    <3>4. QED
      BY <3>1, <3>2, <3>3 DEF LiveRangeCoversCarved
  <2>4. OneBorrowPerSlot'
    BY <2>1 DEF OneBorrowPerSlot
  <2>5. QED
    BY <2>2, <2>3, <2>4 DEF IInv
<1>7. ASSUME NEW c \in Carves, NEW h \in Handles, CarveHandle(c, h) PROVE IInv'
  <2>1. /\ Shared /\ carves[c] = NoSlot /\ UNCHANGED <<used, excl>>
        /\ h.index \in Slots /\ h.index + 1 = used /\ ~IsLive(h.index)
        /\ MarkLive(c, h.index)
    BY <1>7 DEF CarveHandle, CanCarve, Validate
  <2>2. used \in 0 .. SlotCount
    BY DEF IInv, TypeOK
  <2>3. QED
    BY <2>1, <2>2, MarkLiveKeepsIInv
<1>8. CASE UNCHANGED vars
  BY <1>8 DEF vars, IInv, TypeOK, LiveRangeCoversCarved, OneBorrowPerSlot, IsLive
<1>9. QED
  BY <1>1, <1>2, <1>3, <1>4, <1>5, <1>6, <1>7, <1>8 DEF Next

(* The invariant holds in every reachable state. *)
LEMMA Invariance == Spec => []IInv
<1>1. QED
  BY InitEstablishesIInv, NextKeepsIInv, PTL DEF Spec

(* The counters and the caller's names stay in range. *)
THEOREM TypeCorrect == Spec => []TypeOK
<1>1. IInv => TypeOK
  BY DEF IInv
<1>2. QED
  BY <1>1, Invariance, PTL

(* The two counters cover every carved slot. *)
THEOREM LiveRangeIsSound == Spec => []LiveRangeCoversCarved
<1>1. IInv => LiveRangeCoversCarved
  BY DEF IInv
<1>2. QED
  BY <1>1, Invariance, PTL

(* At most one borrow of a slot is alive, whoever asks for it. *)
THEOREM BorrowsAreExclusive == Spec => []OneBorrowPerSlot
<1>1. IInv => OneBorrowPerSlot
  BY DEF IInv
<1>2. QED
  BY <1>1, Invariance, PTL

(* Carved slots are released in the reverse of the order of addresses. *)
THEOREM LifoRelease == Spec => ReleasesAreLifo
<1> DEFINE Lifo == \A s \in carved \ carved' : \A t \in carved : t <= s
<1>1. IInv /\ [Next]_vars => [Lifo]_vars
  <2> SUFFICES ASSUME IInv, [Next]_vars, NEW s \in carved \ carved', NEW t \in carved
               PROVE t <= s
    OBVIOUS
  <2>1. PICK h \in Handles : Release(h)
    BY DEF Next, vars, Acquire, EndGetMut, CarveSlot, DropCarve, GetMut, CarveHandle, MarkLive
  <2>2. s = h.index /\ h.index + 1 = live_hi
    BY <2>1 DEF Release, CanRelease
  <2>3. t < live_hi /\ live_hi \in Int /\ t \in Int /\ s \in Int
    BY SlotCountAssumption DEF IInv, TypeOK, LiveRangeCoversCarved, IsLive, Slots
  <2>4. QED
    BY <2>2, <2>3
<1>2. QED
  BY <1>1, Invariance, PTL DEF Spec, ReleasesAreLifo

(* SlotArena implements the exclusive lending that Loans specifies.  A     *)
(* carve and a get_mut lend one slot; the end of a borrow gives it back;   *)
(* acquire and release lend nothing and stutter.                           *)
THEOREM ImplementsLoans == Spec => LendsExclusively
<1> USE ReborrowAssumption
<1> DEFINE B == Carves \cup {Reborrow}
           L == [b \in B |-> IF b = Reborrow THEN Held(excl) ELSE Held(carves[b])]
<1>1. Init => Lent!Init
  BY DEF Init, Lent!Init, Held
<1>2. IInv /\ [Next]_vars => [Lent!Next]_L
  <2> SUFFICES ASSUME IInv, [Next]_vars PROVE Lent!Next \/ L' = L
    OBVIOUS
  <2>1. ASSUME NEW c \in Carves, NEW i \in Slots, carves[c] = NoSlot, Shared,
               i \notin carved, carves' = [carves EXCEPT ![c] = i], excl' = excl
        PROVE  Lent!Lend(c)
    <3>0. c # Reborrow /\ i # NoSlot /\ i \in Int /\ NoSlot \in Int
      BY SlotCountAssumption DEF Slots, NoSlot
    <3>1. L' = [L EXCEPT ![c] = {i}] /\ L[c] = {} /\ L'[c] = {i}
      <4>1. \A b \in B : L'[b] = IF b = c THEN {i} ELSE L[b]
        BY <2>1, <3>0, Zenon DEF Held, IInv, TypeOK
      <4>2. L[c] = {}
        BY <2>1, <3>0 DEF Held
      <4>3. QED
        BY <4>1, <4>2
    <3>2. \A d \in B : i \notin L[d]
      BY <2>1 DEF Held, IInv, TypeOK, OneBorrowPerSlot, Shared
    <3>3. QED
      BY <3>1, <3>2 DEF Lent!Lend
  <2>2. ASSUME Acquire PROVE L' = L
    BY <2>2 DEF Acquire
  <2>3. ASSUME EndGetMut PROVE Lent!GiveBack(Reborrow)
    BY <2>3 DEF EndGetMut, Lent!GiveBack, Held
  <2>4. ASSUME NEW c \in Carves, CarveSlot(c) PROVE Lent!Lend(c) \/ L' = L
    <3> DEFINE h == [index |-> used, offset |-> used * SlotSize]
    <3>1. /\ carves[c] = NoSlot /\ Shared /\ used < SlotCount /\ excl' = excl
          /\ used \in Slots /\ used \notin carved
      BY <2>4, SlotCountAssumption
         DEF CarveSlot, IInv, TypeOK, LiveRangeCoversCarved, IsLive, Slots
    <3>2. CASE CanCarve(h, used + 1)
      <4>1. carves' = [carves EXCEPT ![c] = used]
        BY <2>4, <3>2 DEF CarveSlot, MarkLive
      <4>2. QED
        BY <2>1, <3>1, <4>1
    <3>3. CASE ~CanCarve(h, used + 1)
      BY <2>4, <3>3 DEF CarveSlot
    <3>4. QED
      BY <3>2, <3>3
  <2>5. ASSUME NEW c \in Carves, DropCarve(c) PROVE Lent!GiveBack(c)
    BY <2>5 DEF DropCarve, Lent!GiveBack, Held, IInv, TypeOK
  <2>6. ASSUME NEW h \in Handles, GetMut(h) PROVE Lent!Lend(Reborrow)
    <3>0. h.index # NoSlot /\ excl' = h.index /\ carves' = carves
      BY <2>6, SlotCountAssumption DEF GetMut, Validate, Slots, NoSlot
    <3>1. L' = [L EXCEPT ![Reborrow] = {h.index}] /\ L'[Reborrow] = {h.index}
      <4>1. \A b \in B : L'[b] = IF b = Reborrow THEN {h.index} ELSE L[b]
        BY <3>0, Zenon DEF Held
      <4>2. QED
        BY <4>1
    <3>2. h.index \in Slots /\ \A d \in B : L[d] = {}
      BY <2>6 DEF GetMut, Exclusive, Shared, Validate, Held
    <3>3. QED
      BY <3>1, <3>2 DEF Lent!Lend
  <2>7. ASSUME NEW h \in Handles, Release(h) PROVE L' = L
    BY <2>7 DEF Release
  <2>8. ASSUME NEW c \in Carves, NEW h \in Handles, CarveHandle(c, h)
        PROVE  Lent!Lend(c)
    <3>1. /\ carves[c] = NoSlot /\ Shared /\ excl' = excl
          /\ h.index \in Slots /\ h.index \notin carved
          /\ carves' = [carves EXCEPT ![c] = h.index]
      BY <2>8 DEF CarveHandle, CanCarve, Validate, MarkLive, IInv, LiveRangeCoversCarved
    <3>2. QED
      BY <2>1, <3>1
  <2>9. CASE UNCHANGED vars
    BY <2>9 DEF vars
  <2>10. QED
    BY <2>2, <2>3, <2>4, <2>5, <2>6, <2>7, <2>8, <2>9 DEF Next, Lent!Next
<1>3. QED
  BY <1>1, <1>2, Invariance, PTL DEF Spec, LendsExclusively, Lent!Spec
=============================================================================
