----------------------------- MODULE SlotArena -----------------------------
(***************************************************************************)
(* nnn-base/src/scratch/slot.rs: an arena of `slot_count` blocks of        *)
(* `slot_size` bytes, occupied in order and accounted for by three `Cell`  *)
(* counters.  `acquire` and `carve_handle` take `&self` and a `Carve`      *)
(* keeps that shared borrow while it lives; `release` and `get_mut` take   *)
(* `&mut self`.  The borrow checker is modelled by the guards Shared and   *)
(* Exclusive: those are the only calls a program that compiles can make.   *)
(*                                                                         *)
(* A refused call returns a `CarveError` (or None) and changes nothing: it *)
(* is a stuttering step.                                                   *)
(***************************************************************************)
EXTENDS Integers

CONSTANTS
  SlotCount,   (* storage.len() / slot_size                                *)
  SlotSize,    (* bytes per slot                                           *)
  Carves       (* names for the Carve values the caller can hold at once   *)

ASSUME SlotCountAssumption == SlotCount \in Nat
ASSUME SlotSizeAssumption == SlotSize \in Nat \ {0}

Slots == 0 .. SlotCount - 1

(* The name under which the caller holds the borrow get_mut returned. *)
Reborrow == "get_mut"

ASSUME ReborrowAssumption == Reborrow \notin Carves

(* In the place of a slot: the caller holds nothing under that name. *)
NoSlot == -1

VARIABLES
  used,      (* slots [0, used) have been handed out by acquire            *)
  live_lo,   (* the live range is [live_lo, live_hi)                       *)
  live_hi,
  carves,    (* the slot each Carve the caller still holds names           *)
  excl,      (* the slot lent by get_mut, while that borrow lasts          *)
  carved     (* history: the slots carved and not released since           *)

vars == <<used, live_lo, live_hi, carves, excl, carved>>

(* Handles are Copy and their fields are public: the caller can keep a     *)
(* handle past a release, or build one whose offset matches no slot.       *)
Handles == [index : 0 .. SlotCount, offset : {i * SlotSize : i \in 0 .. SlotCount}]

-----------------------------------------------------------------------------
(* Checks. *)

Validate(h) == h.index \in Slots /\ h.offset = h.index * SlotSize

IsLive(i) == live_lo <= i /\ i < live_hi

(* Mutant of CanCarve: the slot's liveness is not checked. *)
CanCarveLive(h, u) == Validate(h) /\ h.index + 1 = u

(* can_carve, with the value of the `used` cell it reads. *)
CanCarve(h, u) == Validate(h) /\ h.index + 1 = u /\ ~IsLive(h.index)

(* Mutant of CanRelease: any live slot may be released, not only the top. *)
CanReleaseAny(h) == Validate(h) /\ IsLive(h.index)

CanRelease(h) == Validate(h) /\ IsLive(h.index) /\ h.index + 1 = live_hi

(* A `&self` call compiles while no `&mut` borrow of the arena is alive,   *)
(* a `&mut self` call while no borrow of it is alive at all.               *)
Shared == excl = NoSlot

Exclusive == Shared /\ \A c \in Carves : carves[c] = NoSlot

-----------------------------------------------------------------------------
(* Operations. *)

Init ==
  /\ used = 0
  /\ live_lo = 0 /\ live_hi = 0
  /\ carves = [c \in Carves |-> NoSlot]
  /\ excl = NoSlot
  /\ carved = {}

Acquire ==
  /\ Shared
  /\ used < SlotCount
  /\ used' = used + 1
  /\ UNCHANGED <<live_lo, live_hi, carves, excl, carved>>

(* Mutant of MarkLive: the bottom of a non-empty range moves too. *)
MarkLiveMovingLow(c, i) ==
  /\ live_lo' = i
  /\ live_hi' = i + 1
  /\ carves' = [carves EXCEPT ![c] = i]
  /\ carved' = carved \cup {i}

(* mark_live, and the Carve handed to the caller under the name c. *)
MarkLive(c, i) ==
  /\ live_lo' = IF live_lo = live_hi THEN i ELSE live_lo
  /\ live_hi' = i + 1
  /\ carves' = [carves EXCEPT ![c] = i]
  /\ carved' = carved \cup {i}

CarveHandle(c, h) ==
  /\ Shared
  /\ carves[c] = NoSlot
  /\ CanCarve(h, used)
  /\ MarkLive(c, h.index)
  /\ UNCHANGED <<used, excl>>

(* acquire, then carve_handle on what it returned; the reservation stays   *)
(* when the second step refuses.                                           *)
CarveSlot(c) ==
  LET h == [index |-> used, offset |-> used * SlotSize] IN
  /\ Shared
  /\ carves[c] = NoSlot
  /\ used < SlotCount
  /\ used' = used + 1
  /\ IF CanCarve(h, used + 1)
       THEN MarkLive(c, used)
       ELSE UNCHANGED <<live_lo, live_hi, carves, carved>>
  /\ UNCHANGED excl

(* The caller's Carve goes out of scope; there is no Drop, so the arena    *)
(* does not hear of it.                                                    *)
DropCarve(c) ==
  /\ carves[c] # NoSlot
  /\ carves' = [carves EXCEPT ![c] = NoSlot]
  /\ UNCHANGED <<used, live_lo, live_hi, excl, carved>>

(* Mutant of GetMut: the live range is not consulted. *)
GetMutLive(h) ==
  /\ Exclusive
  /\ Validate(h)
  /\ excl' = h.index
  /\ UNCHANGED <<used, live_lo, live_hi, carves, carved>>

GetMut(h) ==
  /\ Exclusive
  /\ Validate(h)
  /\ ~IsLive(h.index)
  /\ excl' = h.index
  /\ UNCHANGED <<used, live_lo, live_hi, carves, carved>>

EndGetMut ==
  /\ excl # NoSlot
  /\ excl' = NoSlot
  /\ UNCHANGED <<used, live_lo, live_hi, carves, carved>>

(* unmark_live, then `used` rewound to the released index. *)
Release(h) ==
  /\ Exclusive
  /\ CanRelease(h)
  /\ live_hi' = h.index
  /\ used' = h.index
  /\ carved' = carved \ {h.index}
  /\ UNCHANGED <<live_lo, carves, excl>>

Next ==
  \/ Acquire
  \/ EndGetMut
  \/ \E c \in Carves : CarveSlot(c) \/ DropCarve(c)
  \/ \E h \in Handles : GetMut(h) \/ Release(h)
  \/ \E c \in Carves, h \in Handles : CarveHandle(c, h)

Spec == Init /\ [][Next]_vars

-----------------------------------------------------------------------------
(* Properties. *)

TypeOK ==
  /\ used \in 0 .. SlotCount
  /\ live_lo \in 0 .. SlotCount
  /\ live_hi \in 0 .. SlotCount
  /\ carves \in [Carves -> Slots \cup {NoSlot}]
  /\ excl \in Slots \cup {NoSlot}
  /\ carved \subseteq Slots

(* Two counters stand in for a list of live slots.  They never lose one:   *)
(* every slot carved and not yet released lies inside the live range, so   *)
(* can_carve and get_mut cannot hand it out again after its Carve has gone *)
(* out of scope; and the range never reaches past what acquire gave out.   *)
LiveRangeCoversCarved ==
  /\ live_lo <= live_hi /\ live_hi <= used
  /\ \A s \in carved : IsLive(s)
  /\ live_lo < live_hi => live_lo \in carved

(* Every Carve the caller holds is accounted for as carved, no two of them *)
(* name one slot, and get_mut lends only a slot that no Carve claims, not  *)
(* even one that went out of scope without being released.                 *)
OneBorrowPerSlot ==
  /\ \A c \in Carves : carves[c] # NoSlot => carves[c] \in carved
  /\ \A c, d \in Carves : c # d /\ carves[c] # NoSlot => carves[c] # carves[d]
  /\ excl # NoSlot => excl \notin carved /\ \A c \in Carves : carves[c] = NoSlot

(* Carved slots come back in the reverse of the order of their addresses:  *)
(* none is released while a carved one lies above it.                      *)
ReleasesAreLifo ==
  [][\A s \in carved \ carved' : \A t \in carved : t <= s]_vars

(* What a borrow of slot s holds, in the terms of Loans.                   *)
Held(s) == IF s = NoSlot THEN {} ELSE {s}

Lent == INSTANCE Loans WITH
  Bytes <- Slots,
  Borrowers <- Carves \cup {Reborrow},
  loans <- [b \in Carves \cup {Reborrow} |->
              IF b = Reborrow THEN Held(excl) ELSE Held(carves[b])]

(* Carves and get_mut lend each slot to one borrower at a time: the arena  *)
(* implements the abstract specification, with slots for bytes.            *)
LendsExclusively == Lent!Spec

(* What tests/scratch.rs says of release: a reserved slot that was never   *)
(* carved has nothing to release, so the call is refused.                  *)
ReleasesOnlyCarvedSlots == [][used' < used => used' \in carved]_vars
=============================================================================
