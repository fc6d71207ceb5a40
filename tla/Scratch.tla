------------------------------ MODULE Scratch ------------------------------
(***************************************************************************)
(* nnn-base/src/scratch/arena.rs: one region supplied by the caller and a  *)
(* cursor.  carve_apply hands out bytes at the cursor and moves it         *)
(* forwards; reuse, release and reset rewind it and rebuild `storage` from *)
(* the base pointer.                                                       *)
(*                                                                         *)
(* A Carve is bound to the storage, not to the arena, so nothing stops the *)
(* program from holding one across a rewind: every rewind is `unsafe`, and *)
(* its safety contract is the caller's guard here.  What the caller still  *)
(* holds is the variable `carves`; what that contract has to say is the    *)
(* constant Contract.                                                      *)
(*                                                                         *)
(* A refused call returns a CarveError and changes nothing: it stutters.   *)
(***************************************************************************)
EXTENDS Carving, FiniteSets

CONSTANTS
  Base,       (* the address of the region                                 *)
  Total,      (* its length                                                *)
  Word,       (* size_of::<usize>(), the alignment of a rewind request     *)
  Ids,        (* names for the carves the caller can hold at once          *)
  Requests,   (* the requests the caller makes                             *)
  MaxMarks,   (* bound: the marks the caller keeps                         *)
  Contract    (* what the caller ensures before a rewind: "ends", no live  *)
              (* carve ends above the new cursor; "starts", none starts at *)
              (* or above it                                               *)

ASSUME RegionAssumption == Base \in Nat /\ Total \in Nat /\ Base + Total \in Usize
ASSUME WordAssumption == Word \in Alignments
ASSUME RequestsAssumption ==
  Requests \subseteq [kind : Kinds, at : Nat, len : Nat, bytes : Nat, align : Nat]
ASSUME ContractAssumption == Contract \in {"ends", "starts"}

VARIABLES
  cursor,      (* where the next carve may start, relative to Base         *)
  remaining,   (* storage.len()                                            *)
  carves,      (* the carves the caller holds                              *)
  marks        (* the positions of the ScratchMarks it holds               *)

vars == <<cursor, remaining, carves, marks>>

Carves == [kind : Kinds \cup {"none"}, at : Nat, align : Nat, offset : Nat, len : Nat]

(* In the place of a carve: the caller holds nothing under that name, or   *)
(* a Released carve, whose data is empty.                                  *)
NoCarve == [kind |-> "none", at |-> 0, align |-> 1, offset |-> 0, len |-> 0]

Held(id) == carves[id].kind # "none"

End(id) == carves[id].offset + carves[id].len

-----------------------------------------------------------------------------
(* Forwarding. *)

Init ==
  /\ cursor = 0
  /\ remaining = Total
  /\ carves = [id \in Ids |-> NoCarve]
  /\ marks = {}

(* Mutant of Advance: storage is what follows the carve, the cursor counts *)
(* its bytes but not the ones skipped before it.                           *)
AdvanceByLen(id, req, span) ==
  /\ cursor' = cursor + span.len
  /\ remaining' = remaining - SpanEnd(span)
  /\ carves' = [carves EXCEPT ![id] =
       [kind |-> req.kind, at |-> req.at, align |-> req.align,
        offset |-> cursor + span.prefix + span.start, len |-> span.len]]

(* carve_span, then `req.offset += self.cursor`: the carve is moved from   *)
(* the region to the caller's name id, and storage becomes `rest.after`.   *)
Advance(id, req, span) ==
  /\ carves' = [carves EXCEPT ![id] =
       [kind |-> req.kind, at |-> req.at, align |-> req.align,
        offset |-> cursor + span.prefix + span.start, len |-> span.len]]
  /\ cursor' = cursor + SpanEnd(span)
  /\ remaining' = remaining - SpanEnd(span)

(* carve_apply, and through it carve_bytes, carve_align and carve: they    *)
(* only build the request.                                                 *)
CarveApply(id, req) ==
  /\ ~Held(id)
  /\ \E span \in CheckSplit(req, remaining, Base + cursor) : Advance(id, req, span)
  /\ UNCHANGED marks

(* The lifetime of a carve ends; the arena does not hear of it.            *)
DropCarve(id) ==
  /\ Held(id)
  /\ carves' = [carves EXCEPT ![id] = NoCarve]
  /\ UNCHANGED <<cursor, remaining, marks>>

-----------------------------------------------------------------------------
(* Reclaiming. *)

(* The safety contract of a rewind to `position`, for the carves other     *)
(* than those of `spent`, which the call itself takes back.                *)
Ended(position, spent) ==
  \A id \in Ids \ spent :
    Held(id) => IF Contract = "ends" THEN End(id) <= position
                                     ELSE carves[id].offset < position

(* rebuild: storage is everything from the new cursor on.                  *)
Rewind(position) ==
  /\ cursor' = position
  /\ remaining' = Total - position

(* The position a rewind request names, if reuse accepts it.               *)
MarkedTarget(c) == IF c.at # 0 /\ c.at <= cursor THEN {c.at} ELSE {}

(* Mutant of ReuseTarget: Marked is not held against the cursor.           *)
ReuseTargetUnchecked(c) ==
  CASE c.kind = "marked" -> {c.at}
    [] c.kind = "last" -> IF c.offset <= cursor THEN {c.offset} ELSE {}
    [] c.kind = "reset" -> {0}
    [] OTHER -> {}

ReuseTarget(c) ==
  CASE c.kind = "marked" -> MarkedTarget(c)
    [] c.kind = "last" -> IF c.offset <= cursor THEN {c.offset} ELSE {}
    [] c.kind = "reset" -> {0}
    [] OTHER -> {}

(* The request is spent: its data becomes empty and its state Released.    *)
Reuse(id) ==
  \E position \in ReuseTarget(carves[id]) :
    /\ Ended(position, {id})
    /\ Rewind(position)
    /\ carves' = [carves EXCEPT ![id] = NoCarve]
    /\ UNCHANGED marks

(* mark: a mark is Copy, so it stays usable after a release.               *)
Mark ==
  /\ Cardinality(marks \cup {cursor}) <= MaxMarks
  /\ marks' = marks \cup {cursor}
  /\ UNCHANGED <<cursor, remaining, carves>>

ForgetMark(m) ==
  /\ marks' = marks \ {m}
  /\ UNCHANGED <<cursor, remaining, carves>>

Release(m) ==
  /\ m <= cursor
  /\ Ended(m, {})
  /\ Rewind(m)
  /\ UNCHANGED <<carves, marks>>

Reset ==
  /\ Ended(0, {})
  /\ Rewind(0)
  /\ UNCHANGED <<carves, marks>>

Next ==
  \/ \E id \in Ids, req \in Requests : CarveApply(id, req)
  \/ \E id \in Ids : DropCarve(id) \/ Reuse(id)
  \/ \E m \in marks : ForgetMark(m) \/ Release(m)
  \/ Mark
  \/ Reset

Spec == Init /\ [][Next]_vars

-----------------------------------------------------------------------------
(* Properties. *)

TypeOK ==
  /\ cursor \in 0 .. Total
  /\ remaining \in 0 .. Total
  /\ carves \in [Ids -> Carves]
  /\ marks \subseteq 0 .. Total

(* The two records of the free part of the region agree: storage begins at *)
(* the cursor and reaches the end of the region.  carve_apply updates them *)
(* from different quantities (the length and offset of the carve; what     *)
(* carve_span left over), the rewinds through the base pointer.            *)
StorageIsTheRest == cursor + remaining = Total

(* Every byte the caller still holds lies below the cursor, so the next    *)
(* carve cannot reach it, however the cursor got where it is.              *)
HeldBelowCursor == \A id \in Ids : Held(id) => End(id) <= cursor

(* No two live carves share a byte.                                        *)
Disjoint ==
  \A i, j \in Ids : i # j /\ Held(i) /\ Held(j) /\ carves[i].len > 0 /\ carves[j].len > 0
    => End(i) <= carves[j].offset \/ End(j) <= carves[i].offset

(* A carve begins on the boundary it asked for, wherever the region and    *)
(* the cursor happen to be, unless it is split out from further inside.    *)
StartsAligned ==
  \A id \in Ids : carves[id].kind \notin {"none", "tail", "middle"}
    => IsAligned(Base + carves[id].offset, carves[id].align)

(* Only handing out a carve moves the cursor forwards.  A rewind, whatever *)
(* request, mark or stale position it is given, never does: it would claim *)
(* bytes as used that nobody was ever given.                               *)
RewindsNeverAdvance ==
  [][(\A id \in Ids : carves'[id] \in {carves[id], NoCarve}) => cursor' <= cursor]_vars

(* The arena lends each byte exclusively: the abstract specification.      *)
BytesOf(c) == IF c.kind = "none" THEN {} ELSE c.offset .. c.offset + c.len - 1

Lent == INSTANCE Loans WITH
  Bytes <- 0 .. Total - 1,
  Borrowers <- Ids,
  loans <- [id \in Ids |-> BytesOf(carves[id])]

LendsExclusively == Lent!Spec
=============================================================================
