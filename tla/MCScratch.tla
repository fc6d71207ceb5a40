----------------------------- MODULE MCScratch -----------------------------
(***************************************************************************)
(* A small region at an odd address, so that every alignment above 1 costs *)
(* a prefix, and a five-bit usize, so that some requests overflow it.      *)
(***************************************************************************)
EXTENDS Scratch

MCUsizeMax == 31

MCAlignments == {1, 2, 4, 8, 16}

From(bytes, align) == [kind |-> "from", at |-> 0, len |-> 0, bytes |-> bytes, align |-> align]

Split(kind, at, len, bytes, align) ==
  [kind |-> kind, at |-> at, len |-> len, bytes |-> bytes, align |-> align]

(* Carve::reuse with a shape of `count` elements. *)
Rewinding(kind, at, count) ==
  [kind |-> kind, at |-> at, len |-> 0, bytes |-> count, align |-> Word]

MCRequests ==
  { From(0, 1), From(1, 1), From(3, 1), From(2, 2), From(4, 4), From(31, 1), From(1, 3),
    Split("head", 2, 0, 3, 2), Split("tail", 3, 0, 4, 1),
    Split("middle", 1, 2, 4, 4), Split("middle", 3, 3, 5, 1),
    Rewinding("marked", 3, 1), Rewinding("marked", 7, 1),
    Rewinding("last", 0, 1), Rewinding("reset", 0, 2) }
=============================================================================
