--------------------------- MODULE MCLmlpScratch ---------------------------
(***************************************************************************)
(* A region of eight bytes at an odd address, element types of one and     *)
(* of two bytes, and a five-bit usize: every call can succeed, and every   *)
(* call can be refused at each of its steps.                               *)
(***************************************************************************)
EXTENDS LmlpScratch

MCUsizeMax == 31

MCAlignments == {1, 2, 4, 8, 16}

MCElems == {[size |-> 1, align |-> 1], [size |-> 2, align |-> 2]}

MCLens == {1, 3}

(* The counts of state, input, weights and aux. *)
Plan(state, input, weights, aux) ==
  [i \in 1 .. 8 |-> CASE i = 1 -> state [] i = 2 -> input [] i = 4 -> weights
                      [] i = 8 -> aux [] OTHER -> 0]

MCPlans == {Plan(1, 1, 2, 1), Plan(0, 3, 0, 0), Plan(1, 0, 9, 7)}

MCTables == {<<1, 3>>}
=============================================================================
