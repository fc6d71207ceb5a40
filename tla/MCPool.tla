------------------------------- MODULE MCPool -------------------------------
(***************************************************************************)
(* A table with a hole, out of order, over a region that holds a handful   *)
(* of blocks.                                                              *)
(***************************************************************************)
EXTENDS Pool

MCUsizeMax == 31

MCAlignments == {1, 2, 4, 8, 16}

MCClasses == <<0, 4, 2, 5>>

MCRequired == [bytes : {0, 3, 6}, align : {1}] \cup {[bytes |-> 3, align |-> 2]} \cup {[bytes |-> 1, align |-> 3]}
=============================================================================
