------------------------------ MODULE MCRadeon ------------------------------
(* Small instance of Radeon: pages of 4 bytes, sizes of up to 3 in packed  *)
(* fields, two render nodes; slices exactly as long as needed or one byte  *)
(* short, rows closer than they are long, sizes that do not fit the words, *)
(* and self-test buffers longer than the gap between their addresses.      *)
EXTENDS Radeon

MCShape(b, st, i, o, short) ==
  LET s == [batch |-> b, stride |-> st, in |-> i, out |-> o, elem |-> 2,
            src |-> 0, dst |-> 0, weights |-> i * o * 2, activation |-> 0]
  IN [s EXCEPT !.src = IF b = 0 THEN 0 ELSE SrcBytes(s),
               !.dst = IF b = 0 THEN 0 ELSE DstBytes(s) - short]

MCGemm(b, i, o, short) ==
  LET s == MCShape(b, Larger(i, o), i, o, 0)
  IN [s EXCEPT !.src = b * i * 2, !.dst = b * o * 2 - short]

MCSelfTest(bytes) == [MCShape(1, 1, 1, 1, 0) EXCEPT !.src = bytes]

MCCalls ==
  [op : {"matmul"},
   shape : { MCShape(b, st, i, o, short) :
               b \in 0 .. 2, st \in {0, 1, 2}, i \in {1, 2, 4}, o \in {1, 2}, short \in {0} }
           \cup { MCShape(2, 2, 1, 2, 1), MCShape(1, 4, 1, 1, 0) }]
  \cup [op : {"gemm"},
        shape : { MCGemm(b, i, o, 0) : b \in {1, 2}, i \in {1, 2}, o \in {1, 2} }
                \cup { MCGemm(2, 1, 2, 1) }]
  \cup [op : {"scale", "gem"}, shape : { MCSelfTest(n) : n \in {4, 9} }]
  \cup [op : {"probe"}, shape : { MCSelfTest(4) }]
=============================================================================
