------------------------------ MODULE Matrices ------------------------------
(***************************************************************************)
(* nnn-base/src/tensor/linalg.rs and decompose.rs: products, triangular    *)
(* systems, LU without pivoting, Cholesky, determinant and inverse of      *)
(* matrices in flat slices, row after row.                                 *)
(*                                                                         *)
(* The elements are rational numbers, so that what is checked is the order *)
(* of the steps, the indices and the tests in between, and not the         *)
(* rounding, which SoftFloat has.                                          *)
(***************************************************************************)
EXTENDS Integers, SequencesExt

CONSTANTS
  Epsilon,       (* one over T::EPSILON                                    *)
  Squares,       (* the square matrices handed in, of whole numbers        *)
  Factors,       (* the lower triangular ones whose products cholesky gets *)
  Flats,         (* the matrices m x n, for products and transposes        *)
  Columns(_)     (* the right-hand sides of n whole numbers                *)

VARIABLES
  call,          (* the operation and its operands                         *)
  answer         (* what it returned, and what it left in the output       *)

matrices == <<call, answer>>

-----------------------------------------------------------------------------
(* Rational numbers, in lowest terms and with a positive denominator. *)

Size(m) == IF m < 0 THEN -m ELSE m
Gcd(m, n) ==
  LET f[k \in 0 .. 16] == IF k = 0 THEN <<m, n>>
                          ELSE LET p == f[k - 1] IN IF p[2] = 0 THEN p ELSE <<p[2], p[1] % p[2]>>
  IN f[16][1]
Rational(m, n) ==
  LET d == Gcd(Size(m), Size(n))
      sign == IF n < 0 THEN -1 ELSE 1
  IN [num |-> sign * (IF m < 0 THEN -(Size(m) \div d) ELSE m \div d), den |-> Size(n) \div d]
Whole(m) == [num |-> m, den |-> 1]
Zero == Whole(0)

Plus(p, q) == Rational(p.num * q.den + q.num * p.den, p.den * q.den)
Minus(p, q) == Rational(p.num * q.den - q.num * p.den, p.den * q.den)
Times(p, q) == Rational(p.num * q.num, p.den * q.den)
Over(p, q) == Rational(p.num * q.den, p.den * q.num)
AtMost(p, q) == p.num * q.den <= q.num * p.den
Absolute(p) == [p EXCEPT !.num = Size(@)]
RootOf(p) == [num |-> CHOOSE r \in 0 .. p.num : r * r = p.num, den |-> CHOOSE r \in 1 .. p.den : r * r = p.den]

(* The element of row i and column j, counted from zero, of a slice whose  *)
(* rows have w elements; the numbers from a to b in their order.           *)
At(a, w, i, j) == a[i * w + j + 1]
Put(a, w, i, j, value) == [a EXCEPT ![i * w + j + 1] = value]
Span(a, b) == [k \in 1 .. b - a + 1 |-> a + k - 1]

-----------------------------------------------------------------------------
(* linalg.rs. *)

MaxAbs(values) == FoldLeft(LAMBDA w, v : IF AtMost(w, Absolute(v)) THEN Absolute(v) ELSE w, Zero, values)
IsNegligible(value, scale) == AtMost(Absolute(value), Over(scale, Whole(Epsilon)))

(* tensor_matmul_2d, whose zeros in a are skipped. *)
Matmul(a, b, m, k, n) ==
  [p \in 1 .. m * n |->
     LET i == (p - 1) \div n
         j == (p - 1) % n
     IN FoldLeft(LAMBDA sum, kk : IF At(a, k, i, kk).num = 0 THEN sum
                                  ELSE Plus(sum, Times(At(a, k, i, kk), At(b, n, kk, j))),
                 Zero, Span(0, k - 1))]

(* Mutant of Transpose: the rows of the result are as long as those of a.  *)
TransposeWidth(a, m, n) ==
  FoldLeft(LAMBDA out, p : [out EXCEPT ![(((p % n) * n + p \div n) % (m * n)) + 1] = a[p + 1]],
           [p \in 1 .. m * n |-> Zero], Span(0, m * n - 1))

(* tensor_transpose_2d. *)
Transpose(a, m, n) ==
  FoldLeft(LAMBDA out, p : [out EXCEPT ![(p % n) * m + (p \div n) + 1] = a[p + 1]],
           [p \in 1 .. m * n |-> Zero], Span(0, m * n - 1))

(* tensor_solve_lower and tensor_solve_upper: row by row, from the top or  *)
(* from the bottom, up to a pivot too small to divide by.  What was solved *)
(* before it is left in x.                                                 *)
SolveRow(t, b, acc, n, i, solved) ==
  LET sum == FoldLeft(LAMBDA v, j : Minus(v, Times(At(t, n, i, j), acc.x[j + 1])), b[i + 1], solved)
  IN IF ~acc.ok THEN acc
     ELSE IF IsNegligible(At(t, n, i, i), MaxAbs(t)) THEN [acc EXCEPT !.ok = FALSE]
     ELSE [acc EXCEPT !.x[i + 1] = Over(sum, At(t, n, i, i))]

SolveLower(l, b, x, n) ==
  FoldLeft(LAMBDA acc, i : SolveRow(l, b, acc, n, i, Span(0, i - 1)), [ok |-> TRUE, x |-> x], Span(0, n - 1))

SolveUpper(u, b, x, n) ==
  FoldLeft(LAMBDA acc, i : SolveRow(u, b, acc, n, i, Span(i + 1, n - 1)), [ok |-> TRUE, x |-> x],
           Reverse(Span(0, n - 1)))

-----------------------------------------------------------------------------
(* decompose.rs. *)

Identity(n) == [p \in 1 .. n * n |-> Whole(IF (p - 1) \div n = (p - 1) % n THEN 1 ELSE 0)]

(* One row of tensor_lu under the pivot of column j.  A pivot too small    *)
(* next to what is left of u is passed over.                               *)
Eliminate(acc, n, j, i) ==
  LET pivot == At(acc.u, n, j, j)
      factor == Over(At(acc.u, n, i, j), pivot)
  IN IF IsNegligible(pivot, MaxAbs(SubSeq(acc.u, j * n + 1, n * n))) THEN acc
     ELSE [l |-> Put(acc.l, n, i, j, factor),
           u |-> FoldLeft(LAMBDA u, k : Put(u, n, i, k, Minus(At(u, n, i, k), Times(factor, At(u, n, j, k)))),
                          acc.u, Span(j, n - 1))]

Lu(a, n) ==
  FoldLeft(LAMBDA acc, j : FoldLeft(LAMBDA row, i : Eliminate(row, n, j, i), acc, Span(j + 1, n - 1)),
           [l |-> Identity(n), u |-> a], Span(0, n - 1))

(* tensor_determinant. *)
Determinant(a, n) ==
  LET u == Lu(a, n).u IN FoldLeft(LAMBDA det, i : Times(det, At(u, n, i, i)), Whole(1), Span(0, n - 1))

(* tensor_inverse: a column at a time, and nothing more after the first    *)
(* that cannot be solved.  The two buffers keep what the last column left. *)
Invert(a, n, out) ==
  LET f == Lu(a, n)
      blank == [i \in 1 .. n |-> Zero]
      column(acc, col) ==
        LET x == SolveLower(f.l, [i \in 1 .. n |-> Whole(IF i = col + 1 THEN 1 ELSE 0)], blank, n)
            y == SolveUpper(f.u, x.x, blank, n)
        IN IF ~acc.ok THEN acc
           ELSE IF ~x.ok \/ ~y.ok THEN [acc EXCEPT !.ok = FALSE]
           ELSE [acc EXCEPT !.out = FoldLeft(LAMBDA o, i : Put(o, n, i, col, y.x[i + 1]), @, Span(0, n - 1))]
  IN FoldLeft(column, [ok |-> TRUE, out |-> out], Span(0, n - 1))

(* One element of tensor_cholesky. *)
CholeskyStep(acc, a, n, i, j) ==
  LET sum == FoldLeft(LAMBDA s, k : Plus(s, Times(At(acc.out, n, i, k), At(acc.out, n, j, k))), Zero, Span(0, j - 1))
      rest == Minus(At(a, n, i, j), sum)
      pivot == At(acc.out, n, j, j)
  IN IF ~acc.ok \/ (IF i = j THEN rest.num <= 0 ELSE IsNegligible(pivot, MaxAbs(a)))
     THEN [acc EXCEPT !.ok = FALSE]
     ELSE [acc EXCEPT !.out = Put(@, n, i, j, IF i = j THEN RootOf(rest) ELSE Over(rest, pivot))]

Cholesky(a, n) ==
  FoldLeft(LAMBDA acc, i : FoldLeft(LAMBDA row, j : CholeskyStep(row, a, n, i, j), acc, Span(0, i)),
           [ok |-> TRUE, out |-> [p \in 1 .. n * n |-> Zero]], Span(0, n - 1))

-----------------------------------------------------------------------------
(* The calls.  What is in the output before the call has a value of its    *)
(* own, so that what is left alone can be told.  A slice that is too short *)
(* is refused before anything is done.                                     *)

Stale == [num |-> 77, den |-> 1]
Rationals(a) == [p \in DOMAIN a |-> Whole(a[p])]
Side(a) == CHOOSE n \in 0 .. 8 : n * n = Len(a)
Unread(n) == [p \in 1 .. n |-> Stale]

MatricesInit == call = [op |-> "none"] /\ answer = [ok |-> FALSE]

Asks(op, operands, result) == call' = [op |-> op] @@ operands /\ answer' = result
Idle == call.op = "none"

(* Each is asked with the side n, and with a side larger by one than the   *)
(* slices have.                                                            *)
Decompose ==
  /\ Idle
  /\ \E a \in Squares, short \in BOOLEAN :
       LET n == Side(a)
           m == Rationals(a)
           fresh == Unread(n * n)
           operands == [a |-> a, short |-> short]
       IN \/ Asks("lu", operands, IF short THEN [ok |-> FALSE] ELSE [ok |-> TRUE] @@ Lu(m, n))
          \/ Asks("determinant", operands,
                  IF short THEN [ok |-> FALSE] ELSE [ok |-> TRUE, value |-> Determinant(m, n)])
          \/ Asks("inverse", operands, IF short THEN [ok |-> FALSE, out |-> fresh] ELSE Invert(m, n, fresh))

Solve ==
  /\ Idle
  /\ \E a \in Squares, short \in BOOLEAN : \E b \in Columns(Side(a)) :
       LET n == Side(a)
           refused == [ok |-> FALSE, x |-> Unread(n)]
           operands == [a |-> a, b |-> b, short |-> short]
       IN \/ Asks("lower", operands,
                  IF short THEN refused ELSE SolveLower(Rationals(a), Rationals(b), Unread(n), n))
          \/ Asks("upper", operands,
                  IF short THEN refused ELSE SolveUpper(Rationals(a), Rationals(b), Unread(n), n))

(* Of the product of a triangular matrix with its transpose, or of one     *)
(* whose last pivot would be negative.                                     *)
Factorise ==
  /\ Idle
  /\ \E b \in Factors, spoilt \in BOOLEAN :
       LET n == Side(b)
           m == Rationals(b)
           gram == Matmul(m, Transpose(m, n, n), n, n, n)
           corner == At(m, n, n - 1, n - 1)
           a == IF spoilt
                THEN Put(gram, n, n - 1, n - 1, Minus(At(gram, n, n - 1, n - 1), Plus(Times(corner, corner), Whole(1))))
                ELSE gram
       IN Asks("cholesky", [a |-> a, b |-> b, spoilt |-> spoilt], Cholesky(a, n))

Multiply ==
  /\ Idle
  /\ \E a \in Flats, b \in Flats :
       /\ a.columns = b.rows
       /\ Asks("product", [a |-> a, b |-> b],
               [ok |-> TRUE,
                out |-> Matmul(Rationals(a.data), Rationals(b.data), a.rows, a.columns, b.columns)])

Flip ==
  /\ Idle
  /\ \E a \in Flats : Asks("transpose", [a |-> a], [ok |-> TRUE, out |-> Transpose(Rationals(a.data), a.rows, a.columns)])

MatricesNext == Decompose \/ Solve \/ Factorise \/ Multiply \/ Flip
=============================================================================
