------------------------- MODULE MatrixProperties -------------------------
(***************************************************************************)
(* What the operations of Matrices promise, in terms of the products and   *)
(* determinants of textbooks.                                              *)
(***************************************************************************)
EXTENDS Matrices, FiniteSetsExt

Sum(n, term(_)) == FoldLeft(LAMBDA s, k : Plus(s, term(k)), Zero, Span(0, n - 1))

(* c is the product of a, of rows of k elements, and b, of rows of n. *)
IsProduct(c, a, b, k, n) ==
  \A p \in DOMAIN c :
    LET i == (p - 1) \div n
        j == (p - 1) % n
    IN c[p] = Sum(k, LAMBDA kk : Times(At(a, k, i, kk), At(b, n, kk, j)))

IsTransposed(c, a, m, n) ==
  Len(c) = m * n /\ \A i \in 0 .. m - 1, j \in 0 .. n - 1 : At(c, m, j, i) = At(a, n, i, j)

(* The determinant of the first m rows and columns, a whole number: the    *)
(* sum over the ways to take one element of each row and column.           *)
Minor(a, n, m) ==
  LET orders == {s \in [1 .. m -> 1 .. m] : \A i, j \in 1 .. m : i # j => s[i] # s[j]}
      inversions(s) == Cardinality({p \in (1 .. m) \X (1 .. m) : p[1] < p[2] /\ s[p[1]] > s[p[2]]})
  IN MapThenSumSet(LAMBDA s : FoldLeft(LAMBDA x, i : x * At(a, n, i, s[i + 1] - 1),
                                       IF inversions(s) % 2 = 0 THEN 1 ELSE -1, Span(0, m - 1)),
                   orders)

(* No pivot but perhaps the last is zero, or none at all. *)
Pivots(a, n) == \A m \in 1 .. n - 1 : Minor(a, n, m) # 0
AllPivots(a, n) == Pivots(a, n) /\ Minor(a, n, n) # 0

Lower(a, n) == [p \in DOMAIN a |-> IF (p - 1) % n <= (p - 1) \div n THEN a[p] ELSE 0]
Upper(a, n) == [p \in DOMAIN a |-> IF (p - 1) % n >= (p - 1) \div n THEN a[p] ELSE 0]
Diagonal(a, n) == \A i \in 0 .. n - 1 : At(a, n, i, i) # 0

(* An answer of true is a solution: the factors multiply to the matrix,    *)
(* the inverse times the matrix is the identity, the unknowns satisfy the  *)
(* system of the triangle that is read, whatever is in the other.  A       *)
(* refusal means that a pivot is zero, or a slice short, and for the       *)
(* inverse that no column of the output was written.  LU and determinant   *)
(* answer for matrices with a zero pivot as well, and then wrongly: see    *)
(* the README (linalg.rs and decompose.rs).                                *)
SolutionsSolve ==
  LET n == Side(call.a)
      m == Rationals(call.a)
  IN CASE call.op = "none" -> TRUE
       [] call.op = "lu" ->
            /\ answer.ok = ~call.short
            /\ answer.ok /\ Pivots(call.a, n) => IsProduct(m, answer.l, answer.u, n, n)
       [] call.op = "determinant" ->
            /\ answer.ok = ~call.short
            /\ answer.ok /\ Pivots(call.a, n) => answer.value = Whole(Minor(call.a, n, n))
       [] call.op = "inverse" ->
            /\ answer.ok = (~call.short /\ AllPivots(call.a, n))
            /\ IF answer.ok THEN IsProduct(Identity(n), m, answer.out, n, n) ELSE answer.out = Unread(n * n)
       [] call.op = "lower" ->
            /\ answer.ok = (~call.short /\ Diagonal(call.a, n))
            /\ answer.ok => IsProduct(Rationals(call.b), Rationals(Lower(call.a, n)), answer.x, n, 1)
       [] call.op = "upper" ->
            /\ answer.ok = (~call.short /\ Diagonal(call.a, n))
            /\ answer.ok => IsProduct(Rationals(call.b), Rationals(Upper(call.a, n)), answer.x, n, 1)
       [] call.op = "cholesky" ->
            LET b == Rationals(call.b)
                k == Side(call.b)
            IN /\ answer.ok = (~call.spoilt /\ Diagonal(call.b, k))
               /\ answer.ok => answer.out = b
       [] call.op = "product" ->
            IsProduct(answer.out, Rationals(call.a.data), Rationals(call.b.data), call.a.columns, call.b.columns)
       [] call.op = "transpose" ->
            IsTransposed(answer.out, Rationals(call.a.data), call.a.rows, call.a.columns)
=============================================================================
