------------------------- MODULE SequentialProofs -------------------------
(***************************************************************************)
(* Proofs about the sequential parts of the library that the formats have  *)
(* no part in: Buffers, Signals and Views, for every capacity, stride,     *)
(* usize::MAX and element.  None of them shares a variable with another.   *)
(*   - Induction.  The provers take no operator as a parameter, so what is *)
(*     built one element at a time (a fold over tokens, over signals, a    *)
(*     sum) is a function that LeastNatural and UpTo show to exist and to  *)
(*     be what the operator of the model returns.                          *)
(*   - Buffers.  The invariant BuffersHold: a ring of c places holds the   *)
(*     last c tokens it was given, each at its place, and a log holds the  *)
(*     start of what it was offered and counts the rest.                   *)
(*   - Signals.  The invariant SignalsHold: what the last call left in the *)
(*     buffer of an inbox is what came before and the sum, in any order,   *)
(*     of the signals that are delivered.                                  *)
(*   - Views.  Nothing is kept between calls, so ViewsStayInside is        *)
(*     inductive by itself.  The work is in what each call gives: parts    *)
(*     that are inside, apart, and of the size that was asked for.         *)
(***************************************************************************)
EXTENDS Buffers, Views, Signals,
        FiniteSetTheorems, SequenceTheorems, WellFoundedInduction, TLAPS

(* Induction: the library's theorem of well-founded sets that takes no     *)
(* operator says that a set of naturals that is not empty has a least      *)
(* element.                                                                *)
LEMMA LeastNatural ==
  ASSUME NEW S \in SUBSET Nat, S # {}
  PROVE  \E n \in S : \A m \in S : n <= m
<1> DEFINE R == OpToRel(<, Nat)
<1>1. IsWellFoundedOn(R, Nat)
  BY NatLessThanWellFounded
<1>2. R = {p \in Nat \X Nat : p[1] < p[2]}
  BY DEF OpToRel
<1> HIDE DEF R
<1>3. PICK n \in S : \A m \in S : ~ (<<m, n>> \in R)
  BY <1>1, WFMin
<1>4. ASSUME NEW m \in S, m < n
      PROVE  FALSE
  <2>1. <<m, n>> \in Nat \X Nat /\ <<m, n>>[1] < <<m, n>>[2]
    BY <1>4
  <2>2. <<m, n>> \in R
    BY <2>1, <1>2
  <2>3. QED
    BY <2>2, <1>3
<1>5. QED
  BY <1>4

(* So a set that holds 0, and the successor of what it holds up to n,      *)
(* holds n.                                                                *)
LEMMA UpTo ==
  ASSUME NEW n \in Nat, NEW S, 0 \in S, \A i \in 0 .. n - 1 : i \in S => i + 1 \in S
  PROVE  \A i \in 0 .. n : i \in S
<1> DEFINE missing == {i \in 0 .. n : i \notin S}
<1> SUFFICES ASSUME missing # {} PROVE FALSE
  OBVIOUS
<1>1. PICK i \in missing : \A j \in missing : i <= j
  <2>1. missing \in SUBSET Nat
    OBVIOUS
  <2> HIDE DEF missing
  <2>2. QED
    BY <2>1, LeastNatural
<1>2. i \in 1 .. n
  BY <1>1
<1>3. i - 1 \in 0 .. n - 1 /\ i - 1 \notin missing
  BY <1>1, <1>2
<1>4. i - 1 \in S
  BY <1>3
<1>5. (i - 1) + 1 \in S
  BY <1>3, <1>4
<1>6. QED
  BY <1>2, <1>5

(* The maximum of a set of naturals that has one, and of 1 .. k.           *)
LEMMA MaxIs ==
  ASSUME NEW s \in SUBSET Nat, NEW m \in s, \A x \in s : x <= m
  PROVE  Max(s) = m
<1>1. \A x \in s : (\A y \in s : x >= y) => x = m
  OBVIOUS
<1>2. QED
  BY <1>1 DEF Max

LEMMA MaxOfSegment ==
  ASSUME NEW k \in Nat \ {0}
  PROVE  Max(1 .. k) = k /\ (1 .. k) \ {k} = 1 .. k - 1 /\ 1 .. k # {}
<1>1. k \in 1 .. k /\ \A x \in 1 .. k : x <= k
  OBVIOUS
<1>2. 1 .. k \in SUBSET Nat
  OBVIOUS
<1>3. Max(1 .. k) = k
  BY <1>1, <1>2, MaxIs
<1>4. (1 .. k) \ {k} = 1 .. k - 1 /\ 1 .. k # {}
  OBVIOUS
<1>5. QED
  BY <1>3, <1>4

(* A fold of every set of positions, the largest first. *)
IsFold(g, n, S, base, step) ==
  /\ g \in [SUBSET (1 .. n) -> S]
  /\ \A s \in SUBSET (1 .. n) :
       /\ s # {} => Max(s) \in s
       /\ g[s] = IF s = {} THEN base ELSE step[<<Max(s), g[s \ {Max(s)}]>>]

(* There is a function that folds every set of positions, largest first.   *)
LEMMA FoldExists ==
  ASSUME NEW n \in Nat, NEW S, NEW base \in S, NEW step \in [(1 .. n) \X S -> S]
  PROVE  \E g : IsFold(g, n, S, base, step)
<1> DEFINE Folds(k, g) ==
             \A s \in SUBSET (1 .. k) :
               /\ s # {} => Max(s) \in s
               /\ g[s] = IF s = {} THEN base ELSE step[<<Max(s), g[s \ {Max(s)}]>>]
           done == {k \in 0 .. n : \E g \in [SUBSET (1 .. k) -> S] : Folds(k, g)}
<1>1. 0 \in done
  <2> DEFINE g == [s \in SUBSET (1 .. 0) |-> base]
  <2>1. 1 .. 0 = {}
    OBVIOUS
  <2>2. g \in [SUBSET (1 .. 0) -> S] /\ Folds(0, g)
    BY <2>1
  <2> HIDE DEF g, Folds
  <2>3. 0 \in 0 .. n
    OBVIOUS
  <2>4. QED
    BY <2>2, <2>3
<1>2. ASSUME NEW k \in 0 .. n - 1, k \in done
      PROVE  k + 1 \in done
  <2>1. PICK g \in [SUBSET (1 .. k) -> S] : Folds(k, g)
    BY <1>2
  <2> DEFINE h == [s \in SUBSET (1 .. k + 1) |->
                     IF k + 1 \in s THEN step[<<k + 1, g[s \ {k + 1}]>>] ELSE g[s]]
  <2>2. k \in Nat /\ k + 1 \in 1 .. n /\ k + 1 \in 0 .. n
    OBVIOUS
  <2>3. \A s \in SUBSET (1 .. k + 1) : s \ {k + 1} \in SUBSET (1 .. k)
    BY <2>2
  <2>4. h \in [SUBSET (1 .. k + 1) -> S]
    <3>1. ASSUME NEW s \in SUBSET (1 .. k + 1), k + 1 \in s
          PROVE  step[<<k + 1, g[s \ {k + 1}]>>] \in S
      BY <2>2, <2>3
    <3>2. ASSUME NEW s \in SUBSET (1 .. k + 1), k + 1 \notin s
          PROVE  g[s] \in S
      BY <2>2, <2>3, <3>2
    <3>3. QED
      BY <3>1, <3>2
  <2>5. ASSUME NEW s \in SUBSET (1 .. k + 1)
        PROVE  /\ s # {} => Max(s) \in s
               /\ h[s] = IF s = {} THEN base ELSE step[<<Max(s), h[s \ {Max(s)}]>>]
    <3>1. CASE k + 1 \in s
      <4>1. Max(s) = k + 1
        <5>1. s \in SUBSET Nat /\ \A x \in s : x <= k + 1
          BY <2>2
        <5>2. QED
          BY <3>1, <5>1, MaxIs
      <4>2. s \ {k + 1} \in SUBSET (1 .. k + 1) /\ k + 1 \notin s \ {k + 1}
        OBVIOUS
      <4>3. h[s \ {k + 1}] = g[s \ {k + 1}]
        BY <4>2
      <4>4. QED
        BY <3>1, <4>1, <4>3
    <3>2. CASE k + 1 \notin s
      <4>1. s \in SUBSET (1 .. k) /\ h[s] = g[s]
        BY <2>3, <3>2
      <4>2. \A t \in SUBSET s : h[t] = g[t]
        BY <3>2
      <4>3. /\ s # {} => Max(s) \in s
            /\ g[s] = IF s = {} THEN base ELSE step[<<Max(s), g[s \ {Max(s)}]>>]
        BY <2>1, <4>1
      <4> HIDE DEF h, Folds
      <4>4. h[s \ {Max(s)}] = g[s \ {Max(s)}]
        BY <4>2
      <4>5. QED
        BY <4>1, <4>3, <4>4
    <3>3. QED
      BY <3>1, <3>2
  <2>6. Folds(k + 1, h)
    BY <2>5
  <2> HIDE DEF h, Folds
  <2>7. QED
    BY <2>2, <2>4, <2>6
<1> HIDE DEF done
<1>3. \A i \in 0 .. n - 1 : i \in done => i + 1 \in done
  BY <1>2
<1>4. n \in done
  <2>1. n \in 0 .. n
    OBVIOUS
  <2>2. QED
    BY <1>1, <1>3, <2>1, UpTo
<1>5. PICK g \in [SUBSET (1 .. n) -> S] : Folds(n, g)
  BY <1>4 DEF done
<1>6. IsFold(g, n, S, base, step)
  BY <1>5 DEF IsFold
<1>7. QED
  BY <1>6

(* A number has one quotient and one remainder. *)
LEMMA QuotientIs ==
  ASSUME NEW d \in Nat \ {0}, NEW q \in Int, NEW r \in 0 .. d - 1, NEW x \in Int, x = d * q + r
  PROVE  x \div d = q /\ x % d = r
<1> DEFINE k == x \div d
           m == x % d
<1>1. x \in Int /\ x = d * k + m /\ m \in 0 .. d - 1 /\ k \in Int
  OBVIOUS
<1> HIDE DEF k, m
<1>2. d * (q - k) = m - r
  BY <1>1
<1>3. q - k \in Int /\ m - r < d /\ m - r > -d
  BY <1>1
<1>4. CASE q - k >= 1
  <2>1. d * (q - k) >= d
    BY <1>3, <1>4
  <2>2. QED
    BY <2>1, <1>2, <1>3
<1>5. CASE q - k <= -1
  <2>1. d * (q - k) <= -d
    BY <1>3, <1>5
  <2>2. QED
    BY <2>1, <1>2, <1>3
<1>6. CASE q - k = 0
  <2>1. k = q /\ m = r
    BY <1>1, <1>2, <1>6
  <2>2. QED
    BY <2>1 DEF k, m
<1>7. QED
  BY <1>3, <1>4, <1>5, <1>6

(* The numbers of fewer than c in a row have remainders of their own. *)
LEMMA RemaindersDiffer ==
  ASSUME NEW c \in Nat \ {0}, NEW s \in Nat, NEW t \in Nat, s < t, t < s + c
  PROVE  s % c # t % c
<1> SUFFICES ASSUME s % c = t % c PROVE FALSE
  OBVIOUS
<1>1. s = c * (s \div c) + (s % c) /\ t = c * (t \div c) + (t % c) /\ s \div c \in Int /\ t \div c \in Int
  OBVIOUS
<1> DEFINE u == (t \div c) - (s \div c)
<1>2. u \in Int /\ t - s = c * u
  BY <1>1
<1> HIDE DEF u
<1>3. CASE u >= 1
  <2>1. c * u >= c
    BY <1>2, <1>3
  <2>2. QED
    BY <2>1, <1>2
<1>4. CASE u <= 0
  <2>1. c * u <= 0
    BY <1>2, <1>4
  <2>2. QED
    BY <2>1, <1>2
<1>5. QED
  BY <1>2, <1>3, <1>4

(* The places of two tokens that are not the same one share no element. *)
LEMMA PlacesDiffer ==
  ASSUME NEW d \in Nat \ {0}, NEW s \in Nat, NEW t \in Nat, s # t, NEW e \in 1 .. d
  PROVE  s * d + e \notin t * d + 1 .. t * d + d
<1>1. CASE s < t
  <2>1. (t - s) * d >= d
    BY <1>1
  <2>2. QED
    BY <2>1
<1>2. CASE s > t
  <2>1. (s - t) * d >= d
    BY <1>2
  <2>2. QED
    BY <2>1
<1>3. QED
  BY <1>1, <1>2

(* and lie in a ring that has room for them. *)
LEMMA PlaceIsIn ==
  ASSUME NEW d \in Nat \ {0}, NEW c \in Nat \ {0}, NEW s \in 0 .. c - 1, NEW e \in 1 .. d
  PROVE  s * d + e \in 1 .. c * d
<1>1. (c - s) * d >= d
  OBVIOUS
<1>2. s * d >= 0
  OBVIOUS
<1>3. QED
  BY <1>1, <1>2

(* The rings that pushes one after the other make, the last of which the   *)
(* fold gives.                                                             *)
AreRings(at, n, base, chunks) ==
  /\ at[0] = base
  /\ \A k \in 1 .. n : at[k] = PushToken(at[k - 1], chunks[k])
  /\ FoldLeft(PushToken, base, chunks) = at[n]

(* The cache is folded: the rings of the fold, one after each chunk,       *)
(* exist.                                                                  *)
LEMMA FoldOfPushes ==
  ASSUME NEW n \in Nat, NEW chunks, DOMAIN chunks = 1 .. n, NEW S, NEW base \in S,
         \A r \in S, k \in 1 .. n : PushToken(r, chunks[k]) \in S
  PROVE  \E at : AreRings(at, n, base, chunks)
<1> DEFINE step == [p \in (1 .. n) \X S |-> PushToken(p[2], chunks[p[1]])]
           Is(f) == f = [s \in SUBSET (1 .. n) |->
                           IF s = {} THEN base ELSE PushToken(f[s \ {Max(s)}], chunks[Max(s)])]
           fold == CHOOSE f : Is(f)
<1>1. step \in [(1 .. n) \X S -> S]
  OBVIOUS
<1>2. \A k \in 1 .. n, r \in S : step[<<k, r>>] = PushToken(r, chunks[k])
  OBVIOUS
<1> HIDE DEF step, Is, fold
<1>3. PICK g : IsFold(g, n, S, base, step)
  BY <1>1, FoldExists
<1> g \in [SUBSET (1 .. n) -> S]
  BY <1>3 DEF IsFold
<1>4. ASSUME NEW s \in SUBSET (1 .. n)
      PROVE  g[s] = IF s = {} THEN base ELSE PushToken(g[s \ {Max(s)}], chunks[Max(s)])
  <2>1. CASE s = {}
    BY <1>3, <2>1 DEF IsFold
  <2>2. CASE s # {}
    <3> DEFINE k == Max(s)
    <3>1. k \in 1 .. n /\ g[s] = step[<<k, g[s \ {k}]>>]
      BY <1>3, <2>2 DEF IsFold
    <3>2. s \ {k} \in SUBSET (1 .. n)
      OBVIOUS
    <3> HIDE DEF k
    <3>3. g[s \ {k}] \in S
      BY <3>2
    <3>4. g[s] = PushToken(g[s \ {k}], chunks[k])
      BY <1>2, <3>1, <3>3
    <3>5. QED
      BY <2>2, <3>4 DEF k
  <2>3. QED
    BY <2>1, <2>2
<1>5. Is(g)
  BY <1>4 DEF Is
<1>6. Is(fold)
  BY <1>5 DEF fold
<1>7. FoldLeft(PushToken, base, chunks) = fold[1 .. n]
  BY DEF FoldLeft, MapThenFoldSet, fold, Is
<1>8. fold[1 .. 0] = base
  BY <1>6 DEF Is
<1>9. ASSUME NEW k \in 1 .. n
      PROVE  fold[1 .. k] = PushToken(fold[1 .. k - 1], chunks[k])
  <2>1. Max(1 .. k) = k /\ (1 .. k) \ {k} = 1 .. k - 1 /\ 1 .. k # {}
    BY MaxOfSegment
  <2>2. 1 .. k \in SUBSET (1 .. n)
    OBVIOUS
  <2>3. QED
    BY <1>6, <2>1, <2>2 DEF Is
<1> DEFINE at == [k \in 0 .. n |-> fold[1 .. k]]
<1>10. at[0] = base /\ at[n] = fold[1 .. n]
  BY <1>8
<1>11. \A k \in 1 .. n : at[k] = fold[1 .. k] /\ at[k - 1] = fold[1 .. k - 1]
  OBVIOUS
<1> HIDE DEF at
<1>12. \A k \in 1 .. n : at[k] = PushToken(at[k - 1], chunks[k])
  BY <1>9, <1>11
<1>13. AreRings(at, n, base, chunks)
  BY <1>7, <1>10, <1>12 DEF AreRings
<1>14. QED
  BY <1>13

(* cache_push hands the ring a token at a time, and what is left over at   *)
(* the end is no token.                                                    *)
LEMMA ChunksAreTokens ==
  ASSUME NEW elements \in Seq(Int)
  PROVE  LET whole == Len(elements) \div Stride
             n == (Len(elements) + Stride - 1) \div Stride
         IN /\ whole \in Nat /\ n \in Nat /\ whole <= n /\ DOMAIN Chunks(elements) = 1 .. n
            /\ \A k \in 1 .. n : Chunks(elements)[k] \in Seq(Int)
            /\ \A k \in 1 .. whole :
                 /\ Len(Chunks(elements)[k]) = Stride
                 /\ \A e \in 1 .. Stride : Chunks(elements)[k][e] = elements[(k - 1) * Stride + e]
            /\ \A k \in whole + 1 .. n : Len(Chunks(elements)[k]) < Stride
<1> DEFINE d == Stride
           len == Len(elements)
           whole == len \div d
           rest == len % d
           n == (len + d - 1) \div d
           over == (len + d - 1) % d
           high(k) == IF k * d < len THEN k * d ELSE len
<1>1. d \in Nat \ {0} /\ len \in Nat
  BY StrideAssumption
<1>2. len = d * whole + rest /\ whole \in Int /\ rest \in 0 .. d - 1
  BY <1>1
<1>3. len + d - 1 = d * n + over /\ n \in Int /\ over \in 0 .. d - 1
  BY <1>1
<1>4. DOMAIN Chunks(elements) = 1 .. n /\
      \A k \in 1 .. n : Chunks(elements)[k] = SubSeq(elements, (k - 1) * d + 1, high(k))
  BY DEF Chunks
<1> HIDE DEF d, len, whole, rest, n, over
<1>5. whole \in Nat
  <2>1. CASE whole <= -1
    <3>1. d * whole <= -d
      BY <1>1, <1>2, <2>1
    <3>2. QED
      BY <3>1, <1>1, <1>2
  <2>2. QED
    BY <2>1, <1>2
<1>6. whole <= n
  <2>1. CASE n <= whole - 1
    <3>1. d * (whole - n) >= d
      BY <1>1, <1>2, <1>3, <2>1
    <3>2. d * (whole - n) = d * whole - d * n
      BY <1>1, <1>2, <1>3
    <3>3. QED
      BY <3>1, <3>2, <1>1, <1>2, <1>3
  <2>2. QED
    BY <2>1, <1>2, <1>3
<1>7. ASSUME NEW k \in 1 .. n
      PROVE  high(k) \in Int /\ (k - 1) * d + 1 \in Nat /\ high(k) <= len
  <2>1. (k - 1) * d >= 0 /\ k * d \in Nat
    BY <1>1
  <2>2. QED
    BY <1>1, <2>1
<1>8. ASSUME NEW k \in 1 .. n
      PROVE  Chunks(elements)[k] \in Seq(Int)
  <2> DEFINE lo == (k - 1) * d + 1
             hi == high(k)
  <2>1. lo \in Nat \ {0} /\ hi \in Int /\ hi <= len
    <3>1. (k - 1) * d >= 0
      BY <1>1
    <3>2. QED
      BY <1>7, <3>1, <1>1
  <2>2. Chunks(elements)[k] = SubSeq(elements, lo, hi)
    BY <1>4
  <2> HIDE DEF lo, hi
  <2>3. \A i \in lo .. hi : i \in DOMAIN elements
    BY <2>1 DEF len
  <2>4. SubSeq(elements, lo, hi) \in Seq(Int)
    BY <2>1, <2>3
  <2>5. QED
    BY <2>2, <2>4
<1>9. ASSUME NEW k \in 1 .. whole
      PROVE  /\ Len(Chunks(elements)[k]) = d
             /\ \A e \in 1 .. d : Chunks(elements)[k][e] = elements[(k - 1) * d + e]
  <2>1. k \in 1 .. n
    BY <1>2, <1>3, <1>6
  <2>2. k * d <= len
    <3>1. (whole - k) * d >= 0
      BY <1>1, <1>2
    <3>2. QED
      BY <3>1, <1>1, <1>2
  <2>3. high(k) = k * d /\ k * d = (k - 1) * d + d /\ (k - 1) * d \in Nat
    <3>1. (k - 1) * d >= 0
      BY <1>1
    <3>2. QED
      BY <1>1, <2>2, <3>1
  <2> DEFINE lo == (k - 1) * d
  <2>4. Chunks(elements)[k] = SubSeq(elements, lo + 1, lo + d) /\ lo \in Nat /\ lo + d <= len
    BY <1>4, <2>1, <2>2, <2>3
  <2> HIDE DEF lo
  <2>5. Len(SubSeq(elements, lo + 1, lo + d)) = d
    BY <1>1, <2>4
  <2>6. \A e \in 1 .. d : SubSeq(elements, lo + 1, lo + d)[e] = elements[lo + e]
    BY <1>1, <2>4 DEF len
  <2>7. QED
    BY <2>4, <2>5, <2>6 DEF lo
<1>10. ASSUME NEW k \in whole + 1 .. n
       PROVE  Len(Chunks(elements)[k]) < d
  <2>1. k \in 1 .. n
    BY <1>2, <1>3, <1>5
  <2>2. (k - 1) * d >= whole * d /\ k * d >= (whole + 1) * d
    <3>1. (k - 1 - whole) * d >= 0
      BY <1>1, <1>2, <1>3
    <3>2. QED
      BY <3>1, <1>1, <1>2, <1>3
  <2>3. high(k) = len
    BY <1>1, <1>2, <2>2
  <2> DEFINE lo == (k - 1) * d
  <2>4. Chunks(elements)[k] = SubSeq(elements, lo + 1, len) /\ lo \in Nat /\ len - lo < d
    <3>1. lo >= 0
      BY <1>1, <2>1
    <3>2. QED
      BY <1>1, <1>2, <1>4, <2>1, <2>2, <2>3, <3>1
  <2> HIDE DEF lo
  <2>5. Len(SubSeq(elements, lo + 1, len)) = IF lo + 1 <= len THEN len - lo ELSE 0
    BY <1>1, <2>4
  <2>6. QED
    BY <1>1, <2>4, <2>5
<1>11. n \in Nat
  BY <1>3, <1>5, <1>6
<1>12. QED
  BY <1>4, <1>5, <1>6, <1>8, <1>9, <1>10, <1>11 DEF d, len, whole, n

-----------------------------------------------------------------------------
(* The rings of a capacity, and such a ring after so many whole tokens of  *)
(* the elements: each of the latest is at its place.                       *)
Rings(c) == [data : [1 .. c * Stride -> Int], capacity : {c}, head : 0 .. c - 1, len : 0 .. c]

(* In the data of a ring of c places, each of the last c of j tokens is at *)
(* its place.                                                              *)
HoldsTokens(data, c, elements, j) ==
  \A t \in 0 .. j - 1 : t >= j - c =>
    \A e \in 1 .. Stride : data[(t % c) * Stride + e] = elements[t * Stride + e]

(* The ring after j whole tokens.                                          *)
Pushed(r, c, elements, j) ==
  /\ r \in Rings(c)
  /\ r.head = j % c
  /\ r.len = IF j < c THEN j ELSE c
  /\ HoldsTokens(r.data, c, elements, j)

(* The elements of token j.                                                *)
IsToken(kv, elements, j) ==
  Len(kv) = Stride /\ \A e \in 1 .. Stride : kv[e] = elements[j * Stride + e]

(* What push_token makes of a ring, field by field.                        *)
LEMMA PushFields ==
  ASSUME NEW data, NEW c, NEW head, NEW len, NEW kv, ~ (Len(kv) < Stride)
  PROVE  PushToken([data |-> data, capacity |-> c, head |-> head, len |-> len], kv) =
           [data |-> Overwrite(data, head * Stride, kv), capacity |-> c,
            head |-> (head + 1) % c, len |-> IF len < c THEN len + 1 ELSE len]
BY DEF PushToken

(* It makes a ring of the same capacity.                                   *)
LEMMA PushStays ==
  ASSUME NEW c \in Nat \ {0}, NEW r \in Rings(c), NEW kv \in Seq(Int), Len(kv) <= Stride
  PROVE  PushToken(r, kv) \in Rings(c)
<1>1. CASE Len(kv) < Stride
  BY <1>1 DEF PushToken
<1>2. CASE ~ (Len(kv) < Stride)
  <2>1. /\ r = [data |-> r.data, capacity |-> c, head |-> r.head, len |-> r.len]
        /\ r.data \in [1 .. c * Stride -> Int] /\ r.head \in 0 .. c - 1 /\ r.len \in 0 .. c
    BY DEF Rings
  <2> DEFINE data == Overwrite(r.data, r.head * Stride, kv)
             head == (r.head + 1) % c
             len == IF r.len < c THEN r.len + 1 ELSE r.len
  <2>2. PushToken(r, kv) = [data |-> data, capacity |-> c, head |-> head, len |-> len]
    <3> DEFINE x == r.data
               y == r.head
               z == r.len
    <3>1. r = [data |-> x, capacity |-> c, head |-> y, len |-> z]
      BY <2>1
    <3> HIDE DEF x, y, z
    <3>2. PushToken(r, kv) = [data |-> Overwrite(x, y * Stride, kv), capacity |-> c,
                              head |-> (y + 1) % c, len |-> IF z < c THEN z + 1 ELSE z]
      BY <1>2, <3>1, PushFields
    <3>3. QED
      BY <3>2 DEF x, y, z
  <2>3. head \in 0 .. c - 1 /\ len \in 0 .. c
    BY <2>1
  <2>4. data \in [1 .. c * Stride -> Int]
    <3> DEFINE at == r.head * Stride
    <3>1. at \in Int /\ Len(kv) \in Nat
      BY <2>1, StrideAssumption
    <3> HIDE DEF at
    <3>2. \A i \in 1 .. c * Stride : i \in at + 1 .. at + Len(kv) => kv[i - at] \in Int
      <4>1. \A i \in at + 1 .. at + Len(kv) : i - at \in 1 .. Len(kv)
        BY <3>1
      <4>2. QED
        BY <4>1
    <3>3. Overwrite(r.data, at, kv) \in [1 .. c * Stride -> Int]
      BY <2>1, <3>2 DEF Overwrite
    <3>4. QED
      BY <3>3 DEF at
  <2> HIDE DEF data, head, len
  <2>5. QED
    BY <2>2, <2>3, <2>4 DEF Rings
<1>3. QED
  BY <1>1, <1>2

(* The head of the ring after one more push. *)
LEMMA RingMovesOn ==
  ASSUME NEW c \in Nat \ {0}, NEW j \in Nat
  PROVE  (j + 1) % c = ((j % c) + 1) % c
<1> DEFINE h == j % c
           q == j \div c
           x == j + 1
           g == h + 1
<1>1. j = c * q + h /\ q \in Int /\ h \in 0 .. c - 1
  OBVIOUS
<1>2. x \in Int /\ g \in Int /\ x = c * q + g /\ g \in 1 .. c
  BY <1>1
<1>3. CASE g = c
  <2> DEFINE p == q + 1
             zero == 0
  <2>1. p \in Int /\ x = c * p + zero /\ zero \in 0 .. c - 1
    <3>1. c * (q + 1) = c * q + c
      BY <1>1
    <3>2. QED
      BY <1>1, <1>2, <1>3, <3>1
  <2>2. g = c * 1 + zero
    BY <1>2, <1>3
  <2> HIDE DEF h, q, x, g, p, zero
  <2>3. x % c = zero
    <3>1. p \in Int /\ zero \in 0 .. c - 1 /\ x \in Int /\ x = c * p + zero
      BY <1>2, <2>1
    <3>2. QED
      BY <3>1, QuotientIs
  <2>4. g % c = zero
    BY <1>2, <2>1, <2>2, QuotientIs
  <2>5. QED
    BY <2>3, <2>4 DEF x, g, h
<1>4. CASE g < c
  <2>1. g \in 0 .. c - 1 /\ g = c * 0 + g
    BY <1>2, <1>4
  <2> HIDE DEF h, q, x, g
  <2>2. q \in Int /\ x \in Int /\ g \in Int /\ x = c * q + g
    BY <1>1, <1>2
  <2>3. x % c = g
    BY <2>1, <2>2, QuotientIs
  <2>4. g % c = g
    BY <2>1, <2>2, QuotientIs
  <2>5. QED
    BY <2>3, <2>4 DEF x, g, h
<1>5. QED
  BY <1>2, <1>3, <1>4

(* One token more takes the place of the one that is oldest in a full ring. *)
LEMMA PushOne ==
  ASSUME NEW c \in Nat \ {0}, NEW elements, NEW j \in Nat, NEW r, Pushed(r, c, elements, j),
         NEW kv \in Seq(Int), IsToken(kv, elements, j)
  PROVE  Pushed(PushToken(r, kv), c, elements, j + 1)
<1> DEFINE h == j % c
           s == PushToken(r, kv)
<1>0. Len(kv) = Stride /\ \A e \in 1 .. Stride : kv[e] = elements[j * Stride + e]
  BY DEF IsToken
<1>1. r \in Rings(c) /\ r.head = h /\ r.len = (IF j < c THEN j ELSE c)
  BY DEF Pushed, HoldsTokens
<1>2. h \in 0 .. c - 1
  OBVIOUS
<1>3. s \in Rings(c)
  BY <1>0, <1>1, PushStays, StrideAssumption
<1>4. s.data = Overwrite(r.data, h * Stride, kv) /\ s.head = (h + 1) % c
      /\ s.len = (IF r.len < c THEN r.len + 1 ELSE r.len)
  <2>1. r = [data |-> r.data, capacity |-> c, head |-> h, len |-> r.len]
    BY <1>1 DEF Rings
  <2>2. ~ (Len(kv) < Stride)
    BY <1>0, StrideAssumption
  <2>3. QED
    BY <2>1, <2>2 DEF PushToken
<1>5. (j + 1) % c = (h + 1) % c
  BY RingMovesOn
<1>6. s.len = IF j + 1 < c THEN j + 1 ELSE c
  BY <1>1, <1>4
<1>7. ASSUME NEW t \in 0 .. j, t >= j + 1 - c, NEW e \in 1 .. Stride
      PROVE  s.data[(t % c) * Stride + e] = elements[t * Stride + e]
  <2> DEFINE u == t % c
             i == u * Stride + e
             at == h * Stride
  <2>1. u \in 0 .. c - 1
    OBVIOUS
  <2>2. i \in 1 .. c * Stride /\ DOMAIN r.data = 1 .. c * Stride
    BY <1>1, <2>1, StrideAssumption, PlaceIsIn DEF Rings
  <2>3. s.data[i] = IF i \in at + 1 .. at + Len(kv) THEN kv[i - at] ELSE r.data[i]
    <3> HIDE DEF i, at, s
    <3>1. QED
      BY <1>4, <2>2 DEF Overwrite, at
  <2>4. CASE t = j
    <3>1. i = at + e /\ at \in Int
      BY <2>4, <1>2, StrideAssumption
    <3> HIDE DEF i, at, s
    <3>2. i \in at + 1 .. at + Len(kv) /\ i - at = e
      BY <1>0, <3>1, StrideAssumption
    <3>3. s.data[i] = kv[e]
      BY <2>3, <3>2
    <3>4. QED
      BY <1>0, <2>4, <3>3 DEF i
  <2>5. CASE t < j
    <3>1. u # h
      <4>1. t \in Nat /\ j \in Nat /\ t < j /\ j < t + c
        BY <2>5, <1>7
      <4>2. QED
        BY <4>1, RemaindersDiffer
    <3>2. i \notin at + 1 .. at + Len(kv)
      <4>1. u \in Nat /\ h \in Nat /\ Stride \in Nat \ {0}
        BY <2>1, <1>2, StrideAssumption
      <4>0. Len(kv) = Stride
        BY <1>0
      <4> HIDE DEF u, h
      <4>2. QED
        BY <3>1, <4>0, <4>1, PlacesDiffer
    <3>3. t \in 0 .. j - 1 /\ t >= j - c
      BY <2>5, <1>7
    <3>4. r.data[i] = elements[t * Stride + e]
      BY <3>3 DEF Pushed, HoldsTokens
    <3> HIDE DEF i, at, s
    <3>5. s.data[i] = elements[t * Stride + e]
      BY <2>3, <3>2, <3>4
    <3>6. QED
      BY <3>5 DEF i
  <2>6. QED
    BY <2>4, <2>5
<1>8. (j + 1) - 1 = j
  OBVIOUS
<1> HIDE DEF s
<1>9. Pushed(s, c, elements, j + 1)
  <2>1. s.head = (j + 1) % c
    BY <1>4, <1>5
  <2>2. HoldsTokens(s.data, c, elements, j + 1)
    <3>1. \A t \in 0 .. (j + 1) - 1 : t >= (j + 1) - c =>
            \A e \in 1 .. Stride : s.data[(t % c) * Stride + e] = elements[t * Stride + e]
      BY <1>7, <1>8
    <3>2. QED
      BY <3>1 DEF HoldsTokens
  <2>3. QED
    BY <1>3, <1>6, <2>1, <2>2 DEF Pushed
<1>10. QED
  BY <1>9 DEF s

(* The whole of a call: every whole token has been pushed, and no more.    *)
LEMMA CallPushesTokens ==
  ASSUME NEW c \in Nat \ {0}, NEW elements \in Seq(Int)
  PROVE  LET empty == [data |-> Blank(c * Stride), capacity |-> c, head |-> 0, len |-> 0]
         IN Pushed(FoldLeft(PushToken, empty, Chunks(elements)), c, elements, Len(elements) \div Stride)
<1> DEFINE empty == [data |-> Blank(c * Stride), capacity |-> c, head |-> 0, len |-> 0]
           whole == Len(elements) \div Stride
           n == (Len(elements) + Stride - 1) \div Stride
           chunks == Chunks(elements)
<1>1. /\ whole \in Nat /\ n \in Nat /\ whole <= n /\ DOMAIN chunks = 1 .. n
      /\ \A k \in 1 .. n : chunks[k] \in Seq(Int)
      /\ \A k \in 1 .. whole :
           /\ Len(chunks[k]) = Stride
           /\ \A e \in 1 .. Stride : chunks[k][e] = elements[(k - 1) * Stride + e]
      /\ \A k \in whole + 1 .. n : Len(chunks[k]) < Stride
  BY ChunksAreTokens
<1> HIDE DEF whole, n, chunks
<1>2. Pushed(empty, c, elements, 0)
  <2>1. empty \in Rings(c)
    <3>1. Blank(c * Stride) \in [1 .. c * Stride -> Int]
      BY DEF Blank
    <3>2. QED
      BY <3>1 DEF Rings
  <2>2. 0 % c = 0
    OBVIOUS
  <2>3. QED
    BY <2>1, <2>2 DEF Pushed, HoldsTokens
<1>3. empty \in Rings(c)
  BY <1>2 DEF Pushed, HoldsTokens
<1> HIDE DEF empty
<1>4. ASSUME NEW r \in Rings(c), NEW k \in 1 .. n
      PROVE  PushToken(r, chunks[k]) \in Rings(c)
  <2>1. chunks[k] \in Seq(Int) /\ Len(chunks[k]) <= Stride
    BY <1>1, StrideAssumption
  <2>2. QED
    BY <2>1, PushStays
<1>5. PICK at : AreRings(at, n, empty, chunks)
  <2>1. n \in Nat /\ DOMAIN chunks = 1 .. n
    BY <1>1
  <2>2. QED
    BY <2>1, <1>3, <1>4, FoldOfPushes
<1> DEFINE right == {k \in 0 .. n : Pushed(at[k], c, elements, IF k < whole THEN k ELSE whole)}
<1>6. 0 \in right
  BY <1>1, <1>2, <1>5 DEF AreRings
<1>7. ASSUME NEW k \in 0 .. n - 1, k \in right
      PROVE  k + 1 \in right
  <2>1. k \in Nat /\ k + 1 \in 1 .. n /\ (k + 1) - 1 = k /\ k + 1 \in 0 .. n
    BY <1>1
  <2>2. at[k + 1] = PushToken(at[k], chunks[k + 1])
    BY <1>5, <2>1 DEF AreRings
  <2>3. CASE k < whole
    <3>1. Pushed(at[k], c, elements, k)
      BY <1>7, <2>3
    <3>2. k + 1 \in 1 .. whole
      BY <1>1, <2>1, <2>3
    <3>3. Len(chunks[k + 1]) = Stride /\ chunks[k + 1] \in Seq(Int)
          /\ \A e \in 1 .. Stride : chunks[k + 1][e] = elements[k * Stride + e]
      BY <1>1, <2>1, <3>2
    <3>4. Pushed(at[k + 1], c, elements, k + 1)
      <4>1. IsToken(chunks[k + 1], elements, k)
        BY <3>3 DEF IsToken
      <4> DEFINE kv == chunks[k + 1]
                 r == at[k]
      <4>2. kv \in Seq(Int) /\ IsToken(kv, elements, k) /\ Pushed(r, c, elements, k) /\ at[k + 1] = PushToken(r, kv)
        BY <2>2, <3>1, <3>3, <4>1
      <4> HIDE DEF kv, r
      <4>3. QED
        BY <2>1, <4>2, PushOne
    <3>5. (IF k + 1 < whole THEN k + 1 ELSE whole) = k + 1
      BY <1>1, <2>1, <3>2
    <3>6. QED
      BY <2>1, <3>4, <3>5
  <2>4. CASE ~ (k < whole)
    <3>1. Pushed(at[k], c, elements, whole)
      BY <1>7, <2>4
    <3>2. k + 1 \in whole + 1 .. n
      BY <1>1, <2>1, <2>4
    <3>3. at[k + 1] = at[k]
      BY <1>1, <2>2, <3>2 DEF PushToken
    <3>4. ~ (k + 1 < whole)
      BY <1>1, <2>1, <2>4
    <3>5. QED
      BY <2>1, <3>1, <3>3, <3>4
  <2>5. QED
    BY <2>3, <2>4
<1>8. n \in right
  <2> HIDE DEF right
  <2>1. \A k \in 0 .. n - 1 : k \in right => k + 1 \in right
    BY <1>7
  <2>2. n \in 0 .. n
    BY <1>1
  <2>3. QED
    BY <1>1, <1>6, <2>1, <2>2, UpTo
<1>9. (IF n < whole THEN n ELSE whole) = whole
  BY <1>1
<1>10. Pushed(at[n], c, elements, whole)
  BY <1>8, <1>9
<1>11. QED
  BY <1>5, <1>10 DEF AreRings, empty, chunks, whole

(* The place the oldest token is read from, counted from the head or from  *)
(* the number of tokens.                                                   *)
LEMMA SameRemainder ==
  ASSUME NEW c \in Nat \ {0}, NEW w \in Nat, NEW i \in Nat, w >= c
  PROVE  ((w % c) + i) % c = ((w - c) + i) % c
<1> DEFINE h == w % c
           q == w \div c
           x == h + i
           y == (w - c) + i
           k == x \div c
           m == x % c
           p == k + (q - 1)
<1>1. w = c * q + h /\ q \in Int /\ h \in 0 .. c - 1 /\ x \in Int /\ y \in Int
  OBVIOUS
<1>2. x = c * k + m /\ k \in Int /\ m \in 0 .. c - 1
  BY <1>1
<1>3. p \in Int /\ y = c * p + m
  <2>1. c * (k + (q - 1)) = c * k + (c * q - c)
    BY <1>1, <1>2
  <2>2. QED
    BY <1>1, <1>2, <2>1
<1> HIDE DEF h, q, x, y, k, m, p
<1>4. p \in Int /\ m \in 0 .. c - 1 /\ y \in Int /\ y = c * p + m
  BY <1>1, <1>2, <1>3
<1>5. y % c = m
  BY <1>4, QuotientIs
<1>6. QED
  BY <1>5 DEF m, x, y, h

(* Two parts of a sequence, one after the other. *)
LEMMA PartsJoin ==
  ASSUME NEW t \in Seq(Int), NEW x \in Nat, NEW y \in Nat, NEW z \in Nat, x <= y, y <= z, z <= Len(t)
  PROVE  SubSeq(t, x + 1, y) \o SubSeq(t, y + 1, z) = SubSeq(t, x + 1, z)
<1>1. x + 1 \in 1 .. Len(t) + 1 /\ y \in (x + 1) - 1 .. Len(t) /\ z \in y .. Len(t)
  OBVIOUS
<1>2. QED
  BY <1>1, ConcatAdjacentSubSeq

(* So many tokens of d elements each, from one of them on. *)
TokensFrom(text, a, n, d) == SubSeq(text, a * d + 1, (a + n) * d)

(* Tokens one after the other, each from its place in the same sequence.   *)
LEMMA TokensJoin ==
  ASSUME NEW d \in Nat \ {0}, NEW n \in Nat, NEW text \in Seq(Int), NEW a \in Nat, (a + n) * d <= Len(text),
         NEW seqs, DOMAIN seqs = 1 .. n, seqs \in Seq(Seq(Int)),
         \A i \in 1 .. n : seqs[i] = TokensFrom(text, a + (i - 1), 1, d)
  PROVE  FlattenSeq(seqs) = TokensFrom(text, a, n, d)
<1> \A i \in 1 .. n : seqs[i] = SubSeq(text, (a + (i - 1)) * d + 1, (a + i) * d)
  <2>1. \A i \in 1 .. n : (a + (i - 1)) + 1 = a + i
    OBVIOUS
  <2>2. QED
    BY <2>1 DEF TokensFrom
<1> SUFFICES FlattenSeq(seqs) = SubSeq(text, a * d + 1, (a + n) * d)
  BY DEF TokensFrom
<1>0. Len(seqs) = n
  OBVIOUS
<1>1. CASE n = 0
  <2>1. seqs = <<>>
    BY <1>0, <1>1
  <2>2. FlattenSeq(seqs) = <<>>
    BY <1>0, <1>1, <2>1 DEF FlattenSeq
  <2>3. a * d \in Nat /\ (a + n) * d = a * d
    BY <1>1
  <2>4. SubSeq(text, a * d + 1, a * d) = <<>>
    BY <2>3
  <2>5. QED
    BY <2>2, <2>3, <2>4
<1>2. CASE n > 0
  <2> DEFINE part(i) == SubSeq(text, a * d + 1, (a + i) * d)
             g == [i \in 1 .. n |-> part(i)]
             Is(f) == f = [i \in 1 .. n |-> IF i = 1 THEN seqs[i] ELSE f[i - 1] \o seqs[i]]
             f == CHOOSE x : Is(x)
  <2>1. part(1) = seqs[1]
    <3>1. a + (1 - 1) = a /\ 1 \in 1 .. n
      BY <1>2
    <3>2. QED
      BY <3>1
  <2>2. ASSUME NEW i \in 1 .. n, i # 1
        PROVE  part(i) = part(i - 1) \o seqs[i]
    <3> DEFINE x == a * d
               y == (a + (i - 1)) * d
               z == (a + i) * d
    <3>1. x \in Nat /\ y \in Nat /\ z \in Nat /\ x <= y /\ y <= z /\ z <= Len(text)
      <4>1. (i - 1) * d >= 0 /\ (n - i) * d >= 0 /\ a * d >= 0
        OBVIOUS
      <4>2. (a + (i - 1)) * d = a * d + (i - 1) * d
        OBVIOUS
      <4>3. (a + i) * d = (a + (i - 1)) * d + d
        OBVIOUS
      <4>4. (a + n) * d = (a + i) * d + (n - i) * d
        OBVIOUS
      <4> DEFINE p == (i - 1) * d
                 q == (n - i) * d
                 u == (a + n) * d
      <4>5. p \in Int /\ q \in Int /\ u \in Int /\ p >= 0 /\ q >= 0 /\ x \in Int /\ y \in Int /\ z \in Int
        BY <4>1
      <4>6. y = x + p /\ z = y + d /\ u = z + q /\ x >= 0
        BY <4>1, <4>2, <4>3, <4>4
      <4>7. u <= Len(text)
        OBVIOUS
      <4> HIDE DEF p, q, u, x, y, z
      <4>8. QED
        BY <4>5, <4>6, <4>7
    <3>2. seqs[i] = SubSeq(text, y + 1, z)
      OBVIOUS
    <3> HIDE DEF x, y, z
    <3>3. SubSeq(text, x + 1, y) \o SubSeq(text, y + 1, z) = SubSeq(text, x + 1, z)
      BY <3>1, PartsJoin
    <3>4. QED
      BY <3>2, <3>3 DEF x, y, z
  <2>3. Is(g)
    <3>1. ASSUME NEW i \in 1 .. n
          PROVE  part(i) = IF i = 1 THEN seqs[i] ELSE g[i - 1] \o seqs[i]
      <4>1. CASE i = 1
        BY <2>1, <4>1
      <4>2. CASE i # 1
        <5>1. i - 1 \in 1 .. n
          BY <4>2
        <5> HIDE DEF part
        <5>2. g[i - 1] = part(i - 1)
          BY <5>1
        <5>3. QED
          BY <2>2, <4>2, <5>2
      <4>3. QED
        BY <4>1, <4>2
    <3> HIDE DEF part
    <3>2. QED
      BY <3>1
  <2>4. Is(f)
    <3> HIDE DEF Is, g
    <3>1. QED
      BY <2>3
  <2>5. FlattenSeq(seqs) = f[n]
    BY <1>0, <1>2 DEF FlattenSeq
  <2> HIDE DEF f, part, g
  <2> DEFINE same == {i \in 0 .. n : i > 0 => f[i] = part(i)}
  <2>6. 0 \in same
    OBVIOUS
  <2>7. ASSUME NEW i \in 0 .. n - 1, i \in same
        PROVE  i + 1 \in same
    <3>1. i + 1 \in 1 .. n /\ (i + 1) - 1 = i
      OBVIOUS
    <3>2. f[i + 1] = IF i + 1 = 1 THEN seqs[i + 1] ELSE f[(i + 1) - 1] \o seqs[i + 1]
      BY <2>4, <3>1
    <3>3. ASSUME i = 0 PROVE f[i + 1] = part(i + 1)
      <4>1. i + 1 = 1
        BY <3>3
      <4>2. QED
        BY <2>1, <3>2, <4>1
    <3>4. ASSUME i > 0 PROVE f[i + 1] = part(i + 1)
      <4>1. f[i] = part(i) /\ i + 1 # 1
        BY <2>7, <3>4
      <4>2. part(i + 1) = part(i) \o seqs[i + 1]
        BY <2>2, <3>1, <4>1
      <4>3. f[(i + 1) - 1] = f[i]
        BY <3>1
      <4>4. QED
        BY <3>2, <4>1, <4>2, <4>3
    <3>5. f[i + 1] = part(i + 1)
      BY <3>3, <3>4
    <3>6. QED
      BY <3>1, <3>5
  <2>8. n \in same
    <3> HIDE DEF same
    <3>1. \A i \in 0 .. n - 1 : i \in same => i + 1 \in same
      BY <2>7
    <3>2. n \in 0 .. n
      OBVIOUS
    <3>3. QED
      BY <2>6, <3>1, <3>2, UpTo
  <2>9. f[n] = part(n)
    BY <1>2, <2>8
  <2>10. QED
    BY <2>5, <2>9 DEF part
<1>3. QED
  BY <1>1, <1>2

(* What is read at an index is the token that was pushed so many after the *)
(* oldest that is left.                                                    *)
LEMMA TokenIsAtItsPlace ==
  ASSUME NEW c \in Nat \ {0}, NEW elements \in Seq(Int), NEW w \in Nat, w * Stride <= Len(elements),
         NEW r, Pushed(r, c, elements, w), NEW i \in 0 .. r.len - 1
  PROVE  LET t == (w - r.len) + i
         IN t \in Nat /\ TokenAt(r, i) = SubSeq(elements, t * Stride + 1, (t + 1) * Stride)
<1> DEFINE d == Stride
           t == (w - r.len) + i
           slot == t % c
<1>1. d \in Nat \ {0} /\ i \in Nat
  BY StrideAssumption DEF Pushed, HoldsTokens
<1>2. /\ r.data \in [1 .. c * d -> Int] /\ r.capacity = c /\ r.head = w % c
      /\ r.len = (IF w < c THEN w ELSE c) /\ r.len \in 0 .. c
  BY DEF Pushed, HoldsTokens, Rings
<1>3. t \in 0 .. w - 1 /\ t >= w - c
  BY <1>1, <1>2
<1>4. (Oldest(r) + i) % c = slot
  <2>1. CASE w < c
    BY <1>1, <1>2, <2>1 DEF Oldest
  <2>2. CASE w >= c
    <3>1. Oldest(r) = w % c /\ t = (w - c) + i
      BY <1>2, <2>2 DEF Oldest
    <3>2. ((w % c) + i) % c = ((w - c) + i) % c
      BY <1>1, <2>2, SameRemainder
    <3>3. QED
      BY <3>1, <3>2
  <2>3. QED
    BY <2>1, <2>2
<1>5. slot \in 0 .. c - 1
  BY <1>3
<1>6. TokenAt(r, i) = SubSeq(r.data, slot * d + 1, (slot + 1) * d)
  BY <1>2, <1>4 DEF TokenAt
<1>7. \A e \in 1 .. d : r.data[slot * d + e] = elements[t * d + e]
  BY <1>3 DEF Pushed, HoldsTokens
<1> HIDE DEF slot, t
<1> DEFINE x == slot * d
           y == t * d
<1>8. x \in Nat /\ x + d <= c * d /\ (slot + 1) * d = x + d
  <2>1. (c - (slot + 1)) * d >= 0 /\ slot * d >= 0
    BY <1>1, <1>5
  <2>2. (c - (slot + 1)) * d = c * d - (slot + 1) * d /\ (slot + 1) * d = slot * d + d
    BY <1>1, <1>5
  <2>3. QED
    BY <1>1, <1>5, <2>1, <2>2
<1>9. y \in Nat /\ y + d <= Len(elements) /\ (t + 1) * d = y + d
  <2>1. (w - (t + 1)) * d >= 0 /\ t * d >= 0
    BY <1>1, <1>3
  <2>2. (w - (t + 1)) * d = w * d - (t + 1) * d /\ (t + 1) * d = t * d + d
    BY <1>1, <1>3
  <2>3. QED
    BY <1>1, <1>3, <2>1, <2>2
<1>10. \A e \in 1 .. d : r.data[x + e] = elements[y + e]
  BY <1>7
<1> DEFINE cd == c * d
<1>11. r.data \in [1 .. cd -> Int] /\ cd \in Nat /\ x + d <= cd
  BY <1>1, <1>2, <1>8
<1> HIDE DEF x, y, cd, d
<1>12. SubSeq(r.data, x + 1, x + d) = SubSeq(elements, y + 1, y + d)
  <2> DEFINE data == r.data
             p == SubSeq(data, x + 1, x + d)
             q == SubSeq(elements, y + 1, y + d)
  <2>1. data \in Seq(Int) /\ Len(data) = cd
    BY <1>11
  <2>2. \A e \in 1 .. d : data[x + e] = elements[y + e]
    BY <1>10
  <2> HIDE DEF data
  <2>3. p \in Seq(Int) /\ Len(p) = d /\ \A e \in 1 .. d : p[e] = data[x + e]
    <3> DEFINE a == x + 1
               z == x + d
    <3>1. a \in Nat \ {0} /\ z \in Nat /\ z <= Len(data) /\ z - a + 1 = d /\ d \in Nat \ {0} /\ a <= z
      BY <1>1, <1>8, <1>11, <2>1
    <3>2. \A e \in 1 .. d : a + e - 1 = x + e
      BY <1>1, <1>8
    <3> HIDE DEF a, z
    <3>3. SubSeq(data, a, z) \in Seq(Int) /\ Len(SubSeq(data, a, z)) = d
      BY <2>1, <3>1
    <3>4. \A e \in 1 .. d : SubSeq(data, a, z)[e] = data[a + e - 1]
      BY <2>1, <3>1
    <3>5. QED
      BY <3>2, <3>3, <3>4 DEF a, z
  <2>4. q \in Seq(Int) /\ Len(q) = d /\ \A e \in 1 .. d : q[e] = elements[y + e]
    BY <1>1, <1>9
  <2> HIDE DEF p, q
  <2>5. p = q
    BY <1>1, <2>2, <2>3, <2>4, SeqEqual
  <2>6. QED
    BY <2>5 DEF p, q, data
<1>13. TokenAt(r, i) = SubSeq(elements, y + 1, y + d)
  BY <1>6, <1>8, <1>12 DEF x
<1>14. TokenAt(r, i) = SubSeq(elements, t * Stride + 1, (t + 1) * Stride)
  BY <1>9, <1>13 DEF y, d
<1>15. t \in Nat
  BY <1>3
<1>16. QED
  BY <1>14, <1>15 DEF t

(* The copy is the latest whole tokens. *)
LEMMA CopyIsLatest ==
  ASSUME NEW c \in Nat \ {0}, NEW elements \in Seq(Int), NEW room \in Nat, NEW r,
         Pushed(r, c, elements, Len(elements) \div Stride)
  PROVE  LET whole == Len(elements) - (Len(elements) % Stride)
             kept == IF whole < c * Stride THEN whole ELSE c * Stride
         IN /\ r.len * Stride = kept
            /\ Copy(r, room).ok => Copy(r, room).out = SubSeq(elements, whole - kept + 1, whole)
<1> DEFINE d == Stride
           len == Len(elements)
           w == len \div d
           whole == len - (len % d)
           kept == IF whole < c * d THEN whole ELSE c * d
           n == r.len
           a == w - n
<1>1. d \in Nat \ {0} /\ len \in Nat
  BY StrideAssumption
<1>2. whole = w * d /\ w \in Int /\ whole <= len /\ whole >= 0
  BY <1>1
<1>3. w \in Nat
  <2>1. CASE w <= -1
    <3>1. w * d <= -d
      BY <1>1, <1>2, <2>1
    <3>2. QED
      BY <3>1, <1>1, <1>2
  <2>2. QED
    BY <2>1, <1>2
<1>4. n = (IF w < c THEN w ELSE c) /\ n \in Nat /\ r.capacity = c
  BY <1>3 DEF Pushed, HoldsTokens, Rings
<1>5. n * d = kept
  <2> HIDE DEF d, w, whole, n
  <2>1. CASE w < c
    <3>1. (c - w) * d > 0 /\ (c - w) * d = c * d - w * d
      BY <1>1, <1>3, <2>1
    <3>2. QED
      BY <1>1, <1>2, <1>3, <1>4, <2>1, <3>1
  <2>2. CASE w >= c
    <3>1. (w - c) * d >= 0 /\ (w - c) * d = w * d - c * d
      BY <1>1, <1>3, <2>2
    <3>2. QED
      BY <1>1, <1>2, <1>3, <1>4, <2>2, <3>1
  <2>3. QED
    BY <1>3, <2>1, <2>2
<1>6. a \in Nat /\ a + n = w /\ a * d = whole - kept
  <2> HIDE DEF d, w, whole, n, kept
  <2>1. a \in Nat /\ a + n = w
    BY <1>3, <1>4
  <2>2. (w - n) * d = w * d - n * d
    BY <1>1, <1>3, <1>4
  <2>3. QED
    BY <1>2, <1>5, <2>1, <2>2
<1>7. ASSUME Copy(r, room).ok
      PROVE  Copy(r, room).out = SubSeq(elements, whole - kept + 1, whole)
  <2> DEFINE seqs == [i \in 1 .. n |-> TokenAt(r, i - 1)]
  <2>1. Copy(r, room).out = FlattenSeq(seqs)
    BY <1>7 DEF Copy
  <2>2. ASSUME NEW i \in 1 .. n
        PROVE  seqs[i] = SubSeq(elements, (a + (i - 1)) * d + 1, (a + i) * d) /\ seqs[i] \in Seq(Int)
    <3>1. w * Stride <= Len(elements) /\ i - 1 \in 0 .. r.len - 1 /\ seqs[i] = TokenAt(r, i - 1)
      BY <1>2, <1>4
    <3>2. LET t == (w - r.len) + (i - 1)
          IN t \in Nat /\ TokenAt(r, i - 1) = SubSeq(elements, t * Stride + 1, (t + 1) * Stride)
      BY <1>3, <3>1, TokenIsAtItsPlace
    <3>3. (a + (i - 1)) + 1 = a + i
      BY <1>4, <1>6
    <3>4. seqs[i] = SubSeq(elements, (a + (i - 1)) * d + 1, (a + i) * d)
      BY <3>1, <3>2, <3>3
    <3> DEFINE x == (a + (i - 1)) * d
               y == (a + i) * d
    <3>5. x \in Nat /\ y \in Nat /\ y <= Len(elements)
      <4> HIDE DEF a, n, d, w, whole, kept
      <4>1. (a + (i - 1)) * d >= 0 /\ (a + i) * d >= 0 /\ (n - i) * d >= 0
        BY <1>1, <1>4, <1>6
      <4>2. (n - i) * d = (a + n) * d - (a + i) * d
        BY <1>1, <1>4, <1>6
      <4>3. (a + n) * d = whole
        BY <1>2, <1>6
      <4>4. QED
        BY <1>1, <1>2, <1>4, <1>6, <4>1, <4>2, <4>3 DEF len
    <3> HIDE DEF x, y
    <3>6. SubSeq(elements, x + 1, y) \in Seq(Int)
      <4>1. \A k \in x + 1 .. y : elements[k] \in Int
        BY <3>5
      <4>2. QED
        BY <3>5, <4>1
    <3>7. QED
      BY <3>4, <3>6 DEF x, y
  <2>3. (a + n) * d = whole /\ whole <= Len(elements)
    BY <1>2, <1>6
  <2>4. DOMAIN seqs = 1 .. n /\ seqs \in Seq(Seq(Int))
    <3>1. DOMAIN seqs = 1 .. n /\ \A i \in 1 .. n : seqs[i] = TokenAt(r, i - 1)
      OBVIOUS
    <3>2. seqs = [i \in 1 .. n |-> seqs[i]]
      OBVIOUS
    <3> DEFINE S == Seq(Int)
    <3> HIDE DEF seqs, S
    <3>3. \A i \in 1 .. n : seqs[i] \in S
      BY <2>2 DEF S
    <3>4. n \in Nat
      BY <1>4
    <3> HIDE DEF n
    <3>5. seqs \in [1 .. n -> S]
      BY <3>2, <3>3
    <3>6. seqs \in Seq(S)
      BY <3>4, <3>5, SeqDef
    <3>7. QED
      BY <3>1, <3>6 DEF S
  <2> HIDE DEF seqs, a, n, d, w, whole, kept
  <2>5. FlattenSeq(seqs) = SubSeq(elements, a * d + 1, (a + n) * d)
    <3>1. d \in Nat \ {0} /\ n \in Nat /\ a \in Nat /\ (a + n) * d <= Len(elements)
      BY <1>1, <1>4, <1>6, <2>3
    <3>2. \A i \in 1 .. n : seqs[i] = TokensFrom(elements, a + (i - 1), 1, d)
      <4>1. \A i \in 1 .. n : (a + (i - 1)) + 1 = a + i
        BY <3>1
      <4>2. QED
        BY <2>2, <4>1 DEF TokensFrom
    <3>3. FlattenSeq(seqs) = TokensFrom(elements, a, n, d)
      <4> HIDE DEF len
      <4>1. QED
        BY <2>4, <3>1, <3>2, TokensJoin
    <3>4. QED
      BY <3>3 DEF TokensFrom
  <2>6. QED
    BY <1>6, <2>1, <2>3, <2>5
<1>8. QED
  BY <1>5, <1>7

-----------------------------------------------------------------------------
(* The log: the bytes offered that fit are in the buffer, and the others   *)
(* are counted.                                                            *)
LogHolds(l, o) ==
  /\ l \in [buffer : Seq(Int), len : Nat, dropped : Nat]
  /\ o \in Seq(Int)
  /\ l.len <= Len(l.buffer)
  /\ l.len + l.dropped = Len(o)
  /\ l.dropped > 0 => l.len = Len(l.buffer)
  /\ \A i \in 1 .. l.len : l.buffer[i] = o[i]

(* A log whose fields are replaced. *)
Relogged(l, p, q, s) == [l EXCEPT !.buffer = p, !.len = q, !.dropped = s]
Recounted(l, q, s) == [l EXCEPT !.len = q, !.dropped = s]

(* What is made of the fields, for a log that is written out.              *)
LEMMA ReloggedFields ==
  ASSUME NEW x, NEW y, NEW z, NEW p, NEW q, NEW s
  PROVE  Relogged([buffer |-> x, len |-> y, dropped |-> z], p, q, s) = [buffer |-> p, len |-> q, dropped |-> s]
<1>1. [[buffer |-> x, len |-> y, dropped |-> z] EXCEPT !.buffer = p] = [buffer |-> p, len |-> y, dropped |-> z]
  OBVIOUS
<1>2. [[buffer |-> p, len |-> y, dropped |-> z] EXCEPT !.len = q] = [buffer |-> p, len |-> q, dropped |-> z]
  OBVIOUS
<1>3. [[buffer |-> p, len |-> q, dropped |-> z] EXCEPT !.dropped = s] = [buffer |-> p, len |-> q, dropped |-> s]
  OBVIOUS
<1>4. QED
  BY <1>1, <1>2, <1>3 DEF Relogged

LEMMA RecountedFields ==
  ASSUME NEW x, NEW y, NEW z, NEW q, NEW s
  PROVE  Recounted([buffer |-> x, len |-> y, dropped |-> z], q, s) = [buffer |-> x, len |-> q, dropped |-> s]
<1>1. [[buffer |-> x, len |-> y, dropped |-> z] EXCEPT !.len = q] = [buffer |-> x, len |-> q, dropped |-> z]
  OBVIOUS
<1>2. [[buffer |-> x, len |-> q, dropped |-> z] EXCEPT !.dropped = s] = [buffer |-> x, len |-> q, dropped |-> s]
  OBVIOUS
<1>3. QED
  BY <1>1, <1>2 DEF Recounted

(* What write_str makes of a log, field by field.                          *)
LEMMA WriteFields ==
  ASSUME NEW x, NEW y, NEW z, NEW bytes
  PROVE  LET a == Len(x) - y
             w == IF Len(bytes) < a THEN Len(bytes) ELSE a
         IN WriteBytes([buffer |-> x, len |-> y, dropped |-> z], bytes) =
              [buffer |-> Overwrite(x, y, SubSeq(bytes, 1, w)), len |-> y + w, dropped |-> z + Len(bytes) - w]
<1> DEFINE l == [buffer |-> x, len |-> y, dropped |-> z]
           a == Len(x) - y
           w == IF Len(bytes) < a THEN Len(bytes) ELSE a
           p == Overwrite(x, y, SubSeq(bytes, 1, w))
           q == y + w
           s == z + Len(bytes) - w
<1>1. l.buffer = x /\ l.len = y /\ l.dropped = z
  OBVIOUS
<1>2. WriteBytes(l, bytes) = Relogged(l, p, q, s)
  <2> HIDE DEF l
  <2>1. QED
    BY <1>1 DEF WriteBytes, Relogged
<1> HIDE DEF p, q, s
<1>3. Relogged([buffer |-> x, len |-> y, dropped |-> z], p, q, s) = [buffer |-> p, len |-> q, dropped |-> s]
  BY ReloggedFields
<1>4. QED
  BY <1>2, <1>3 DEF p, q, s

(* It keeps the log right: what is in it is the start of what was offered, *)
(* and what is not in it is counted.                                       *)
LEMMA WriteKeeps ==
  ASSUME NEW l, NEW o, LogHolds(l, o), NEW bytes \in Seq(Int)
  PROVE  LogHolds(WriteBytes(l, bytes), o \o bytes)
<1> DEFINE available == Len(l.buffer) - l.len
           written == IF Len(bytes) < available THEN Len(bytes) ELSE available
           part == SubSeq(bytes, 1, written)
           buffer == Overwrite(l.buffer, l.len, part)
           len == l.len + written
           dropped == l.dropped + Len(bytes) - written
           all == o \o bytes
<1>1. /\ l.buffer \in Seq(Int) /\ l.len \in Nat /\ l.dropped \in Nat /\ o \in Seq(Int)
      /\ l.len <= Len(l.buffer) /\ l.len + l.dropped = Len(o)
      /\ l.dropped > 0 => l.len = Len(l.buffer)
      /\ \A i \in 1 .. l.len : l.buffer[i] = o[i]
  BY DEF LogHolds
<1>2. WriteBytes(l, bytes) = [buffer |-> buffer, len |-> len, dropped |-> dropped]
  <2> DEFINE x == l.buffer
             y == l.len
             z == l.dropped
  <2>1. l = [buffer |-> x, len |-> y, dropped |-> z]
    BY DEF LogHolds
  <2> HIDE DEF x, y, z
  <2>2. LET a == Len(x) - y
            w == IF Len(bytes) < a THEN Len(bytes) ELSE a
        IN WriteBytes([buffer |-> x, len |-> y, dropped |-> z], bytes) =
             [buffer |-> Overwrite(x, y, SubSeq(bytes, 1, w)), len |-> y + w, dropped |-> z + Len(bytes) - w]
    BY WriteFields
  <2>3. QED
    BY <2>1, <2>2 DEF x, y, z
<1> DEFINE b == l.buffer
           n == l.len
           m == l.dropped
<1>3. /\ b \in Seq(Int) /\ n \in Nat /\ m \in Nat /\ n <= Len(b) /\ n + m = Len(o) /\ Len(b) \in Nat
      /\ m > 0 => n = Len(b)
      /\ \A i \in 1 .. n : b[i] = o[i]
  BY <1>1
<1>4. /\ available = Len(b) - n /\ buffer = Overwrite(b, n, part)
      /\ len = n + written /\ dropped = m + Len(bytes) - written
  OBVIOUS
<1>5. Len(bytes) \in Nat /\ Len(o) \in Nat
  OBVIOUS
<1> HIDE DEF b, n, m
<1>6. written \in Nat /\ written <= Len(bytes) /\ n + written <= Len(b)
      /\ (written < Len(bytes) => n + written = Len(b))
  BY <1>3, <1>4, <1>5
<1> HIDE DEF written, available
<1>7. part \in Seq(Int) /\ Len(part) = written /\ \A i \in 1 .. written : part[i] = bytes[i]
  BY <1>5, <1>6
<1> HIDE DEF part
<1>8. buffer \in Seq(Int) /\ Len(buffer) = Len(b)
      /\ \A i \in 1 .. Len(b) : buffer[i] = IF i \in n + 1 .. n + written THEN part[i - n] ELSE b[i]
  <2>1. \A i \in 1 .. Len(b) : i \in n + 1 .. n + written => part[i - n] \in Int
    <3>1. \A i \in n + 1 .. n + written : i - n \in 1 .. written
      BY <1>3, <1>6
    <3>2. \A k \in 1 .. written : part[k] \in Int
      BY <1>6, <1>7
    <3>3. QED
      BY <3>1, <3>2
  <2>2. b \in [1 .. Len(b) -> Int] /\ DOMAIN b = 1 .. Len(b)
    BY <1>3
  <2>3. buffer = [i \in 1 .. Len(b) |-> IF i \in n + 1 .. n + written THEN part[i - n] ELSE b[i]]
    BY <1>4, <1>7, <2>2 DEF Overwrite
  <2> HIDE DEF buffer
  <2>4. buffer \in [1 .. Len(b) -> Int]
    BY <2>1, <2>2, <2>3
  <2>5. buffer \in Seq(Int)
    BY <1>3, <2>4, SeqDef
  <2>6. QED
    BY <1>3, <2>3, <2>4, <2>5
<1>9. /\ all \in Seq(Int) /\ Len(all) = Len(o) + Len(bytes)
      /\ \A i \in 1 .. Len(o) + Len(bytes) : all[i] = IF i <= Len(o) THEN o[i] ELSE bytes[i - Len(o)]
  BY <1>1, ConcatProperties
<1> HIDE DEF buffer, len, dropped, all
<1>10. ASSUME NEW i \in 1 .. n + written
       PROVE  buffer[i] = all[i]
  <2>1. i \in 1 .. Len(b) /\ i \in Nat
    BY <1>3, <1>6
  <2>2. CASE i <= n
    <3>1. buffer[i] = b[i] /\ b[i] = o[i]
      BY <1>3, <1>8, <2>1, <2>2
    <3>2. all[i] = o[i]
      BY <1>3, <1>5, <1>9, <2>1, <2>2
    <3>3. QED
      BY <3>1, <3>2
  <2>3. CASE i > n
    <3>1. n = Len(o)
      BY <1>3, <1>6, <2>1, <2>3
    <3>2. i - n \in 1 .. written
      BY <1>3, <1>6, <2>1, <2>3
    <3>3. buffer[i] = part[i - n]
      <4>1. i \in n + 1 .. n + written
        BY <1>3, <1>6, <2>1, <2>3
      <4>2. QED
        BY <1>8, <2>1, <4>1
    <3>4. all[i] = bytes[i - n]
      <4>1. i \in 1 .. Len(o) + Len(bytes) /\ ~ (i <= Len(o))
        BY <1>3, <1>5, <1>6, <2>1, <2>3, <3>1
      <4>2. all[i] = bytes[i - Len(o)]
        BY <1>9, <4>1
      <4>3. QED
        BY <3>1, <4>2
    <3>5. QED
      BY <1>7, <3>2, <3>3, <3>4
  <2>4. QED
    BY <1>3, <2>1, <2>2, <2>3
<1>11. len \in Nat /\ dropped \in Nat /\ len = n + written /\ dropped = m + Len(bytes) - written
  BY <1>3, <1>4, <1>5, <1>6
<1>12. len + dropped = Len(all)
  <2>1. n + m = Len(o) /\ n \in Nat /\ m \in Nat /\ written \in Nat /\ Len(all) = Len(o) + Len(bytes)
    BY <1>3, <1>6, <1>9
  <2>2. QED
    BY <1>5, <1>11, <2>1
<1>13. dropped > 0 => len = Len(buffer)
  BY <1>3, <1>5, <1>6, <1>8, <1>11
<1> DEFINE new == WriteBytes(l, bytes)
<1>14. /\ new = [buffer |-> buffer, len |-> len, dropped |-> dropped]
       /\ new.buffer = buffer /\ new.len = len /\ new.dropped = dropped
  BY <1>2
<1> HIDE DEF new
<1>15. new \in [buffer : Seq(Int), len : Nat, dropped : Nat]
  BY <1>8, <1>11, <1>14
<1>16. LogHolds(new, all)
  BY <1>6, <1>8, <1>9, <1>10, <1>11, <1>12, <1>13, <1>14, <1>15 DEF LogHolds
<1>17. QED
  BY <1>16 DEF new, all

(* What a run writes are bytes.                                            *)
LEMMA BytesAreNew ==
  ASSUME NEW n \in Nat, offered \in Seq(Int)
  PROVE  NewBytes(n) \in Seq(Int) /\ Len(NewBytes(n)) = n
<1>1. NewBytes(n) \in [1 .. n -> Int] /\ DOMAIN NewBytes(n) = 1 .. n
  BY DEF NewBytes
<1>2. NewBytes(n) \in Seq(Int)
  BY <1>1, SeqDef
<1>3. QED
  BY <1>1, <1>2

-----------------------------------------------------------------------------
(* Before the cache is copied from, its ring is as it was made, for a call *)
(* is on a new one; after it, the ring holds the whole tokens of the call  *)
(* and the copy is what Copy makes of the ring.                            *)
Emptied(c) == [data |-> Blank(c * Stride), capacity |-> c, head |-> 0, len |-> 0]

(* The invariant of the buffers: the log is right, and a cache that was    *)
(* asked holds the whole tokens of the call.                               *)
BuffersHold ==
  /\ LogHolds(log, offered)
  /\ ~copied.asked => \E c \in Capacities : ring = Emptied(c)
  /\ copied.asked =>
       /\ tokens \in Seq(Int)
       /\ \E c \in Capacities : Pushed(ring, c, tokens, Len(tokens) \div Stride)
       /\ \E room \in Nat : copied = Copy(ring, room)

(* It holds at the start, ...                                              *)
LEMMA BuffersStart == BuffersInit => BuffersHold
<1> SUFFICES ASSUME BuffersInit PROVE BuffersHold
  OBVIOUS
<1>1. PICK c \in Capacities :
        /\ ring = [data |-> Blank(c * Stride), capacity |-> c, head |-> 0, len |-> 0]
        /\ copied = [asked |-> FALSE, ok |-> FALSE, out |-> <<>>]
        /\ log = [buffer |-> Blank(c), len |-> 0, dropped |-> 0] /\ offered = <<>>
  BY DEF BuffersInit
<1>2. c \in Nat
  BY CapacitiesAssumption
<1>3. Blank(c) \in Seq(Int)
  <2>1. Blank(c) \in [1 .. c -> Int]
    BY DEF Blank
  <2>2. QED
    BY <1>2, <2>1, SeqDef
<1>4. LogHolds(log, offered)
  <2> DEFINE b == Blank(c)
  <2>1. log = [buffer |-> b, len |-> 0, dropped |-> 0] /\ b \in Seq(Int) /\ Len(b) \in Nat
    BY <1>1, <1>3
  <2> HIDE DEF b
  <2>2. QED
    BY <1>1, <2>1 DEF LogHolds
<1>5. QED
  BY <1>1, <1>4 DEF BuffersHold, Emptied

(* ... every call keeps it, ...                                            *)
LEMMA BuffersStay == BuffersHold /\ [BuffersNext]_buffers => BuffersHold'
<1> SUFFICES ASSUME BuffersHold, [BuffersNext]_buffers
             PROVE  BuffersHold'
  OBVIOUS
<1>1. CASE UNCHANGED buffers
  BY <1>1 DEF BuffersHold, buffers, LogHolds, Pushed, HoldsTokens, Copy, Oldest, TokenAt
<1>2. ASSUME CachePush
      PROVE  BuffersHold'
  <2>1. PICK n \in 0 .. MaxTokens, room \in 0 .. ring.capacity * Stride :
          /\ tokens' = [i \in 1 .. n |-> i]
          /\ ring' = FoldLeft(PushToken, ring, Chunks(tokens'))
          /\ copied' = Copy(ring', room)
    BY <1>2 DEF CachePush
  <2>2. PICK c \in Capacities : ring = Emptied(c)
    BY <1>2 DEF BuffersHold, CachePush
  <2>3. c \in Nat \ {0} /\ Stride \in Nat \ {0} /\ n \in Nat
    BY CapacitiesAssumption, StrideAssumption, WrittenAssumption
  <2>4. tokens' \in Seq(Int)
    <3>1. tokens' \in [1 .. n -> Int]
      BY <2>1
    <3>2. QED
      BY <2>3, <3>1, SeqDef
  <2>5. Pushed(ring', c, tokens', Len(tokens') \div Stride)
    <3> DEFINE t == tokens'
    <3>1. t \in Seq(Int) /\ ring' = FoldLeft(PushToken, Emptied(c), Chunks(t))
      BY <2>1, <2>2, <2>4
    <3> HIDE DEF t
    <3>2. Pushed(FoldLeft(PushToken, Emptied(c), Chunks(t)), c, t, Len(t) \div Stride)
      BY <2>3, <3>1, CallPushesTokens DEF Emptied
    <3>3. QED
      BY <3>1, <3>2 DEF t
  <2>6. room \in Nat
    BY <2>1, <2>2 DEF Emptied
  <2>7. copied'.asked
    BY <2>1 DEF Copy
  <2>8. (\E k \in Capacities : Pushed(ring, k, tokens, Len(tokens) \div Stride))'
    BY <2>5
  <2>9. (\E k \in Nat : copied = Copy(ring, k))'
    BY <2>1, <2>6
  <2>10. LogHolds(log, offered)'
    BY <1>2 DEF BuffersHold, CachePush
  <2>11. QED
    BY <2>4, <2>7, <2>8, <2>9, <2>10 DEF BuffersHold
<1>3. ASSUME UNCHANGED <<ring, tokens, copied>>, LogHolds(log', offered')
      PROVE  BuffersHold'
  BY <1>3 DEF BuffersHold
<1>4. LogHolds(log, offered) /\ offered \in Seq(Int)
  BY DEF BuffersHold, LogHolds
<1>5. ASSUME Write PROVE LogHolds(log', offered')
  <2>1. PICK n \in 0 .. MaxLogged - Len(offered) :
          log' = WriteBytes(log, NewBytes(n)) /\ offered' = offered \o NewBytes(n)
    BY <1>5 DEF Write
  <2>2. NewBytes(n) \in Seq(Int)
    BY <1>4, BytesAreNew
  <2>3. QED
    BY <1>4, <2>1, <2>2, WriteKeeps
<1>6. ASSUME WriteFmt PROVE LogHolds(log', offered')
  <2>1. PICK m \in 1 .. MaxLogged - Len(offered) : \E n \in 1 .. MaxLogged - Len(offered) - m :
       LET first == WriteBytes(log, NewBytes(m))
           both == SubSeq(NewBytes(m + n), m + 1, m + n)
       IN IF first.dropped > log.dropped
          THEN log' = first /\ offered' = offered \o NewBytes(m)
          ELSE log' = WriteBytes(first, both) /\ offered' = offered \o NewBytes(m + n)
    BY <1>6 DEF WriteFmt
  <2>2. PICK n \in 1 .. MaxLogged - Len(offered) - m :
       LET first == WriteBytes(log, NewBytes(m))
           both == SubSeq(NewBytes(m + n), m + 1, m + n)
       IN IF first.dropped > log.dropped
          THEN log' = first /\ offered' = offered \o NewBytes(m)
          ELSE log' = WriteBytes(first, both) /\ offered' = offered \o NewBytes(m + n)
    BY <2>1
  <2> DEFINE one == NewBytes(m)
             whole == NewBytes(m + n)
             two == SubSeq(whole, m + 1, m + n)
             first == WriteBytes(log, one)
  <2>3. m \in Nat \ {0} /\ n \in Nat \ {0} /\ m + n \in Nat
    <3>1. MaxLogged - Len(offered) \in Int
      BY <1>4, WrittenAssumption
    <3>2. QED
      BY <3>1
  <2>4. one \in Seq(Int) /\ whole \in Seq(Int) /\ Len(whole) = m + n
    BY <1>4, <2>3, BytesAreNew
  <2>5. LogHolds(first, offered \o one)
    BY <1>4, <2>4, WriteKeeps
  <2>6. two \in Seq(Int) /\ one \o two = whole
    <3>1. one = SubSeq(whole, 1, m)
      <4>1. whole = [i \in 1 .. m + n |-> Len(offered) + i] /\ one = [i \in 1 .. m |-> Len(offered) + i]
        BY DEF NewBytes
      <4>2. SubSeq(whole, 1, m) = [i \in 1 .. m |-> whole[i]]
        <5> HIDE DEF whole, one
        <5>1. QED
          BY <2>3, <2>4
      <4>3. \A i \in 1 .. m : whole[i] = Len(offered) + i
        BY <2>3, <4>1
      <4> HIDE DEF whole, one
      <4>4. QED
        BY <4>1, <4>2, <4>3
    <3> HIDE DEF whole, one
    <3>2. SubSeq(whole, 1, m) \o SubSeq(whole, m + 1, m + n) = SubSeq(whole, 1, m + n)
      <4>1. 1 \in 1 .. Len(whole) + 1 /\ m \in 1 - 1 .. Len(whole) /\ m + n \in m .. Len(whole)
        BY <2>3, <2>4
      <4>2. QED
        BY <2>4, <4>1, ConcatAdjacentSubSeq
    <3>3. SubSeq(whole, 1, m + n) = whole /\ two \in Seq(Int)
      BY <2>3, <2>4
    <3>4. QED
      BY <3>1, <3>2, <3>3
  <2>7. CASE first.dropped > log.dropped
    BY <2>2, <2>5, <2>7
  <2>8. CASE ~ (first.dropped > log.dropped)
    <3>1. log' = WriteBytes(first, two) /\ offered' = offered \o whole
      BY <2>2, <2>8
    <3> HIDE DEF one, two, whole, first
    <3>2. LogHolds(WriteBytes(first, two), (offered \o one) \o two)
      BY <2>5, <2>6, WriteKeeps
    <3>3. (offered \o one) \o two = offered \o whole
      <4>1. offered \in Seq(Int) /\ one \in Seq(Int) /\ two \in Seq(Int)
        BY <1>4, <2>4, <2>6
      <4>2. (offered \o one) \o two = offered \o (one \o two)
        BY <4>1, ConcatAssociative
      <4>3. QED
        BY <2>6, <4>2
    <3>4. QED
      BY <3>1, <3>2, <3>3
  <2>9. QED
    BY <2>7, <2>8
<1>7. ASSUME Clear PROVE LogHolds(log', offered')
  <2>1. log' = [log EXCEPT !.len = 0, !.dropped = 0] /\ offered' = <<>>
    BY <1>7 DEF Clear
  <2> DEFINE b == log.buffer
             y == log.len
             z == log.dropped
  <2>2. b \in Seq(Int) /\ log = [buffer |-> b, len |-> y, dropped |-> z]
    BY <1>4 DEF LogHolds
  <2> HIDE DEF b, y, z
  <2>3. log' = [buffer |-> b, len |-> 0, dropped |-> 0] /\ Len(b) \in Nat
    <3>1. Recounted([buffer |-> b, len |-> y, dropped |-> z], 0, 0) = [buffer |-> b, len |-> 0, dropped |-> 0]
      BY RecountedFields
    <3>2. log' = Recounted(log, 0, 0)
      BY <2>1 DEF Recounted
    <3>3. QED
      BY <2>2, <3>1, <3>2
  <2>4. QED
    BY <2>1, <2>2, <2>3 DEF LogHolds
<1>8. CASE BuffersNext
  <2>1. CASE CachePush
    BY <1>2, <2>1
  <2>2. CASE Write
    BY <1>3, <1>5, <2>2 DEF Write
  <2>3. CASE WriteFmt
    BY <1>3, <1>6, <2>3 DEF WriteFmt
  <2>4. CASE Clear
    BY <1>3, <1>7, <2>4 DEF Clear
  <2>5. QED
    BY <1>8, <2>1, <2>2, <2>3, <2>4 DEF BuffersNext
<1>9. QED
  BY <1>1, <1>8

(* ... and it gives what the run checks.                                   *)
LEMMA BuffersKeepParts == BuffersHold => BuffersKeepTheirPart
<1> SUFFICES ASSUME BuffersHold PROVE BuffersKeepTheirPart
  OBVIOUS
<1>1. LogHolds(log, offered)
  BY DEF BuffersHold
<1>2. SubSeq(log.buffer, 1, log.len) = SubSeq(offered, 1, log.len)
  <2> DEFINE b == log.buffer
             n == log.len
             x == SubSeq(b, 1, n)
             y == SubSeq(offered, 1, n)
  <2>1. b \in Seq(Int) /\ n \in Nat /\ n <= Len(b) /\ offered \in Seq(Int) /\ n <= Len(offered)
        /\ \A i \in 1 .. n : b[i] = offered[i]
    BY <1>1 DEF LogHolds
  <2> HIDE DEF b, n
  <2>2. x \in Seq(Int) /\ Len(x) = n /\ \A i \in 1 .. n : x[i] = b[i]
    BY <2>1
  <2>3. y \in Seq(Int) /\ Len(y) = n /\ \A i \in 1 .. n : y[i] = offered[i]
    BY <2>1
  <2> HIDE DEF x, y
  <2>4. x = y
    BY <2>1, <2>2, <2>3, SeqEqual
  <2>5. QED
    BY <2>4 DEF x, y, b, n
<1>3. log.len + log.dropped = Len(offered) /\ (log.dropped > 0 => log.len = Len(log.buffer))
  BY <1>1 DEF LogHolds
<1>4. ASSUME copied.asked
      PROVE  LET whole == Len(tokens) - (Len(tokens) % Stride)
                 kept == IF whole < ring.capacity * Stride THEN whole ELSE ring.capacity * Stride
             IN /\ ring.len * Stride = kept
                /\ copied.ok => copied.out = SubSeq(tokens, whole - kept + 1, whole)
  <2>1. PICK c \in Capacities : Pushed(ring, c, tokens, Len(tokens) \div Stride)
    BY <1>4 DEF BuffersHold
  <2>2. PICK room \in Nat : copied = Copy(ring, room)
    BY <1>4 DEF BuffersHold
  <2>3. c \in Nat \ {0} /\ tokens \in Seq(Int) /\ ring.capacity = c
    BY <1>4, <2>1, CapacitiesAssumption DEF BuffersHold, Pushed, HoldsTokens, Rings
  <2>4. QED
    BY <2>1, <2>2, <2>3, CopyIsLatest
<1>5. QED
  BY <1>2, <1>3, <1>4 DEF BuffersKeepTheirPart

-----------------------------------------------------------------------------
(* Sums over sets of positions, in whatever order. *)

IsSum(h, n, v) ==
  /\ h \in [SUBSET (1 .. n) -> Int]
  /\ h[{}] = 0
  /\ \A s \in SUBSET (1 .. n) : \A x \in s : h[s] = v[x] + h[s \ {x}]

(* A sum of every set of 1 .. n exists, built one element at a time.       *)
LEMMA SumExists ==
  ASSUME NEW n \in Nat, NEW v \in [1 .. n -> Int]
  PROVE  \E h : IsSum(h, n, v)
<1> DEFINE step == [p \in (1 .. n) \X Int |-> v[p[1]] + p[2]]
<1>1. step \in [(1 .. n) \X Int -> Int] /\ 0 \in Int
      /\ \A x \in 1 .. n, y \in Int : step[<<x, y>>] = v[x] + y
  OBVIOUS
<1> HIDE DEF step
<1>2. PICK h : IsFold(h, n, Int, 0, step)
  BY <1>1, FoldExists
<1>3. /\ h \in [SUBSET (1 .. n) -> Int] /\ h[{}] = 0
      /\ \A s \in SUBSET (1 .. n) : s # {} => Max(s) \in s /\ h[s] = v[Max(s)] + h[s \ {Max(s)}]
  <2>1. h \in [SUBSET (1 .. n) -> Int] /\ h[{}] = 0
    BY <1>2 DEF IsFold
  <2>2. ASSUME NEW s \in SUBSET (1 .. n), s # {}
        PROVE  Max(s) \in s /\ h[s] = v[Max(s)] + h[s \ {Max(s)}]
    <3> DEFINE m == Max(s)
    <3>1. m \in s /\ h[s] = step[<<m, h[s \ {m}]>>]
      BY <1>2, <2>2 DEF IsFold
    <3> HIDE DEF m
    <3>2. m \in 1 .. n /\ s \ {m} \in SUBSET (1 .. n)
      BY <3>1
    <3>3. h[s \ {m}] \in Int
      BY <2>1, <3>2
    <3>4. h[s] = v[m] + h[s \ {m}]
      BY <1>1, <3>1, <3>2, <3>3
    <3>5. QED
      BY <3>1, <3>4 DEF m
  <2>3. QED
    BY <2>1, <2>2
<1> DEFINE done == {k \in 0 .. n : \A s \in SUBSET (1 .. k) : \A x \in s : h[s] = v[x] + h[s \ {x}]}
<1>4. 0 \in done
  <2>1. 1 .. 0 = {}
    OBVIOUS
  <2>2. QED
    BY <2>1
<1>5. ASSUME NEW k \in 0 .. n - 1, k \in done
      PROVE  k + 1 \in done
  <2>1. k \in Nat /\ k + 1 \in 1 .. n /\ k + 1 \in 0 .. n
    OBVIOUS
  <2>2. ASSUME NEW s \in SUBSET (1 .. k + 1), NEW x \in s
        PROVE  h[s] = v[x] + h[s \ {x}]
    <3> DEFINE m == k + 1
    <3>0. s \in SUBSET (1 .. n) /\ s \in SUBSET Nat /\ \A y \in s : y <= m
      BY <2>1
    <3>1. CASE m \notin s
      <4>1. s \in SUBSET (1 .. k)
        BY <2>1, <3>1
      <4>2. QED
        BY <1>5, <4>1
    <3>2. CASE m \in s
      <4> HIDE DEF m
      <4>1. Max(s) = m
        BY <3>0, <3>2, MaxIs
      <4>2. h[s] = v[m] + h[s \ {m}]
        BY <1>3, <3>0, <3>2, <4>1
      <4>3. CASE x = m
        BY <4>2, <4>3
      <4>4. CASE x # m
        <5> DEFINE a == s \ {m}
                   b == s \ {x}
                   c == a \ {x}
        <5>1. a \in SUBSET (1 .. k) /\ x \in a
          BY <2>1, <4>4 DEF m
        <5>2. h[a] = v[x] + h[c]
          BY <1>5, <5>1
        <5>3. b \in SUBSET (1 .. n) /\ b \in SUBSET Nat /\ m \in b /\ \A y \in b : y <= m
          BY <3>0, <3>2, <4>4
        <5>4. b \ {m} = c
          OBVIOUS
        <5> HIDE DEF a, b, c
        <5>5. Max(b) = m
          BY <5>3, MaxIs
        <5>6. h[b] = v[m] + h[c]
          BY <1>3, <5>3, <5>4, <5>5
        <5>7. h[s] = v[m] + h[a]
          BY <4>2 DEF a
        <5>8. v[m] \in Int /\ v[x] \in Int /\ h[c] \in Int
          <6>1. m \in 1 .. n /\ x \in 1 .. n /\ c \in SUBSET (1 .. n)
            BY <2>1, <3>0, <5>1 DEF m, a, c
          <6>2. QED
            BY <1>3, <6>1
        <5>9. h[s] = v[x] + h[b]
          BY <5>2, <5>6, <5>7, <5>8
        <5>10. QED
          BY <5>9 DEF b
      <4>5. QED
        BY <4>3, <4>4
    <3>3. QED
      BY <3>1, <3>2
  <2>3. QED
    BY <2>1, <2>2
<1>6. n \in done
  <2> HIDE DEF done
  <2>1. \A k \in 0 .. n - 1 : k \in done => k + 1 \in done
    BY <1>5
  <2>2. n \in 0 .. n
    OBVIOUS
  <2>3. QED
    BY <1>4, <2>1, <2>2, UpTo
<1>7. IsSum(h, n, v)
  BY <1>3, <1>6 DEF IsSum
<1>8. QED
  BY <1>7

(* A fold that takes an arbitrary element first, as those of the library   *)
(* do, gives the sum.                                                      *)
AddsUp(f, D, v) ==
  f = [s \in SUBSET D |-> IF s = {} THEN 0 ELSE v[CHOOSE x \in s : TRUE] + f[s \ {CHOOSE x \in s : TRUE}]]

(* The element that is taken first does not matter.                        *)
LEMMA SumInAnyOrder ==
  ASSUME NEW n \in Nat, NEW v \in [1 .. n -> Int], NEW h, IsSum(h, n, v), NEW D \in SUBSET (1 .. n), NEW f, AddsUp(f, D, v)
  PROVE  f[D] = h[D]
<1> USE DEF AddsUp
<1>1. \A s \in SUBSET D : IsFiniteSet(s)
  <2>1. IsFiniteSet(1 .. n)
    BY FS_Interval
  <2>2. \A s \in SUBSET D : s \in SUBSET (1 .. n)
    OBVIOUS
  <2>3. QED
    BY <2>1, <2>2, FS_Subset
<1>2. \A s \in SUBSET D : Cardinality(s) \in Nat
  BY <1>1, FS_CardinalityType
<1> DEFINE c == Cardinality(D)
           done == {k \in 0 .. c : \A s \in SUBSET D : Cardinality(s) <= k => f[s] = h[s]}
<1>3. c \in Nat
  BY <1>2
<1>4. 0 \in done
  <2>1. ASSUME NEW s \in SUBSET D, Cardinality(s) <= 0
        PROVE  f[s] = h[s]
    <3>1. Cardinality(s) = 0
      BY <1>2, <2>1
    <3>2. s = {}
      BY <1>1, <3>1, FS_EmptySet
    <3>3. QED
      BY <3>2 DEF IsSum
  <2>2. 0 \in 0 .. c
    BY <1>3
  <2> HIDE DEF c
  <2>3. QED
    BY <2>1, <2>2
<1>5. ASSUME NEW k \in 0 .. c - 1, k \in done
      PROVE  k + 1 \in done
  <2>1. ASSUME NEW s \in SUBSET D, Cardinality(s) <= k + 1
        PROVE  f[s] = h[s]
    <3>1. CASE s = {}
      BY <3>1 DEF IsSum
    <3>2. CASE s # {}
      <4> DEFINE x == CHOOSE y \in s : TRUE
      <4>1. x \in s
        BY <3>2
      <4>2. f[s] = v[x] + f[s \ {x}]
        BY <3>2
      <4> HIDE DEF x
      <4>3. Cardinality(s \ {x}) = Cardinality(s) - 1
        BY <1>1, <4>1, FS_RemoveElement
      <4>4. Cardinality(s \ {x}) <= k /\ s \ {x} \in SUBSET D
        <5>1. Cardinality(s) \in Nat
          BY <1>2
        <5>2. k \in Int
          OBVIOUS
        <5>3. s \ {x} \in SUBSET D
          OBVIOUS
        <5>4. QED
          BY <2>1, <4>3, <5>1, <5>2, <5>3
      <4>5. f[s \ {x}] = h[s \ {x}]
        BY <1>5, <4>4
      <4>6. s \in SUBSET (1 .. n)
        OBVIOUS
      <4>7. h[s] = v[x] + h[s \ {x}]
        BY <4>1, <4>6 DEF IsSum
      <4>8. QED
        BY <4>2, <4>5, <4>7
    <3>3. QED
      BY <3>1, <3>2
  <2>2. k + 1 \in 0 .. c
    BY <1>3
  <2>3. QED
    BY <2>1, <2>2
<1>6. c \in done
  <2> HIDE DEF done, c
  <2>1. \A k \in 0 .. c - 1 : k \in done => k + 1 \in done
    BY <1>5
  <2>2. c \in 0 .. c
    BY <1>3
  <2>3. QED
    BY <1>3, <1>4, <2>1, <2>2, UpTo
<1>7. \A s \in SUBSET D : Cardinality(s) <= c => f[s] = h[s]
  BY <1>6
<1>8. D \in SUBSET D /\ Cardinality(D) <= c
  BY <1>3
<1>9. QED
  BY <1>7, <1>8

-----------------------------------------------------------------------------
(* The fold of an inbox. *)

(* A sum that is finite is one of finite terms, and exact. *)
LEMMA FiniteSumIsExact ==
  ASSUME NEW x \in Int, NEW scale \in Int, NEW e \in Int
  PROVE  /\ Sum2(x, Scaled(scale, e)) \in Int
         /\ Finite(Sum2(x, Scaled(scale, e))) =>
              Finite(x) /\ Sum2(x, Scaled(scale, e)) = x + scale * e
<1> DEFINE p == scale * e
           y == Scaled(scale, e)
           z == Sum2(x, y)
<1>1. NonFinite \in Int /\ MostFinite \in Int /\ p \in Int
  BY ElementsAssumption
<1>2. y = NonFinite \/ y = p
  BY DEF Scaled, Bounded
<1> HIDE DEF p, y
<1>3. z \in Int /\ (z # NonFinite => x # NonFinite /\ y # NonFinite /\ z = x + y)
  BY <1>1, <1>2 DEF Sum2, Bounded, Finite
<1> HIDE DEF z
<1>4. z \in Int /\ (Finite(z) => Finite(x) /\ z = x + p)
  BY <1>2, <1>3 DEF Finite
<1>5. QED
  BY <1>4 DEF z, y, p

(* What a signal adds to the buffer, and the buffers that one signal after *)
(* the other makes.                                                        *)
FoldSignal(acc, k, box, weights, decays, deliver) ==
  IF ~deliver[k] THEN acc
  ELSE [i \in DOMAIN acc |-> IF i > Len(box[1].payload) THEN acc[i]
                             ELSE Sum2(acc[i], Scaled(weights[k] * decays[k], box[k].payload[i]))]

(* The buffers of the fold over an inbox, one after each signal.           *)
AreFolds(at, n, box, weights, decays, deliver, into) ==
  /\ at[0] = into
  /\ \A k \in 1 .. n : at[k] = FoldSignal(at[k - 1], k, box, weights, decays, deliver)
  /\ AggregateInbox(box, weights, decays, deliver, into).out = at[n]

(* What is in an inbox, and operands that are folded. *)
Emitted ==
  {s \in [payload : Seq(Int), confidence : 0 .. 2, mode : Modes, masked : BOOLEAN, distance : Distances] :
     IsValid(s)}

(* Operands that aggregate_inbox does not refuse: n signals of one width,  *)
(* a weight and a decay for each, a buffer that is wide enough.            *)
Foldable(n, m, box, weights, decays, into) ==
  /\ n \in Nat \ {0} /\ m \in Nat
  /\ box \in Seq(Emitted) /\ Len(box) = n
  /\ weights \in [1 .. n -> Int] /\ decays \in [1 .. n -> Int]
  /\ into \in [1 .. m -> Int] /\ Len(box[1].payload) <= m
  /\ \A k \in 1 .. n : Len(box[k].payload) = Len(box[1].payload)

(* The numbers the fold multiplies and adds are integers.                  *)
LEMMA ElementsAre ==
  ASSUME NEW n, NEW m, NEW box, NEW weights, NEW decays, NEW into, Foldable(n, m, box, weights, decays, into)
  PROVE  /\ Len(box[1].payload) \in Nat
         /\ \A k \in 1 .. n : weights[k] * decays[k] \in Int
         /\ \A k \in 1 .. n : \A i \in 1 .. Len(box[1].payload) : box[k].payload[i] \in Int
<1>1. ASSUME NEW k \in 1 .. n
      PROVE  box[k].payload \in Seq(Int) /\ weights[k] * decays[k] \in Int
  <2>1. box[k] \in Emitted /\ weights[k] \in Int /\ decays[k] \in Int
    BY DEF Foldable
  <2>2. QED
    BY <2>1 DEF Emitted
<1>2. 1 \in 1 .. n
  BY DEF Foldable
<1>3. Len(box[1].payload) \in Nat
  BY <1>1, <1>2
<1>4. ASSUME NEW k \in 1 .. n, NEW i \in 1 .. Len(box[1].payload)
      PROVE  box[k].payload[i] \in Int
  <2>1. i \in 1 .. Len(box[k].payload)
    BY DEF Foldable
  <2>2. QED
    BY <1>1, <2>1
<1>5. QED
  BY <1>1, <1>3, <1>4

(* Folding a signal keeps the buffer a buffer.                             *)
LEMMA FoldStays ==
  ASSUME NEW n, NEW m, NEW box, NEW weights, NEW decays, NEW into, NEW deliver,
         Foldable(n, m, box, weights, decays, into), NEW acc \in [1 .. m -> Int], NEW k \in 1 .. n
  PROVE  FoldSignal(acc, k, box, weights, decays, deliver) \in [1 .. m -> Int]
<1> DEFINE width == Len(box[1].payload)
           e(i) == Sum2(acc[i], Scaled(weights[k] * decays[k], box[k].payload[i]))
<1>1. width \in Nat /\ \A i \in 1 .. width : box[k].payload[i] \in Int
  BY ElementsAre
<1>2. weights[k] * decays[k] \in Int
  BY ElementsAre
<1>3. ASSUME NEW i \in 1 .. m
      PROVE  (IF i > width THEN acc[i] ELSE e(i)) \in Int
  <2>1. acc[i] \in Int /\ i \in Nat
    OBVIOUS
  <2>2. CASE i > width
    BY <2>1, <2>2
  <2>3. CASE ~ (i > width)
    <3>1. i \in 1 .. width
      BY <1>1, <2>1, <2>3
    <3>2. box[k].payload[i] \in Int
      BY <1>1, <3>1
    <3>3. e(i) \in Int
      BY <1>2, <2>1, <3>2, FiniteSumIsExact
    <3>4. QED
      BY <2>3, <3>3
  <2>4. QED
    BY <2>2, <2>3
<1>4. FoldSignal(acc, k, box, weights, decays, deliver) =
        IF ~deliver[k] THEN acc ELSE [i \in 1 .. m |-> IF i > width THEN acc[i] ELSE e(i)]
  BY DEF FoldSignal
<1> HIDE DEF width, e
<1>5. QED
  BY <1>3, <1>4

(* The buffers of the fold exist.                                          *)
LEMMA FoldOfSignals ==
  ASSUME NEW n, NEW m, NEW box, NEW weights, NEW decays, NEW into, NEW deliver,
         Foldable(n, m, box, weights, decays, into), Len(weights) = n
  PROVE  \E at : AreFolds(at, n, box, weights, decays, deliver, into)
<1> DEFINE S == [1 .. m -> Int]
           one(acc, k) == FoldSignal(acc, k, box, weights, decays, deliver)
           step == [p \in (1 .. n) \X S |-> one(p[2], p[1])]
           seq == [k \in DOMAIN box |-> k]
           Is(f) == f = [s \in SUBSET DOMAIN seq |->
                           IF s = {} THEN into ELSE one(f[s \ {Max(s)}], seq[Max(s)])]
           fold == CHOOSE f : Is(f)
<1>1. n \in Nat \ {0} /\ m \in Nat /\ into \in S /\ DOMAIN box = 1 .. n /\ box # <<>>
  BY DEF Foldable
<1>2. \A acc \in S, k \in 1 .. n : one(acc, k) \in S
  BY FoldStays
<1> HIDE DEF one
<1>3. step \in [(1 .. n) \X S -> S] /\ \A k \in 1 .. n, acc \in S : step[<<k, acc>>] = one(acc, k)
  <2> HIDE DEF S
  <2>1. QED
    BY <1>2
<1> HIDE DEF step, Is, fold, S
<1>0. DOMAIN seq = 1 .. n /\ \A k \in 1 .. n : seq[k] = k
  BY <1>1
<1> HIDE DEF seq
<1>4. PICK g : IsFold(g, n, S, into, step)
  BY <1>1, <1>3, FoldExists
<1> g \in [SUBSET (1 .. n) -> S]
  BY <1>4 DEF IsFold
<1>5. ASSUME NEW s \in SUBSET (1 .. n)
      PROVE  g[s] = IF s = {} THEN into ELSE one(g[s \ {Max(s)}], seq[Max(s)])
  <2>1. CASE s = {}
    BY <1>4, <2>1 DEF IsFold
  <2>2. CASE s # {}
    <3> DEFINE k == Max(s)
    <3>1. k \in 1 .. n /\ g[s] = step[<<k, g[s \ {k}]>>]
      BY <1>4, <2>2 DEF IsFold
    <3>2. s \ {k} \in SUBSET (1 .. n)
      OBVIOUS
    <3> HIDE DEF k
    <3>3. g[s \ {k}] \in S
      BY <3>2
    <3>4. g[s] = one(g[s \ {k}], seq[k])
      BY <1>0, <1>3, <3>1, <3>3
    <3>5. QED
      BY <2>2, <3>4 DEF k
  <2>3. QED
    BY <2>1, <2>2
<1>6. Is(g)
  BY <1>0, <1>5 DEF Is
<1>7. Is(fold)
  BY <1>6 DEF fold
<1>8. AggregateInbox(box, weights, decays, deliver, into).out = fold[1 .. n]
  <2> DEFINE width == Len(box[1].payload)
             add(acc, k) ==
               IF ~deliver[k] THEN acc
               ELSE [i \in DOMAIN acc |-> IF i > width THEN acc[i]
                                          ELSE Sum2(acc[i], Scaled(weights[k] * decays[k], box[k].payload[i]))]
  <2>1. Len(weights) = Len(box) /\ ~ (Len(into) < width) /\ ~ (\E k \in DOMAIN box : Len(box[k].payload) # width)
    <3>1. Len(into) = m /\ width <= m
      BY <1>1, ElementsAre DEF Foldable, S
    <3>2. QED
      BY <1>1, <3>1, ElementsAre DEF Foldable
  <2>2. AggregateInbox(box, weights, decays, deliver, into).out = FoldLeft(add, into, [k \in DOMAIN box |-> k])
    BY <1>1, <2>1 DEF AggregateInbox
  <2>3. FoldLeft(add, into, [k \in DOMAIN box |-> k]) = fold[DOMAIN seq]
    BY <1>1 DEF FoldLeft, MapThenFoldSet, fold, Is, one, FoldSignal, seq
  <2>4. QED
    BY <1>0, <2>2, <2>3
<1>9. fold[1 .. 0] = into
  BY <1>0, <1>7 DEF Is
<1>10. ASSUME NEW k \in 1 .. n
       PROVE  fold[1 .. k] = one(fold[1 .. k - 1], k)
  <2>1. Max(1 .. k) = k /\ (1 .. k) \ {k} = 1 .. k - 1 /\ 1 .. k # {}
    BY MaxOfSegment
  <2>2. 1 .. k \in SUBSET (1 .. n)
    OBVIOUS
  <2>3. fold[1 .. k] = one(fold[(1 .. k) \ {Max(1 .. k)}], seq[Max(1 .. k)])
    BY <1>0, <1>7, <2>1, <2>2 DEF Is
  <2>4. seq[Max(1 .. k)] = k
    BY <1>0, <2>1
  <2>5. QED
    BY <2>1, <2>3, <2>4
<1> DEFINE at == [k \in 0 .. n |-> fold[1 .. k]]
<1>11. at[0] = into /\ at[n] = fold[1 .. n]
  BY <1>1, <1>9
<1>12. \A k \in 1 .. n : at[k] = fold[1 .. k] /\ at[k - 1] = fold[1 .. k - 1]
  BY <1>1
<1> HIDE DEF at
<1>13. \A k \in 1 .. n : at[k] = FoldSignal(at[k - 1], k, box, weights, decays, deliver)
  BY <1>10, <1>12 DEF one
<1>14. AreFolds(at, n, box, weights, decays, deliver, into)
  BY <1>8, <1>11, <1>13 DEF AreFolds
<1>15. QED
  BY <1>14

(* The signals, so far, that are to be delivered. *)
Delivered(k, deliver) == {j \in 1 .. k : deliver[j]}

(* What each signal adds to an element that is within the width. *)
AreTerms(v, n, i, box, weights, decays) ==
  /\ v \in [1 .. n -> Int]
  /\ \A k \in 1 .. n : i <= Len(box[1].payload) => v[k] = weights[k] * decays[k] * box[k].payload[i]

(* What becomes of an element. *)
IsAdded(out, into, i, n, box, deliver, h) ==
  /\ i > Len(box[1].payload) => out[i] = into[i]
  /\ i <= Len(box[1].payload) /\ Finite(out[i]) => out[i] = into[i] + h[Delivered(n, deliver)]

(* An element within the width is, if it is finite, what it was and the    *)
(* sum over the signals to be delivered; one past the width is what it was. *)
LEMMA FoldedElement ==
  ASSUME NEW n, NEW m, NEW box, NEW weights, NEW decays, NEW into, NEW deliver,
         Foldable(n, m, box, weights, decays, into),
         NEW at, AreFolds(at, n, box, weights, decays, deliver, into),
         NEW i \in 1 .. m, NEW v, AreTerms(v, n, i, box, weights, decays), NEW h, IsSum(h, n, v)
  PROVE  IsAdded(at[n], into, i, n, box, deliver, h)
<1> DEFINE width == Len(box[1].payload)
           D(k) == Delivered(k, deliver)
           right == {k \in 0 .. n :
                       /\ at[k] \in [1 .. m -> Int]
                       /\ i > width => at[k][i] = into[i]
                       /\ i <= width /\ Finite(at[k][i]) => at[k][i] = into[i] + h[D(k)]}
<1>1. n \in Nat \ {0} /\ m \in Nat /\ into \in [1 .. m -> Int]
  BY DEF Foldable
<1>2. /\ width \in Nat
      /\ \A k \in 1 .. n : weights[k] * decays[k] \in Int
      /\ \A k \in 1 .. n : \A j \in 1 .. width : box[k].payload[j] \in Int
  BY ElementsAre
<1> HIDE DEF width
<1> USE DEF Delivered
<1>3. 0 \in right
  <2>1. D(0) = {} /\ h[{}] = 0 /\ at[0] = into
    BY DEF IsSum, AreFolds
  <2>2. into[i] + 0 = into[i]
    BY <1>1
  <2> HIDE DEF D
  <2>3. 0 \in 0 .. n
    BY <1>1
  <2>4. QED
    BY <1>1, <2>1, <2>2, <2>3
<1>4. ASSUME NEW k \in 0 .. n - 1, k \in right
      PROVE  k + 1 \in right
  <2> DEFINE q == k + 1
             a == at[k][i]
             scale == weights[q] * decays[q]
             e == box[q].payload[i]
             b == Sum2(a, Scaled(scale, e))
  <2>1. q \in 1 .. n /\ q \in 0 .. n /\ q - 1 = k
    BY <1>1
  <2>2. at[q] = FoldSignal(at[k], q, box, weights, decays, deliver)
    <3> HIDE DEF q
    <3>1. at[q] = FoldSignal(at[q - 1], q, box, weights, decays, deliver)
      BY <2>1 DEF AreFolds
    <3>2. QED
      BY <2>1, <3>1
  <2>3. at[k] \in [1 .. m -> Int] /\ a \in Int
    BY <1>4
  <2>4. at[q] \in [1 .. m -> Int]
    <3> HIDE DEF q
    <3>1. FoldSignal(at[k], q, box, weights, decays, deliver) \in [1 .. m -> Int]
      BY <2>1, <2>3, FoldStays
    <3>2. QED
      BY <2>2, <3>1
  <2>5. /\ i > width => a = into[i]
        /\ i <= width /\ Finite(a) => a = into[i] + h[D(k)]
    BY <1>4
  <2>6. CASE ~deliver[q]
    <3>1. D(q) = D(k)
      <4>1. \A j \in 1 .. q : j = q \/ j \in 1 .. k
        BY <1>1
      <4>2. \A j \in 1 .. k : j \in 1 .. q
        BY <1>1
      <4> HIDE DEF q
      <4>3. QED
        BY <2>6, <4>1, <4>2
    <3>2. at[q][i] = a
      <4> HIDE DEF q
      <4>1. at[q] = at[k]
        BY <2>2, <2>6 DEF FoldSignal
      <4>2. QED
        BY <4>1
    <3> HIDE DEF q, D, a
    <3>3. QED
      BY <2>1, <2>4, <2>5, <3>1, <3>2
  <2>7. CASE deliver[q]
    <3>1. at[q][i] = IF i > width THEN a ELSE b
      <4> HIDE DEF q
      <4>1. QED
        BY <2>2, <2>3, <2>7 DEF FoldSignal, width
    <3>2. CASE i > width
      <4>1. at[q][i] = into[i] /\ ~ (i <= width)
        BY <1>2, <2>5, <3>1, <3>2
      <4> HIDE DEF q, D
      <4>2. QED
        BY <2>1, <2>4, <4>1
    <3>3. CASE i <= width
      <4>1. at[q][i] = b /\ ~ (i > width)
        BY <1>2, <3>1, <3>3
      <4>2. i \in 1 .. width
        BY <1>2, <3>3
      <4>3. scale \in Int /\ e \in Int /\ v[q] = scale * e
        <5> HIDE DEF q
        <5>1. QED
          BY <1>2, <2>1, <3>3, <4>2 DEF width, AreTerms
      <4>4. Finite(b) => Finite(a) /\ b = a + scale * e
        <5> HIDE DEF a, scale, e
        <5>1. QED
          BY <2>3, <4>3, FiniteSumIsExact
      <4>5. h[D(q)] = v[q] + h[D(k)]
        <5>1. D(q) \in SUBSET (1 .. n) /\ q \in D(q)
          <6>1. q \in 1 .. q /\ 1 .. q \subseteq 1 .. n
            BY <1>1, <2>1
          <6> HIDE DEF q
          <6>2. QED
            BY <2>7, <6>1
        <5>2. D(q) \ {q} = D(k)
          <6>1. \A j \in 1 .. q : j = q \/ j \in 1 .. k
            BY <1>1
          <6>2. \A j \in 1 .. k : j \in 1 .. q /\ j # q
            BY <1>1
          <6> HIDE DEF q
          <6>3. QED
            BY <6>1, <6>2
        <5> HIDE DEF q, D
        <5>3. QED
          BY <5>1, <5>2 DEF IsSum
      <4>6. h[D(k)] \in Int
        <5>1. D(k) \in SUBSET (1 .. n)
          BY <1>1
        <5> HIDE DEF D
        <5>2. QED
          BY <5>1 DEF IsSum
      <4>7. into[i] \in Int
        BY <1>1
      <4> DEFINE p == scale * e
                 y == h[D(k)]
                 z == into[i]
                 w == h[D(q)]
      <4>8. p \in Int /\ y \in Int /\ z \in Int /\ w = p + y
            /\ (Finite(b) => Finite(a) /\ b = a + p) /\ (Finite(a) => a = z + y)
        <5> HIDE DEF D, a, b, scale, e, q
        <5>1. p \in Int
          BY <4>3
        <5>2. QED
          BY <2>5, <3>3, <4>3, <4>4, <4>5, <4>6, <4>7, <5>1
      <4>9. Finite(at[q][i]) => at[q][i] = z + w
        <5> HIDE DEF p, y, z, w, a, b, q
        <5>1. QED
          BY <2>3, <4>1, <4>8
      <4> HIDE DEF q, D
      <4>10. QED
        BY <2>1, <2>4, <4>1, <4>9 DEF z, w
    <3>4. QED
      BY <1>2, <3>2, <3>3
  <2>8. QED
    BY <2>6, <2>7
<1>5. n \in right
  <2> HIDE DEF right
  <2>1. \A k \in 0 .. n - 1 : k \in right => k + 1 \in right
    BY <1>4
  <2>2. n \in 0 .. n
    BY <1>1
  <2>3. QED
    BY <1>1, <1>3, <2>1, <2>2, UpTo
<1>6. QED
  BY <1>5 DEF width, IsAdded

(* So what is returned is a buffer of the same width, ...                  *)
LEMMA FoldIsBuffer ==
  ASSUME NEW n, NEW m, NEW box, NEW weights, NEW decays, NEW into, NEW deliver,
         Foldable(n, m, box, weights, decays, into),
         NEW at, AreFolds(at, n, box, weights, decays, deliver, into)
  PROVE  at[n] \in [1 .. m -> Int]
<1> DEFINE right == {k \in 0 .. n : at[k] \in [1 .. m -> Int]}
<1>1. n \in Nat \ {0} /\ into \in [1 .. m -> Int]
  BY DEF Foldable
<1>2. 0 \in right
  BY <1>1 DEF AreFolds
<1>3. \A k \in 0 .. n - 1 : k \in right => k + 1 \in right
  <2> SUFFICES ASSUME NEW k \in 0 .. n - 1, k \in right PROVE k + 1 \in right
    OBVIOUS
  <2> DEFINE q == k + 1
  <2>1. q \in 1 .. n /\ q \in 0 .. n /\ q - 1 = k
    BY <1>1
  <2> HIDE DEF q
  <2>2. at[q] = FoldSignal(at[q - 1], q, box, weights, decays, deliver)
    BY <2>1 DEF AreFolds
  <2>3. at[q] \in [1 .. m -> Int]
    <3>1. at[k] \in [1 .. m -> Int]
      OBVIOUS
    <3>2. FoldSignal(at[k], q, box, weights, decays, deliver) \in [1 .. m -> Int]
      BY <2>1, <3>1, FoldStays
    <3>3. QED
      BY <2>1, <2>2, <3>2
  <2>4. q \in right
    BY <2>1, <2>3
  <2>5. QED
    BY <2>4 DEF q
<1> HIDE DEF right
<1>4. n \in 0 .. n
  BY <1>1
<1>5. n \in right
  BY <1>1, <1>2, <1>3, <1>4, UpTo
<1>6. QED
  BY <1>5 DEF right

(* What a fold of the inbox is to leave, of what operands. *)
FoldIsRight(box, weights, ok, out, into) ==
  LET counts(s) == s.mode = "event" => s.masked /\ s.confidence >= 1
      factor(k) == weights[k] * (IF box[k].mode = "wave" THEN box[k].confidence ELSE 2)
      sum(i) == MapThenSumSet(LAMBDA k : factor(k) * box[k].payload[i], {k \in DOMAIN box : counts(box[k])})
  IN IF ok
     THEN /\ Cardinality({Len(box[k].payload) : k \in DOMAIN box}) = 1
          /\ \A i \in DOMAIN out :
               IF i <= Len(box[1].payload)
               THEN Finite(out[i]) => out[i] = into[i] + sum(i)
               ELSE out[i] = into[i]
     ELSE /\ out = into
          /\ \/ box = <<>> \/ Len(weights) # Len(box)
             \/ \E k \in DOMAIN box : Len(box[k].payload) # Len(box[1].payload)
             \/ Len(box[1].payload) > Len(out)

(* ... and aggregate_inbox folds what is delivered, or leaves the buffer   *)
(* alone for one of the reasons it has to.                                 *)
LEMMA InboxIsFolded ==
  ASSUME NEW box \in Seq(Emitted), NEW weights \in Seq(Int), NEW into \in Seq(Int), NEW decays, NEW deliver,
         decays = [k \in DOMAIN box |-> TransportLaw(box[k]).decay],
         deliver = [k \in DOMAIN box |-> TransportLaw(box[k]).deliver]
  PROVE  LET result == AggregateInbox(box, weights, decays, deliver, into)
         IN FoldIsRight(box, weights, result.ok, result.out, into)
<1> DEFINE result == AggregateInbox(box, weights, decays, deliver, into)
           width == Len(box[1].payload)
           refused == \/ box = <<>> \/ Len(weights) # Len(box) \/ Len(into) < width
                      \/ \E k \in DOMAIN box : Len(box[k].payload) # width
<1>1. CASE refused
  <2>1. result.ok = FALSE /\ result.out = into
    BY <1>1 DEF AggregateInbox
  <2> HIDE DEF result
  <2>2. box # <<>> => width \in Nat
    <3>1. ASSUME box # <<>> PROVE box[1] \in Emitted
      BY <3>1
    <3>2. \A s \in Emitted : Len(s.payload) \in Nat
      BY DEF Emitted
    <3>3. QED
      BY <3>1, <3>2
  <2>3. box # <<>> /\ Len(into) < width => width > Len(into)
    BY <2>2
  <2>4. FoldIsRight(box, weights, result.ok, result.out, into)
    BY <1>1, <2>1, <2>3 DEF FoldIsRight
  <2>5. QED
    BY <2>4 DEF result
<1>2. CASE ~ refused
  <2> DEFINE n == Len(box)
             m == Len(into)
             D == Delivered(n, deliver)
  <2> USE DEF Delivered
  <2>1. DOMAIN box = 1 .. n /\ n \in Nat \ {0} /\ m \in Nat /\ \A k \in 1 .. n : box[k] \in Emitted
    BY <1>2
  <2>2. ASSUME NEW k \in 1 .. n
        PROVE  /\ decays[k] = IF box[k].mode = "wave" THEN box[k].confidence ELSE 2
               /\ decays[k] \in Int
               /\ deliver[k] <=> (box[k].mode = "event" => box[k].masked /\ box[k].confidence >= 1)
    <3> DEFINE s == box[k]
    <3>1. s \in Emitted /\ decays[k] = TransportLaw(s).decay /\ deliver[k] = TransportLaw(s).deliver
      BY <2>1
    <3> HIDE DEF s
    <3>2. s.mode \in Modes /\ s.confidence \in 0 .. 2 /\ s.masked \in BOOLEAN
      BY <3>1 DEF Emitted
    <3>3. TransportLaw(s).decay = (IF s.mode = "wave" THEN s.confidence ELSE 2)
      BY <3>2 DEF TransportLaw, Modes
    <3>4. TransportLaw(s).deliver <=> (s.mode = "event" => s.masked /\ s.confidence >= 1)
      BY <3>2 DEF TransportLaw, Modes
    <3>5. QED
      BY <3>1, <3>2, <3>3, <3>4 DEF s
  <2>3. Foldable(n, m, box, weights, decays, into)
    <3>1. width <= m
      <4>1. width \in Nat
        <5>1. box[1] \in Emitted
          BY <2>1
        <5>2. \A s \in Emitted : Len(s.payload) \in Nat
          BY DEF Emitted
        <5>3. QED
          BY <5>1, <5>2
      <4>2. QED
        BY <1>2, <2>1, <4>1
    <3>2. weights \in [1 .. n -> Int] /\ into \in [1 .. m -> Int]
      BY <1>2, LenProperties
    <3>3. decays \in [1 .. n -> Int]
      BY <2>1, <2>2
    <3>4. QED
      BY <1>2, <2>1, <3>1, <3>2, <3>3 DEF Foldable
  <2>4. PICK at : AreFolds(at, n, box, weights, decays, deliver, into)
    BY <1>2, <2>3, FoldOfSignals
  <2>5. result.out = at[n]
    BY <2>4 DEF AreFolds
  <2>6. result.ok = TRUE
    BY <1>2 DEF AggregateInbox
  <2>7. /\ width \in Nat
        /\ \A k \in 1 .. n : weights[k] * decays[k] \in Int
        /\ \A k \in 1 .. n : \A i \in 1 .. width : box[k].payload[i] \in Int
    BY <2>3, ElementsAre
  <2>8. at[n] \in [1 .. m -> Int]
    BY <2>3, <2>4, FoldIsBuffer
  <2> DEFINE counted == {k \in DOMAIN box : box[k].mode = "event" => box[k].masked /\ box[k].confidence >= 1}
             factor(k) == weights[k] * (IF box[k].mode = "wave" THEN box[k].confidence ELSE 2)
             sum(i) == MapThenSumSet(LAMBDA k : factor(k) * box[k].payload[i], counted)
  <2>9. counted = D
    BY <2>1, <2>2
  <2> HIDE DEF result, width
  <2>10. ASSUME NEW i \in 1 .. m
         PROVE  /\ i > width => at[n][i] = into[i]
                /\ i <= width /\ Finite(at[n][i]) => at[n][i] = into[i] + sum(i)
    <3> DEFINE raw(k) == factor(k) * box[k].payload[i]
               v == [k \in 1 .. n |-> IF i <= width THEN weights[k] * decays[k] * box[k].payload[i] ELSE 0]
               Is(f) == f = [s \in SUBSET counted |->
                               IF s = {} THEN 0
                               ELSE raw(CHOOSE x \in s : TRUE) + f[s \ {CHOOSE x \in s : TRUE}]]
               fold == CHOOSE f : Is(f)
    <3>1. \A k \in 1 .. n : i <= width => weights[k] * decays[k] * box[k].payload[i] \in Int
      <4>1. i <= width => i \in 1 .. width
        BY <2>7
      <4>2. ASSUME NEW k \in 1 .. n, i \in 1 .. width
            PROVE  weights[k] * decays[k] * box[k].payload[i] \in Int
        <5> DEFINE p == weights[k] * decays[k]
                   q == box[k].payload[i]
        <5>1. p \in Int /\ q \in Int
          BY <2>7, <4>2
        <5> HIDE DEF p, q
        <5>2. p * q \in Int
          BY <5>1
        <5>3. QED
          BY <5>2 DEF p, q
      <4>3. QED
        BY <4>1, <4>2
    <3>2. v \in [1 .. n -> Int] /\ \A k \in 1 .. n : i <= width => v[k] = weights[k] * decays[k] * box[k].payload[i]
      <4> DEFINE p(k) == weights[k] * decays[k] * box[k].payload[i]
      <4>1. \A k \in 1 .. n : i <= width => p(k) \in Int
        BY <3>1
      <4>2. v = [k \in 1 .. n |-> IF i <= width THEN p(k) ELSE 0]
        OBVIOUS
      <4> HIDE DEF p, v
      <4>3. v \in [1 .. n -> Int] /\ \A k \in 1 .. n : i <= width => v[k] = p(k)
        BY <4>1, <4>2
      <4>4. QED
        BY <4>3 DEF p
    <3>3. \A k \in 1 .. n : i <= width => v[k] = raw(k)
      <4>1. \A k \in 1 .. n : raw(k) = weights[k] * decays[k] * box[k].payload[i]
        BY <2>2
      <4> HIDE DEF v, raw
      <4>2. QED
        BY <3>2, <4>1
    <3>4. sum(i) = fold[counted]
      BY DEF MapThenSumSet, MapThenFoldSet
    <3> HIDE DEF v, raw, sum, counted
    <3>5. PICK h : IsSum(h, n, v)
      BY <2>1, <3>2, SumExists
    <3>6. D \in SUBSET (1 .. n)
      OBVIOUS
    <3> HIDE DEF D
    <3>7. ASSUME i <= width
          PROVE  sum(i) = h[D]
      <4> DEFINE g == [s \in SUBSET counted |-> h[s]]
      <4>1. Is(g)
        <5>1. ASSUME NEW s \in SUBSET counted
              PROVE  h[s] = IF s = {} THEN 0 ELSE raw(CHOOSE x \in s : TRUE) + h[s \ {CHOOSE x \in s : TRUE}]
          <6>1. CASE s = {}
            BY <3>5, <6>1 DEF IsSum
          <6>2. CASE s # {}
            <7> DEFINE x == CHOOSE y \in s : TRUE
            <7>1. x \in s
              BY <6>2
            <7> HIDE DEF x
            <7>2. s \in SUBSET (1 .. n) /\ x \in 1 .. n
              BY <2>9, <3>6, <7>1
            <7>3. h[s] = v[x] + h[s \ {x}]
              BY <3>5, <7>1, <7>2 DEF IsSum
            <7>4. v[x] = raw(x)
              BY <3>3, <3>7, <7>2
            <7>5. h[s] = raw(x) + h[s \ {x}]
              BY <7>3, <7>4
            <7>6. QED
              BY <6>2, <7>5 DEF x
          <6>3. QED
            BY <6>1, <6>2
        <5>2. \A s \in SUBSET counted : \A x : s \ {x} \in SUBSET counted
          OBVIOUS
        <5>3. QED
          BY <5>1, <5>2
      <4>2. Is(fold)
        <5> HIDE DEF Is, g
        <5>1. QED
          BY <4>1
      <4> HIDE DEF fold
      <4>3. fold = [s \in SUBSET D |->
                     IF s = {} THEN 0 ELSE v[CHOOSE x \in s : TRUE] + fold[s \ {CHOOSE x \in s : TRUE}]]
        <5>1. ASSUME NEW s \in SUBSET D, s # {}
              PROVE  v[CHOOSE x \in s : TRUE] = raw(CHOOSE x \in s : TRUE)
          <6> DEFINE x == CHOOSE y \in s : TRUE
          <6>1. x \in s
            BY <5>1
          <6> HIDE DEF x
          <6>2. v[x] = raw(x)
            BY <3>3, <3>6, <3>7, <6>1
          <6>3. QED
            BY <6>2 DEF x
        <5>2. QED
          BY <2>9, <4>2, <5>1
      <4>4. fold[D] = h[D]
        <5>1. AddsUp(fold, D, v)
          BY <4>3 DEF AddsUp
        <5> HIDE DEF n, m
        <5>2. n \in Nat
          BY <2>1
        <5>3. QED
          BY <3>2, <3>5, <3>6, <5>1, <5>2, SumInAnyOrder
      <4>5. QED
        BY <2>9, <3>4, <4>4
    <3>8. /\ i > width => at[n][i] = into[i]
          /\ i <= width /\ Finite(at[n][i]) => at[n][i] = into[i] + h[D]
      <4>1. AreTerms(v, n, i, box, weights, decays)
        BY <3>2 DEF width, AreTerms
      <4> HIDE DEF n, m, Delivered
      <4>2. IsAdded(at[n], into, i, n, box, deliver, h)
        BY <2>3, <2>4, <3>5, <4>1, FoldedElement
      <4>3. QED
        BY <4>2 DEF width, D, IsAdded
    <3>9. QED
      BY <3>7, <3>8
  <2>11. Cardinality({Len(box[k].payload) : k \in DOMAIN box}) = 1
    <3>1. {Len(box[k].payload) : k \in DOMAIN box} = {width}
      BY <1>2, <2>1 DEF width
    <3>2. QED
      BY <3>1, FS_Singleton
  <2>12. ASSUME NEW i \in DOMAIN at[n]
         PROVE  IF i <= width THEN Finite(at[n][i]) => at[n][i] = into[i] + sum(i) ELSE at[n][i] = into[i]
    <3>1. i \in 1 .. m
      BY <2>8
    <3>2. i <= width \/ i > width
      BY <2>7, <3>1
    <3> HIDE DEF sum
    <3>3. QED
      BY <2>10, <3>1, <3>2
  <2>13. FoldIsRight(box, weights, TRUE, at[n], into)
    BY <2>11, <2>12 DEF FoldIsRight, width
  <2>14. QED
    BY <2>5, <2>6, <2>13 DEF result
<1>3. QED
  BY <1>1, <1>2

(* What is in the inbox has been validated, and once it has been folded    *)
(* the buffer is what the fold is to leave.                                *)
SignalsHold ==
  /\ inbox \in Seq(Emitted)
  /\ ~folded.asked => outbox \in Seq(Int)
  /\ folded.asked => FoldIsRight(inbox, folded.weights, folded.ok, outbox, before)

(* It holds at the start, ...                                              *)
LEMMA SignalsStart == SignalsInit => SignalsHold
<1> SUFFICES ASSUME SignalsInit PROVE SignalsHold
  OBVIOUS
<1>1. inbox = <<>> /\ folded = [asked |-> FALSE]
  BY DEF SignalsInit
<1>2. PICK n \in Widths : outbox = [i \in 1 .. n |-> 0]
  BY DEF SignalsInit
<1>3. n \in Nat /\ outbox \in [1 .. n -> Int]
  BY <1>2, ElementsAssumption
<1>4. outbox \in Seq(Int)
  BY <1>3, SeqDef
<1>5. QED
  BY <1>1, <1>4 DEF SignalsHold

(* A signal of another mode is as valid. *)
LEMMA ModeChanges ==
  ASSUME NEW s \in Emitted, NEW way \in Modes
  PROVE  [s EXCEPT !.mode = way] \in Emitted
<1> DEFINE p == s.payload
           c == s.confidence
           m == s.masked
           d == s.distance
           t == [s EXCEPT !.mode = way]
<1>1. /\ s = [payload |-> p, confidence |-> c, mode |-> s.mode, masked |-> m, distance |-> d]
      /\ p \in Seq(Int) /\ c \in 0 .. 2 /\ m \in BOOLEAN /\ d \in Distances
  BY DEF Emitted
<1>2. p # <<>> /\ \A i \in DOMAIN p : Finite(p[i])
  BY DEF Emitted, IsValid
<1> HIDE DEF p, c, m, d
<1>3. t = [payload |-> p, confidence |-> c, mode |-> way, masked |-> m, distance |-> d]
  BY <1>1
<1> HIDE DEF t
<1>4. t.payload = p /\ t.confidence = c
  BY <1>3
<1>5. IsValid(t)
  BY <1>1, <1>2, <1>4 DEF IsValid
<1>6. t \in [payload : Seq(Int), confidence : 0 .. 2, mode : Modes, masked : BOOLEAN, distance : Distances]
  BY <1>1, <1>3
<1>7. t \in Emitted
  BY <1>5, <1>6 DEF Emitted
<1>8. QED
  BY <1>7 DEF t

(* ... every call keeps it, ...                                            *)
LEMMA SignalsStay == SignalsHold /\ [SignalsNext]_signals => SignalsHold'
<1> SUFFICES ASSUME SignalsHold, [SignalsNext]_signals
             PROVE  SignalsHold'
  OBVIOUS
<1>1. CASE UNCHANGED signals
  <2>1. inbox' = inbox /\ outbox' = outbox /\ folded' = folded /\ before' = before
    BY <1>1 DEF signals
  <2>2. folded'.asked => FoldIsRight(inbox', folded'.weights, folded'.ok, outbox', before')
    BY <2>1 DEF SignalsHold
  <2>3. QED
    BY <2>1, <2>2 DEF SignalsHold
<1>2. CASE Emit
  <2>1. PICK n \in Widths \cup {0}, confidence \in Confidences, way \in Modes, masked \in BOOLEAN, distance \in Distances :
       \E payload \in [1 .. n -> PayloadValues] :
         LET s == [payload |-> payload, confidence |-> confidence, mode |-> way,
                   masked |-> masked, distance |-> distance]
         IN IsValid(s) /\ inbox' = Append(inbox, s)
    BY <1>2 DEF Emit
  <2>2. PICK payload \in [1 .. n -> PayloadValues] :
         LET s == [payload |-> payload, confidence |-> confidence, mode |-> way,
                   masked |-> masked, distance |-> distance]
         IN IsValid(s) /\ inbox' = Append(inbox, s)
    BY <2>1
  <2> DEFINE s == [payload |-> payload, confidence |-> confidence, mode |-> way,
                   masked |-> masked, distance |-> distance]
  <2>3. payload \in Seq(Int)
    <3>a. n \in Nat /\ PayloadValues \subseteq Int
      BY <2>1, ElementsAssumption
    <3>b. payload \in [1 .. n -> PayloadValues]
      BY <2>2
    <3>c. payload \in [1 .. n -> Int]
      BY <3>a, <3>b
    <3>1. n \in Nat /\ payload \in [1 .. n -> Int]
      BY <3>a, <3>c
    <3>2. QED
      BY <3>1, SeqDef
  <2>4. IsValid(s) /\ inbox' = Append(inbox, s)
    BY <2>2
  <2>5. s \in Emitted
    <3>1. confidence \in 0 .. 2
      BY <2>4 DEF IsValid
    <3>2. s \in [payload : Seq(Int), confidence : 0 .. 2, mode : Modes, masked : BOOLEAN, distance : Distances]
      BY <2>3, <3>1
    <3> HIDE DEF s
    <3>3. QED
      BY <2>4, <3>2 DEF Emitted
  <2>6. ~folded.asked /\ UNCHANGED <<outbox, before, folded>>
    BY <1>2 DEF Emit
  <2> HIDE DEF s
  <2>7. inbox' \in Seq(Emitted)
    BY <2>4, <2>5 DEF SignalsHold
  <2>8. QED
    BY <2>6, <2>7 DEF SignalsHold
<1>3. CASE Reinterpret
  <2>1. PICK way \in Modes :
          inbox' = [k \in DOMAIN inbox |-> IF \A j \in 1 .. k : IsValid(inbox[j])
                                           THEN [inbox[k] EXCEPT !.mode = way] ELSE inbox[k]]
    BY <1>3 DEF Reinterpret
  <2> DEFINE n == Len(inbox)
  <2>2. n \in Nat /\ DOMAIN inbox = 1 .. n /\ \A k \in 1 .. n : inbox[k] \in Emitted
    BY DEF SignalsHold
  <2> HIDE DEF n
  <2>3. \A k \in 1 .. n : [inbox[k] EXCEPT !.mode = way] \in Emitted
    BY <2>2, ModeChanges
  <2>4. inbox' \in [1 .. n -> Emitted]
    <3> DEFINE new(k) == IF \A j \in 1 .. k : IsValid(inbox[j]) THEN [inbox[k] EXCEPT !.mode = way] ELSE inbox[k]
    <3>1. \A k \in 1 .. n : new(k) \in Emitted
      BY <2>2, <2>3
    <3>2. inbox' = [k \in 1 .. n |-> new(k)]
      BY <2>1, <2>2
    <3> HIDE DEF new
    <3>3. QED
      BY <3>1, <3>2
  <2>5. inbox' \in Seq(Emitted)
    BY <2>2, <2>4, SeqDef
  <2>6. ~folded.asked /\ UNCHANGED <<outbox, before, folded>>
    BY <1>3 DEF Reinterpret
  <2>7. QED
    BY <2>5, <2>6 DEF SignalsHold
<1>4. CASE Aggregate
  <2>1. PICK one \in [1 .. Len(inbox) -> WeightValues], extra \in {<<>>, <<1>>} :
       LET weights == one \o extra
           delivery == [k \in DOMAIN inbox |-> TransportLaw(inbox[k])]
           result == AggregateInbox(inbox, weights, [k \in DOMAIN inbox |-> delivery[k].decay],
                                    [k \in DOMAIN inbox |-> delivery[k].deliver], outbox)
       IN /\ outbox' = result.out
          /\ folded' = [asked |-> TRUE, ok |-> result.ok, weights |-> weights]
    BY <1>4 DEF Aggregate
  <2> DEFINE weights == one \o extra
             decays == [k \in DOMAIN inbox |-> TransportLaw(inbox[k]).decay]
             deliver == [k \in DOMAIN inbox |-> TransportLaw(inbox[k]).deliver]
             result == AggregateInbox(inbox, weights, decays, deliver, outbox)
  <2>2. /\ outbox' = result.out
        /\ folded' = [asked |-> TRUE, ok |-> result.ok, weights |-> weights]
    <3> DEFINE delivery == [k \in DOMAIN inbox |-> TransportLaw(inbox[k])]
    <3>1. [k \in DOMAIN inbox |-> delivery[k].decay] = decays
      OBVIOUS
    <3>2. [k \in DOMAIN inbox |-> delivery[k].deliver] = deliver
      OBVIOUS
    <3>3. QED
      BY <2>1, <3>1, <3>2
  <2>3. ~folded.asked /\ before' = outbox /\ inbox' = inbox
    BY <1>4 DEF Aggregate
  <2>4. inbox \in Seq(Emitted) /\ outbox \in Seq(Int)
    BY <2>3 DEF SignalsHold
  <2>5. weights \in Seq(Int)
    <3>a. Len(inbox) \in Nat /\ WeightValues \subseteq Int
      BY <2>4, LenProperties, ElementsAssumption
    <3>b. one \in [1 .. Len(inbox) -> WeightValues]
      BY <2>1
    <3>1. Len(inbox) \in Nat /\ one \in [1 .. Len(inbox) -> Int]
      BY <3>a, <3>b
    <3>2. one \in Seq(Int)
      BY <3>1, SeqDef
    <3>d. <<>> \in Seq(Int) /\ <<1>> \in Seq(Int)
      OBVIOUS
    <3>e. extra = <<>> \/ extra = <<1>>
      BY <2>1
    <3>3. extra \in Seq(Int)
      BY <3>d, <3>e
    <3>4. QED
      BY <3>2, <3>3, ConcatProperties
  <2>6. FoldIsRight(inbox, weights, result.ok, result.out, outbox)
    <3> HIDE DEF weights
    <3>1. QED
      BY <2>4, <2>5, InboxIsFolded
  <2> HIDE DEF weights, result, decays, deliver
  <2>7. folded'.asked /\ folded'.ok = result.ok /\ folded'.weights = weights
    BY <2>2
  <2>8. FoldIsRight(inbox', folded'.weights, folded'.ok, outbox', before')
    BY <2>2, <2>3, <2>6, <2>7
  <2>9. QED
    BY <2>3, <2>4, <2>7, <2>8 DEF SignalsHold
<1>5. CASE SignalsNext
  BY <1>2, <1>3, <1>4, <1>5 DEF SignalsNext
<1>6. QED
  BY <1>1, <1>5

(* ... and it gives what the run checks.                                   *)
LEMMA InboxIsRight == SignalsHold => InboxFoldsWhatIsDelivered
<1> SUFFICES ASSUME SignalsHold PROVE InboxFoldsWhatIsDelivered
  OBVIOUS
<1>1. \A k \in DOMAIN inbox : IsValid(inbox[k])
  <2>1. \A k \in DOMAIN inbox : inbox[k] \in Emitted
    BY DEF SignalsHold
  <2>2. QED
    BY <2>1 DEF Emitted
<1>2. folded.asked => FoldIsRight(inbox, folded.weights, folded.ok, outbox, before)
  BY DEF SignalsHold
<1>3. QED
  BY <1>1, <1>2 DEF InboxFoldsWhatIsDelivered, FoldIsRight

(* One step of the product of a shape, and one of the place of an element: *)
(* what is left of a set of results after the checked operations.          *)
Products(sizes, d) == UNION {CheckedMul(m, d) : m \in sizes}
Onward(places, index, shape, k) ==
  UNION {UNION {CheckedAdd(m, index[k]) : m \in CheckedMul(a, shape[k])} : a \in places}

(* A step from one result, from none, and from naturals.                   *)
LEMMA OneProduct ==
  ASSUME NEW m \in Nat, NEW d \in Nat
  PROVE  Products({m}, d) = CheckedMul(m, d)
BY DEF Products

LEMMA NoProduct ==
  ASSUME NEW d
  PROVE  Products({}, d) = {}
BY DEF Products

LEMMA ProductsAreNatural ==
  ASSUME NEW sizes \in SUBSET Nat, NEW d \in Nat
  PROVE  Products(sizes, d) \in SUBSET Nat
<1>1. Usize \in SUBSET Nat
  BY UsizeAssumption DEF Usize
<1>2. \A m : CheckedMul(m, d) \in SUBSET Usize
  BY DEF CheckedMul
<1>3. QED
  BY <1>1, <1>2 DEF Products

LEMMA OnwardIsNatural ==
  ASSUME NEW places \in SUBSET Nat, NEW index, NEW shape, NEW k
  PROVE  Onward(places, index, shape, k) \in SUBSET Nat
<1>1. Usize \in SUBSET Nat
  BY UsizeAssumption DEF Usize
<1>2. \A m : CheckedAdd(m, index[k]) \in SUBSET Usize
  BY DEF CheckedAdd
<1>3. \A a : UNION {CheckedAdd(m, index[k]) : m \in CheckedMul(a, shape[k])} \in SUBSET Usize
  BY <1>2
<1>4. QED
  BY <1>1, <1>3 DEF Onward

(* The product of a shape of three sides, of which no step overflows. *)
LEMMA ProductOfThree ==
  ASSUME NEW shape \in [1 .. 3 -> Usize]
  PROVE  CheckedProduct(shape) = Products(Products(Products({1}, shape[1]), shape[2]), shape[3])
<1> DEFINE n == 3
           S == SUBSET Nat
           step == [p \in (1 .. n) \X S |-> Products(p[2], shape[p[1]])]
           Is(f) == f = [s \in SUBSET DOMAIN shape |->
                           IF s = {} THEN {1} ELSE Products(f[s \ {Max(s)}], shape[Max(s)])]
           fold == CHOOSE f : Is(f)
<1>1. n \in Nat /\ DOMAIN shape = 1 .. n /\ {1} \in S
  OBVIOUS
<1>2. \A k \in 1 .. n : shape[k] \in Nat
  BY UsizeAssumption DEF Usize
<1>3. \A sizes \in S, k \in 1 .. n : Products(sizes, shape[k]) \in S
  BY <1>2, ProductsAreNatural
<1> HIDE DEF n, S
<1>4. step \in [(1 .. n) \X S -> S] /\ \A k \in 1 .. n, sizes \in S : step[<<k, sizes>>] = Products(sizes, shape[k])
  BY <1>3
<1> HIDE DEF step, Is, fold
<1>5. PICK g : IsFold(g, n, S, {1}, step)
  BY <1>1, <1>4, FoldExists
<1> g \in [SUBSET (1 .. n) -> S]
  BY <1>5 DEF IsFold
<1>6. ASSUME NEW s \in SUBSET (1 .. n)
      PROVE  g[s] = IF s = {} THEN {1} ELSE Products(g[s \ {Max(s)}], shape[Max(s)])
  <2>1. CASE s = {}
    BY <1>5, <2>1 DEF IsFold
  <2>2. CASE s # {}
    <3> DEFINE k == Max(s)
    <3>1. k \in 1 .. n /\ g[s] = step[<<k, g[s \ {k}]>>]
      BY <1>5, <2>2 DEF IsFold
    <3>2. s \ {k} \in SUBSET (1 .. n)
      OBVIOUS
    <3> HIDE DEF k
    <3>3. g[s \ {k}] \in S
      BY <3>2
    <3>4. g[s] = Products(g[s \ {k}], shape[k])
      BY <1>4, <3>1, <3>3
    <3>5. QED
      BY <2>2, <3>4 DEF k
  <2>3. QED
    BY <2>1, <2>2
<1>7. Is(g)
  BY <1>1, <1>6 DEF Is
<1>8. Is(fold)
  BY <1>7 DEF fold
<1>9. CheckedProduct(shape) = fold[DOMAIN shape]
  BY DEF CheckedProduct, FoldLeft, MapThenFoldSet, fold, Is, Products
<1>10. fold[{}] = {1}
  BY <1>8 DEF Is
<1>11. ASSUME NEW k \in 1 .. n
       PROVE  fold[1 .. k] = Products(fold[1 .. k - 1], shape[k])
  <2>1. Max(1 .. k) = k /\ (1 .. k) \ {k} = 1 .. k - 1 /\ 1 .. k # {}
    <3>1. k \in Nat \ {0}
      BY <1>1
    <3>2. QED
      BY <3>1, MaxOfSegment
  <2>2. 1 .. k \in SUBSET (1 .. n)
    BY <1>1
  <2>3. QED
    BY <1>1, <1>8, <2>1, <2>2 DEF Is
<1>12. /\ 1 - 1 = 0 /\ 2 - 1 = 1 /\ 3 - 1 = 2 /\ 1 .. 0 = {}
       /\ 1 \in 1 .. n /\ 2 \in 1 .. n /\ 3 \in 1 .. n
  BY DEF n
<1>13. fold[1 .. 1] = Products({1}, shape[1])
  BY <1>10, <1>11, <1>12
<1>14. fold[1 .. 2] = Products(Products({1}, shape[1]), shape[2])
  BY <1>11, <1>12, <1>13
<1>15. fold[1 .. 3] = Products(Products(Products({1}, shape[1]), shape[2]), shape[3])
  BY <1>11, <1>12, <1>14
<1>16. QED
  BY <1>1, <1>9, <1>15 DEF n

(* The place of an element is three such steps.                            *)
LEMMA PlacesOfThree ==
  ASSUME NEW shape \in [1 .. 3 -> Usize], NEW index \in [1 .. 3 -> Usize], NEW total,
         \A k \in 1 .. 3 : index[k] < shape[k]
  PROVE  IdxLinear(total, shape, index) =
           {i \in Onward(Onward(Onward({0}, index, shape, 1), index, shape, 2), index, shape, 3) : i < total}
<1> DEFINE n == 3
           S == SUBSET Nat
           step == [p \in (1 .. n) \X S |-> Onward(p[2], index, shape, p[1])]
           seq == [k \in DOMAIN shape |-> k]
           Is(f) == f = [s \in SUBSET DOMAIN seq |->
                           IF s = {} THEN {0} ELSE Onward(f[s \ {Max(s)}], index, shape, seq[Max(s)])]
           fold == CHOOSE f : Is(f)
<1>1. n \in Nat /\ DOMAIN shape = 1 .. n /\ {0} \in S
  OBVIOUS
<1>2. DOMAIN seq = 1 .. n /\ \A k \in 1 .. n : seq[k] = k
  OBVIOUS
<1>3. \A places \in S, k \in 1 .. n : Onward(places, index, shape, k) \in S
  BY OnwardIsNatural
<1>0. ~ \E k \in DOMAIN shape : index[k] >= shape[k]
  BY UsizeAssumption DEF Usize
<1> HIDE DEF n, S
<1>4. step \in [(1 .. n) \X S -> S] /\ \A k \in 1 .. n, places \in S : step[<<k, places>>] = Onward(places, index, shape, k)
  BY <1>3
<1> HIDE DEF step, Is, fold, seq
<1>5. PICK g : IsFold(g, n, S, {0}, step)
  BY <1>1, <1>4, FoldExists
<1> g \in [SUBSET (1 .. n) -> S]
  BY <1>5 DEF IsFold
<1>6. ASSUME NEW s \in SUBSET (1 .. n)
      PROVE  g[s] = IF s = {} THEN {0} ELSE Onward(g[s \ {Max(s)}], index, shape, seq[Max(s)])
  <2>1. CASE s = {}
    BY <1>5, <2>1 DEF IsFold
  <2>2. CASE s # {}
    <3> DEFINE k == Max(s)
    <3>1. k \in 1 .. n /\ g[s] = step[<<k, g[s \ {k}]>>]
      BY <1>5, <2>2 DEF IsFold
    <3>2. s \ {k} \in SUBSET (1 .. n)
      OBVIOUS
    <3> HIDE DEF k
    <3>3. g[s \ {k}] \in S
      BY <3>2
    <3>4. g[s] = Onward(g[s \ {k}], index, shape, seq[k])
      BY <1>2, <1>4, <3>1, <3>3
    <3>5. QED
      BY <2>2, <3>4 DEF k
  <2>3. QED
    BY <2>1, <2>2
<1>7. Is(g)
  BY <1>2, <1>6 DEF Is
<1>8. Is(fold)
  BY <1>7 DEF fold
<1>9. IdxLinear(total, shape, index) = {i \in fold[DOMAIN seq] : i < total}
  BY <1>0 DEF IdxLinear, FoldLeft, MapThenFoldSet, fold, Is, Onward, seq
<1>10. fold[{}] = {0}
  BY <1>8 DEF Is
<1>11. ASSUME NEW k \in 1 .. n
       PROVE  fold[1 .. k] = Onward(fold[1 .. k - 1], index, shape, k)
  <2>1. Max(1 .. k) = k /\ (1 .. k) \ {k} = 1 .. k - 1 /\ 1 .. k # {}
    <3>1. k \in Nat \ {0}
      BY <1>1
    <3>2. QED
      BY <3>1, MaxOfSegment
  <2>2. 1 .. k \in SUBSET (1 .. n)
    BY <1>1
  <2>3. seq[Max(1 .. k)] = k
    BY <1>2, <2>1
  <2>4. fold[1 .. k] = Onward(fold[(1 .. k) \ {Max(1 .. k)}], index, shape, seq[Max(1 .. k)])
    BY <1>2, <1>8, <2>1, <2>2 DEF Is
  <2>5. QED
    BY <2>1, <2>3, <2>4
<1>12. /\ 1 - 1 = 0 /\ 2 - 1 = 1 /\ 3 - 1 = 2 /\ 1 .. 0 = {}
       /\ 1 \in 1 .. n /\ 2 \in 1 .. n /\ 3 \in 1 .. n
  BY DEF n
<1>13. fold[1 .. 1] = Onward({0}, index, shape, 1)
  BY <1>10, <1>11, <1>12
<1>14. fold[1 .. 2] = Onward(Onward({0}, index, shape, 1), index, shape, 2)
  BY <1>11, <1>12, <1>13
<1>15. fold[1 .. 3] = Onward(Onward(Onward({0}, index, shape, 1), index, shape, 2), index, shape, 3)
  BY <1>11, <1>12, <1>14
<1>16. fold[DOMAIN seq] = fold[1 .. 3]
  BY <1>2 DEF n
<1>17. QED
  BY <1>9, <1>15, <1>16

(* The sequence of a set of no element, and of one.                        *)
LEMMA SeqOfNone == SetToSeq({}) = <<>>
<1>1. Cardinality({}) = 0
  BY FS_EmptySet
<1>2. [1 .. 0 -> {}] = {<<>>}
  <2>1. <<>> \in [1 .. 0 -> {}]
    OBVIOUS
  <2>2. \A f \in [1 .. 0 -> {}] : f = <<>>
    <3>1. 1 .. 0 = {} /\ DOMAIN <<>> = {}
      OBVIOUS
    <3>2. QED
      BY <3>1
  <2>3. QED
    BY <2>1, <2>2
<1>3. IsInjective(<<>>)
  BY DEF IsInjective
<1> DEFINE one == CHOOSE f \in {<<>>} : IsInjective(f)
<1>4. one = <<>>
  BY <1>3
<1>5. QED
  BY <1>1, <1>2, <1>4 DEF SetToSeq

LEMMA SeqOfOne ==
  ASSUME NEW x
  PROVE  SetToSeq({x}) = <<x>>
<1>1. Cardinality({x}) = 1
  BY FS_Singleton
<1>2. [1 .. 1 -> {x}] = {<<x>>}
  <2>1. <<x>> \in [1 .. 1 -> {x}]
    OBVIOUS
  <2>2. ASSUME NEW f \in [1 .. 1 -> {x}]
        PROVE  f = <<x>>
    <3>1. DOMAIN <<x>> = 1 .. 1 /\ <<x>>[1] = x /\ 1 .. 1 = {1}
      OBVIOUS
    <3>2. f[1] = x
      OBVIOUS
    <3>3. QED
      BY <2>1, <3>1, <3>2
  <2>3. QED
    BY <2>1, <2>2
<1>3. IsInjective(<<x>>)
  BY DEF IsInjective
<1> DEFINE one == CHOOSE f \in {<<x>>} : IsInjective(f)
<1>4. one = <<x>>
  BY <1>3
<1>5. QED
  BY <1>1, <1>2, <1>4 DEF SetToSeq

(* What a call gives of a set of at most one part. *)
Answers(got, set) ==
  /\ set = {} => got.parts = <<>>
  /\ \A p \in set : set = {p} => got.parts # <<>> /\ got.parts[1] = p

(* The parts the calls give are such an answer.                            *)
LEMMA PartsAnswer ==
  ASSUME NEW set
  PROVE  Answers(Parts(set), set)
<1>1. ASSUME set = {} PROVE Parts(set).parts = <<>>
  BY <1>1, SeqOfNone DEF Parts
<1>2. ASSUME NEW p \in set, set = {p} PROVE Parts(set).parts # <<>> /\ Parts(set).parts[1] = p
  <2>1. Parts(set).parts = <<p>>
    BY <1>2, SeqOfOne DEF Parts
  <2>2. QED
    BY <2>1
<1>3. QED
  BY <1>1, <1>2 DEF Answers

(* What the calls are given are naturals.                                  *)
LEMMA UsizesAreNatural ==
  /\ Usize \subseteq Nat /\ Lengths \subseteq Nat /\ Sides \subseteq Nat /\ NearMax \subseteq Nat
  /\ Amounts \subseteq Nat /\ Amounts \subseteq Usize
<1>1. Usize \subseteq Nat
  BY UsizeAssumption DEF Usize
<1>2. QED
  BY <1>1, AmountsAssumption DEF Amounts

(* The number of elements of a shape: none when a product on the way, or   *)
(* the last one, does not fit.                                             *)
LEMMA ShapeFits ==
  ASSUME NEW shape \in [1 .. 3 -> Usize]
  PROVE  LET two == shape[1] * shape[2]
         IN CheckedProduct(shape) =
              IF two \in Usize /\ two * shape[3] \in Usize THEN {two * shape[3]} ELSE {}
<1> DEFINE a == shape[1]
           b == shape[2]
           c == shape[3]
<1>1. a \in Usize /\ b \in Usize /\ c \in Usize
  OBVIOUS
<1>2. a \in Nat /\ b \in Nat /\ c \in Nat
  BY <1>1, UsizesAreNatural
<1>3. CheckedProduct(shape) = Products(Products(Products({1}, a), b), c)
  BY ProductOfThree
<1> HIDE DEF a, b, c
<1>4. Products({1}, a) = {a}
  <2>1. Products({1}, a) = CheckedMul(1, a)
    BY <1>2, OneProduct
  <2>2. 1 * a = a
    BY <1>2
  <2>3. QED
    BY <1>1, <2>1, <2>2 DEF CheckedMul
<1>5. Products({a}, b) = IF a * b \in Usize THEN {a * b} ELSE {}
  BY <1>2, OneProduct DEF CheckedMul
<1>6. a * b \in Nat
  BY <1>2
<1>7. CASE a * b \in Usize
  <2> DEFINE two == a * b
  <2> HIDE DEF two
  <2>1. Products({two}, c) = IF two * c \in Usize THEN {two * c} ELSE {}
    BY <1>2, <1>6, OneProduct DEF CheckedMul, two
  <2>2. QED
    BY <1>3, <1>4, <1>5, <1>7, <2>1 DEF two, a, b, c
<1>8. CASE a * b \notin Usize
  BY <1>3, <1>4, <1>5, <1>8, NoProduct DEF a, b, c
<1>9. QED
  BY <1>7, <1>8

(* A step of the place of an element that does fit.                        *)
LEMMA OneOnward ==
  ASSUME NEW a \in Nat, NEW index, NEW shape, NEW k, index[k] \in Nat, shape[k] \in Nat,
         a * shape[k] \in Usize, a * shape[k] + index[k] \in Usize
  PROVE  Onward({a}, index, shape, k) = {a * shape[k] + index[k]}
<1>1. CheckedMul(a, shape[k]) = {a * shape[k]}
  BY DEF CheckedMul
<1>2. CheckedAdd(a * shape[k], index[k]) = {a * shape[k] + index[k]}
  BY DEF CheckedAdd
<1>3. QED
  BY <1>1, <1>2 DEF Onward

(* The place of an element of a tensor: in it, and no other's. *)
Place(i, j, k, b, c) == (i * b + j) * c + k
PlaceOf(index, shape) == Place(index[1], index[2], index[3], shape[2], shape[3])

(* The rows before an element of a row are all within the table.           *)
LEMMA RowsBefore ==
  ASSUME NEW a \in Nat, NEW i \in Nat, NEW b \in Nat, NEW j \in Nat, i < a, j < b
  PROVE  i * b + j \in Nat /\ i * b + j < a * b
<1>1. (a - i) * b >= b
  OBVIOUS
<1>2. (a - i) * b = a * b - i * b
  OBVIOUS
<1>3. i * b \in Nat /\ a * b \in Nat
  OBVIOUS
<1>4. QED
  BY <1>1, <1>2, <1>3

(* An element within the shape is within the tensor, and idx_linear finds  *)
(* it.                                                                     *)
LEMMA PlaceIsInside ==
  ASSUME NEW shape \in [1 .. 3 -> Usize], NEW index \in [1 .. 3 -> Usize], NEW total \in CheckedProduct(shape),
         \A k \in 1 .. 3 : index[k] < shape[k]
  PROVE  /\ IdxLinear(total, shape, index) = {PlaceOf(index, shape)}
         /\ PlaceOf(index, shape) \in Nat /\ PlaceOf(index, shape) < total
<1> DEFINE a == shape[1]
           b == shape[2]
           c == shape[3]
           i == index[1]
           j == index[2]
           k == index[3]
<1>1. /\ a \in Usize /\ b \in Usize /\ c \in Usize /\ i \in Usize /\ j \in Usize /\ k \in Usize
      /\ i < a /\ j < b /\ k < c
  OBVIOUS
<1>2. a \in Nat /\ b \in Nat /\ c \in Nat /\ i \in Nat /\ j \in Nat /\ k \in Nat
  BY <1>1, UsizesAreNatural
<1>3. a * b \in Usize /\ (a * b) * c \in Usize /\ total = (a * b) * c
  BY ShapeFits
<1>4. IdxLinear(total, shape, index) =
        {p \in Onward(Onward(Onward({0}, index, shape, 1), index, shape, 2), index, shape, 3) : p < total}
  BY PlacesOfThree
<1> HIDE DEF a, b, c, i, j, k
<1>5. ASSUME NEW x \in Nat, NEW y \in Usize, x <= y PROVE x \in Usize
  BY <1>5, UsizeAssumption DEF Usize
<1> DEFINE row == i * b + j
           at == row * c + k
<1>6. row \in Nat /\ row < a * b
  BY <1>1, <1>2, RowsBefore
<1> DEFINE two == a * b
<1>7. at \in Nat /\ at < two * c /\ two \in Nat
  <2>1. two \in Nat
    BY <1>2
  <2> HIDE DEF two, row
  <2>2. QED
    BY <1>1, <1>2, <1>6, <2>1, RowsBefore DEF two
<1>8. i * b \in Nat /\ i * b <= row /\ row * c \in Nat /\ row * c <= at
  <2>1. i * b \in Nat
    BY <1>2
  <2>2. i * b <= row
    BY <1>2, <2>1
  <2> HIDE DEF row
  <2>3. row * c \in Nat
    BY <1>2, <1>6
  <2>4. row * c <= at
    BY <1>2, <2>3
  <2>5. QED
    BY <2>1, <2>2, <2>3, <2>4
<1>9. i * b \in Usize /\ row \in Usize /\ row * c \in Usize /\ at \in Usize
  <2> HIDE DEF row, at, two
  <2>1. row \in Usize
    BY <1>3, <1>5, <1>6, <1>7 DEF two
  <2>2. at \in Usize
    BY <1>3, <1>5, <1>7 DEF two
  <2>3. QED
    BY <1>5, <1>8, <2>1, <2>2
<1>10. Onward({0}, index, shape, 1) = {i}
  <2>1. 0 * a = 0 /\ 0 * a + i = i /\ 0 \in Usize
    BY <1>2, UsizeAssumption DEF Usize
  <2>2. QED
    BY <1>1, <1>2, <2>1, OneOnward DEF a, i
<1>11. Onward({i}, index, shape, 2) = {row}
  BY <1>2, <1>9, OneOnward DEF b, j
<1>12. Onward({row}, index, shape, 3) = {at}
  <2> HIDE DEF row
  <2>1. QED
    BY <1>2, <1>6, <1>9, OneOnward DEF c, k
<1>13. PlaceOf(index, shape) = at
  BY DEF PlaceOf, Place, a, b, c, i, j, k
<1> HIDE DEF at, row
<1>14. IdxLinear(total, shape, index) = {at}
  BY <1>3, <1>4, <1>7, <1>10, <1>11, <1>12 DEF two
<1>15. QED
  BY <1>3, <1>7, <1>13, <1>14 DEF two

(* Its place tells the index it was found by.                              *)
LEMMA PlaceTellsIndex ==
  ASSUME NEW i \in Nat, NEW j \in Nat, NEW k \in Nat, NEW b \in Nat, NEW c \in Nat, j < b, k < c
  PROVE  /\ i = Place(i, j, k, b, c) \div (b * c)
         /\ j = (Place(i, j, k, b, c) \div c) % b
         /\ k = Place(i, j, k, b, c) % c
<1> DEFINE at == Place(i, j, k, b, c)
           row == i * b + j
           d == b * c
<1>1. b \in Nat \ {0} /\ c \in Nat \ {0} /\ j \in 0 .. b - 1 /\ k \in 0 .. c - 1 /\ row \in Int
  OBVIOUS
<1>2. row % b = j
  <2>1. row = b * i + j
    OBVIOUS
  <2> HIDE DEF row
  <2>2. QED
    BY <1>1, <2>1, QuotientIs
<1>0. at = row * c + k /\ at \in Int
  BY <1>1 DEF Place
<1>3. at = d * i + (j * c + k)
  BY DEF Place
<1>4. j * c + k \in Nat /\ j * c + k < b * c
  BY RowsBefore
<1>5. d \in Nat \ {0}
  BY <1>1, <1>4
<1> HIDE DEF at
<1> DEFINE rest == j * c + k
<1>7. rest \in 0 .. d - 1
  BY <1>4, <1>5
<1>8. at \div d = i
  <2> HIDE DEF d, rest
  <2>1. i \in Int /\ at = d * i + rest
    BY <1>3 DEF rest
  <2>2. QED
    BY <1>0, <1>5, <1>7, <2>1, QuotientIs
<1>9. at \div c = row /\ at % c = k
  <2> HIDE DEF row
  <2>1. at = c * row + k
    BY <1>0, <1>1
  <2>2. QED
    BY <1>0, <1>1, <2>1, QuotientIs
<1>10. QED
  BY <1>2, <1>8, <1>9 DEF at

(* Rounding up never goes down, and stays within one alignment.            *)
LEMMA AlignUpBounds ==
  ASSUME NEW v \in Nat, NEW a, NEW up \in AlignUp(v, a)
  PROVE  up \in Nat /\ v <= up /\ up < v + a /\ a \in Nat \ {0}
<1>1. a \in Nat \ {0} /\ up = v + Pad(v, a)
  BY AlignmentsAssumption DEF AlignUp
<1>2. v % a \in Int
  BY <1>1
<1>3. Pad(v, a) \in 0 .. a - 1
  BY <1>1, <1>2 DEF Pad
<1>4. QED
  BY <1>1, <1>3

(* A multiple leaves no remainder: the provers know the quotient and the   *)
(* remainder of a division only by what they add up to.                    *)
LEMMA MultipleHasNoRemainder ==
  ASSUME NEW a \in Nat \ {0}, NEW q \in Int
  PROVE  (a * q) % a = 0
<1> DEFINE d == (a * q) \div a
           m == (a * q) % a
<1>1. a * q = a * d + m /\ m \in 0 .. a - 1 /\ d \in Int
  OBVIOUS
<1>2. m = a * (q - d)
  BY <1>1
<1>3. q - d \in Int
  BY <1>1
<1>4. CASE q - d >= 1
  <2>1. a * (q - d) >= a
    BY <1>3, <1>4
  <2>2. QED
    BY <2>1, <1>1, <1>2
<1>5. CASE q - d <= -1
  <2>1. a * (q - d) <= -a
    BY <1>3, <1>5
  <2>2. QED
    BY <2>1, <1>1, <1>2
<1>6. CASE q - d = 0
  BY <1>6, <1>2
<1>7. QED
  BY <1>3, <1>4, <1>5, <1>6

(* What is aligned already stays where it is.                              *)
LEMMA AlignUpKeepsMultiples ==
  ASSUME NEW v \in Nat, NEW a, v % a = 0, NEW up \in AlignUp(v, a)
  PROVE  up = v
<1>1. a \in Nat \ {0} /\ up = v + Pad(v, a)
  BY AlignmentsAssumption DEF AlignUp
<1>2. Pad(v, a) = a % a
  BY <1>1 DEF Pad
<1>3. a % a = 0
  BY <1>1
<1>4. QED
  BY <1>1, <1>2, <1>3

-----------------------------------------------------------------------------

(* A part of a slice is what was asked for, and lies inside; what fits is  *)
(* given (EdgeData::weights, TensorViewMut::from_slice_offset).            *)
THEOREM PartsAreInside ==
  ASSUME NEW total \in Usize, NEW start \in Nat, NEW len \in Nat
  PROVE  Get(total, start, len) = IF start + len <= total THEN {Part(start, len)} ELSE {}
<1>1. CheckedAdd(start, len) = IF start + len \in Usize THEN {start + len} ELSE {}
  BY DEF CheckedAdd
<1>2. CASE start + len <= total
  <2>1. start + len \in Usize
    BY <1>2, UsizeAssumption DEF Usize
  <2>2. {e \in CheckedAdd(start, len) : e <= total} = {start + len}
    BY <1>1, <1>2, <2>1
  <2>3. (start + len) - start = len
    OBVIOUS
  <2>4. QED
    BY <1>2, <2>2, <2>3 DEF Get
<1>3. CASE ~(start + len <= total)
  <2>1. {e \in CheckedAdd(start, len) : e <= total} = {}
    BY <1>1, <1>3
  <2>2. QED
    BY <1>3, <2>1 DEF Get
<1>4. QED
  BY <1>2, <1>3

-----------------------------------------------------------------------------
(* Layouts. *)

(* The slot planned at an index starts at that many slots, if the          *)
(* alignment divides the size of a slot; rounding up moves nothing.        *)
LEMMA SlotStartsAtItsIndex ==
  ASSUME NEW layout, layout.slot \in Nat, NEW align \in Alignments, layout.slot % align = 0,
         NEW index \in Nat, NEW p \in PlanSlot(layout, index, align)
  PROVE  p = Part(index * layout.slot, layout.slot) /\ index * layout.slot + layout.slot <= layout.total
<1> DEFINE slot == layout.slot
           q == slot \div align
<1>1. align \in Nat \ {0}
  BY AlignmentsAssumption
<1>2. PICK a \in AlignUp(index * slot, align) :
        p = Part(a, slot) /\ \E end \in CheckedAdd(a, slot) : end <= layout.total
  BY DEF PlanSlot, CheckedMul
<1>3. a + slot <= layout.total
  BY <1>2 DEF CheckedAdd
<1>4. slot = align * q /\ q \in Int
  BY <1>1
<1>5. index * slot = align * (index * q) /\ index * q \in Int
  BY <1>1, <1>4
<1>6. (index * slot) % align = 0
  BY <1>1, <1>5, MultipleHasNoRemainder
<1>7. index * slot \in Nat
  OBVIOUS
<1>8. a = index * slot
  BY <1>2, <1>3, <1>6, <1>7, AlignUpKeepsMultiples
<1>9. QED
  BY <1>2, <1>3, <1>8

(* Two slots of one layout, planned with an alignment that divides the     *)
(* size of a slot, share no byte and lie inside the region, however large  *)
(* index, slot and region are (ArenaLayout::plan_slot).                    *)
THEOREM SlotsStayApart ==
  ASSUME NEW layout, layout.slot \in Nat, NEW align \in Alignments, layout.slot % align = 0,
         NEW i \in Nat, NEW j \in Nat, i # j,
         NEW p \in PlanSlot(layout, i, align), NEW q \in PlanSlot(layout, j, align)
  PROVE  Apart(p, q) /\ Inside(p, layout.total) /\ Inside(q, layout.total)
<1> DEFINE slot == layout.slot
<1>1. p = Part(i * slot, slot) /\ i * slot + slot <= layout.total
  BY SlotStartsAtItsIndex
<1>2. q = Part(j * slot, slot) /\ j * slot + slot <= layout.total
  BY SlotStartsAtItsIndex
<1>3. ASSUME NEW m \in Nat, NEW n \in Nat, m < n
      PROVE  m * slot + slot <= n * slot
  <2>1. (n - m) * slot >= slot
    BY <1>3
  <2>2. QED
    BY <2>1, <1>3
<1>4. i * slot + slot <= j * slot \/ j * slot + slot <= i * slot
  BY <1>3
<1>5. QED
  BY <1>1, <1>2, <1>4 DEF Apart, Inside, Part

(* The heap of a layout begins after its stack and ends where the layout   *)
(* does (ArenaLayout::new).                                                *)
THEOREM HeapFollowsStack ==
  ASSUME NEW low \in Nat, NEW high \in Nat, NEW slot \in Nat, NEW align,
         NEW layout \in NewLayout(low, high, slot, align)
  PROVE  /\ Apart(layout.stack, layout.heap)
         /\ Inside(layout.stack, layout.total) /\ Inside(layout.heap, layout.total)
<1>1. PICK o \in AlignUp(low, align) : \E total \in CheckedAdd(o, high) :
        layout = [stack |-> Part(0, low), heap |-> Part(o, high), slot |-> slot, total |-> total]
  BY DEF NewLayout
<1>2. o \in Nat /\ low <= o
  BY AlignUpBounds
<1>3. layout = [stack |-> Part(0, low), heap |-> Part(o, high), slot |-> slot, total |-> o + high]
  BY <1>1 DEF CheckedAdd
<1>4. QED
  BY <1>2, <1>3 DEF Apart, Inside, Part

-----------------------------------------------------------------------------
(* The regions of a node. *)

(* Where the sizes add up to a usize, a split does not panic: it gives     *)
(* nothing if they exceed the buffer, and otherwise three regions of at    *)
(* least the sizes asked for, one after the other up to its end            *)
(* (NodeMemory::split).                                                    *)
THEOREM RegionsShareTheBuffer ==
  ASSUME NEW total \in Usize, NEW recurrent \in Nat, NEW moments \in Nat, NEW stats \in Nat,
         recurrent + moments + stats \in Usize
  PROVE  LET sum == recurrent + moments + stats
         IN Split(total, recurrent, moments, stats) =
              [panic |-> FALSE,
               parts |-> IF sum > total THEN <<>>
                         ELSE <<Part(0, recurrent), Part(recurrent, moments),
                                Part(recurrent + moments, stats + (total - sum))>>]
<1> DEFINE sum == recurrent + moments + stats
<1>1. UsizeMax \in Nat /\ total \in Nat /\ sum \in 0 .. UsizeMax
  BY UsizeAssumption DEF Usize
<1>2. sum % (UsizeMax + 1) = sum
  BY <1>1
<1>3. CASE sum > total
  BY <1>1, <1>2, <1>3 DEF Split
<1>4. CASE sum <= total
  <2>1. ~(total < sum) /\ ~(recurrent > total) /\ ~(moments > total - recurrent)
    BY <1>1, <1>4
  <2>2. total - recurrent - moments = stats + (total - sum)
    BY <1>1
  <2>3. QED
    BY <1>2, <1>4, <2>1, <2>2 DEF Split
<1>5. QED
  BY <1>1, <1>3, <1>4

-----------------------------------------------------------------------------
(* Bytes. *)

(* Moving bytes within a buffer puts at the destination what the source    *)
(* held before, also where the two overlap, and changes nothing else; a    *)
(* move that does not fit changes nothing (BytesMut::copy_within).         *)
THEOREM MovesTakeWhatWasThere ==
  ASSUME NEW S, NEW data \in Seq(S), Len(data) \in Usize,
         NEW from \in Nat, NEW to \in Nat, NEW dest \in Nat, NEW i \in DOMAIN data
  PROVE  LET fits == from <= to /\ to <= Len(data) /\ dest + (to - from) <= Len(data)
         IN CopyWithin(data, from, to, dest)[i] =
              IF fits /\ i > dest /\ i <= dest + (to - from) THEN data[from + (i - dest)] ELSE data[i]
<1> DEFINE n == to - from
           fits == from <= to /\ to <= Len(data) /\ dest + n <= Len(data)
<1>1. CheckedAdd(dest, n) = IF dest + n \in Usize THEN {dest + n} ELSE {}
  BY DEF CheckedAdd
<1>2. CASE ~fits
  <2>1. from > to \/ to > Len(data) \/ ~(\E end \in CheckedAdd(dest, n) : end <= Len(data))
    BY <1>1, <1>2
  <2>2. CopyWithin(data, from, to, dest) = data
    BY <2>1 DEF CopyWithin
  <2>3. QED
    BY <1>2, <2>2
<1>3. CASE fits
  <2>1. n \in Nat /\ dest + n \in Usize
    BY <1>3, UsizeAssumption DEF Usize
  <2>2. \E end \in CheckedAdd(dest, to - from) : end <= Len(data)
    BY <1>1, <1>3, <2>1
  <2>3. CopyWithin(data, from, to, dest) = Written(data, Part(dest, n), SubSeq(data, from + 1, to))
    BY <1>3, <2>2 DEF CopyWithin
  <2>4. i \in Nat
    OBVIOUS
  <2>5. CASE i > dest /\ i <= dest + n
    <3>1. Written(data, Part(dest, n), SubSeq(data, from + 1, to))[i] = SubSeq(data, from + 1, to)[i - dest]
      BY <2>1, <2>4, <2>5 DEF Written, Part
    <3>2. i - dest \in 1 .. n
      BY <2>1, <2>4, <2>5
    <3>3. SubSeq(data, from + 1, to)[i - dest] = data[from + (i - dest)]
      BY <1>3, <3>2
    <3>4. QED
      BY <1>3, <2>3, <2>5, <3>1, <3>3
  <2>6. CASE ~(i > dest /\ i <= dest + n)
    <3>1. Written(data, Part(dest, n), SubSeq(data, from + 1, to))[i] = data[i]
      BY <2>1, <2>4, <2>6 DEF Written, Part
    <3>2. QED
      BY <2>3, <2>6, <3>1
  <2>7. QED
    BY <2>5, <2>6
<1>4. QED
  BY <1>2, <1>3

-----------------------------------------------------------------------------
(* What each call gives, as the property states it. *)

SlotIsGiven(layout, index, align, got) ==
  /\ (index + 1) * layout.slot > layout.total => got.parts = <<>>
  /\ got.parts # <<>> => Inside(got.parts[1], layout.total) /\ got.parts[1].len = layout.slot
  /\ layout.slot % align = 0 =>
       /\ got.parts = <<>> => (index + 1) * layout.slot > layout.total
       /\ got.parts # <<>> => \A other \in Lengths \ {index} :
                     \A p \in PlanSlot(layout, other, align) : Apart(got.parts[1], p)

(* The slot plan_slot gives.                                               *)
LEMMA SlotIs ==
  ASSUME NEW layout, layout.slot \in Nat \ {0}, layout.total \in Usize, NEW index \in Nat, NEW align \in Alignments,
         NEW got, Answers(got, PlanSlot(layout, index, align))
  PROVE  SlotIsGiven(layout, index, align, got)
<1> DEFINE slot == layout.slot
           plan == PlanSlot(layout, index, align)
           start == index * slot
<1>1. align \in Nat \ {0} /\ slot \in Nat \ {0} /\ layout.total \in Nat
  BY AlignmentsAssumption, UsizesAreNatural
<1>2. start \in Nat /\ (index + 1) * slot = start + slot
  BY <1>1
<1> HIDE DEF start
<1>3. plan = {Part(at, slot) : at \in {a \in UNION {AlignUp(o, align) : o \in CheckedMul(index, slot)} :
                                          \E end \in CheckedAdd(a, slot) : end <= layout.total}}
  BY DEF PlanSlot
<1>4. ASSUME NEW p \in plan
      PROVE  /\ start \in Usize /\ p.len = slot /\ p.start \in AlignUp(start, align)
             /\ p.start \in Nat /\ start <= p.start /\ p.start + slot <= layout.total
             /\ p = Part(p.start, slot)
  <2>0. PICK a \in UNION {AlignUp(o, align) : o \in CheckedMul(index, slot)} :
          p = Part(a, slot) /\ \E end \in CheckedAdd(a, slot) : end <= layout.total
    BY <1>3
  <2>1. PICK o \in CheckedMul(index, slot) : a \in AlignUp(o, align)
    BY <2>0
  <2>2. o = start /\ start \in Usize
    BY <2>1 DEF CheckedMul, start
  <2>3. a + slot <= layout.total
    BY <2>0 DEF CheckedAdd
  <2>4. p.start = a /\ p.len = slot
    BY <2>0 DEF Part
  <2>5. a \in Nat /\ start <= a
    BY <1>2, <2>1, <2>2, AlignUpBounds
  <2>6. QED
    BY <2>0, <2>1, <2>2, <2>3, <2>4, <2>5
<1>5. \A v : AlignUp(v, align) = IF v + (align - 1) \in Usize THEN {v + Pad(v, align)} ELSE {}
  BY DEF AlignUp
<1>6. \A p, q \in plan : p = q
  <2> SUFFICES ASSUME NEW p \in plan, NEW q \in plan PROVE p = q
    OBVIOUS
  <2>1. p.start = q.start
    BY <1>4, <1>5
  <2>2. QED
    BY <1>4, <2>1
<1>7. (got.parts = <<>> /\ plan = {}) \/ (got.parts # <<>> /\ got.parts[1] \in plan)
  BY <1>6 DEF Answers
<1>8. start + slot > layout.total => got.parts = <<>>
  BY <1>1, <1>2, <1>4, <1>7
<1>9. got.parts # <<>> => Inside(got.parts[1], layout.total) /\ got.parts[1].len = slot
  BY <1>4, <1>7 DEF Inside
<1>10. ASSUME slot % align = 0, start + slot <= layout.total
       PROVE  plan # {}
  <2>1. start + slot \in Usize /\ start \in Usize
    BY <1>1, <1>2, <1>10, UsizeAssumption DEF Usize
  <2>2. align <= slot
    <3>1. slot = align * (slot \div align) + (slot % align) /\ slot \div align \in Int
      BY <1>1
    <3>2. slot = align * (slot \div align)
      BY <1>1, <1>10, <3>1
    <3> DEFINE q == slot \div align
    <3> HIDE DEF q
    <3>3. q \in Int /\ slot = align * q
      BY <3>1, <3>2 DEF q
    <3>4. q >= 1
      <4>1. q <= 0 => align * q <= 0
        BY <1>1, <3>3
      <4>2. QED
        BY <1>1, <3>3, <4>1
    <3>5. align * q >= align
      BY <1>1, <3>3, <3>4
    <3>6. QED
      BY <3>3, <3>5
  <2>3. start + (align - 1) \in Usize
    BY <1>1, <1>2, <2>1, <2>2, UsizeAssumption DEF Usize
  <2>4. start + Pad(start, align) \in AlignUp(start, align)
    BY <1>5, <2>3
  <2>5. start % align = 0
    <3>1. start = align * (index * (slot \div align)) /\ index * (slot \div align) \in Int
      <4>1. slot = align * (slot \div align) /\ slot \div align \in Int
        BY <1>1, <1>10
      <4> DEFINE q == slot \div align
      <4> HIDE DEF q
      <4>2. slot = align * q /\ q \in Int
        BY <4>1 DEF q
      <4>3. index * slot = align * (index * q) /\ index * q \in Int
        BY <1>1, <4>2
      <4>4. QED
        BY <4>3 DEF q, start
    <3>2. QED
      BY <1>1, <3>1, MultipleHasNoRemainder
  <2>6. start + Pad(start, align) = start
    BY <1>2, <2>4, <2>5, AlignUpKeepsMultiples
  <2>7. start \in AlignUp(start, align)
    BY <2>4, <2>6
  <2>8. start + slot \in CheckedAdd(start, slot)
    BY <2>1 DEF CheckedAdd
  <2>9. start \in CheckedMul(index, slot)
    BY <2>1 DEF CheckedMul, start
  <2>10. start \in UNION {AlignUp(o, align) : o \in CheckedMul(index, slot)}
    BY <2>7, <2>9
  <2>11. Part(start, slot) \in plan
    BY <1>3, <1>10, <2>8, <2>10
  <2>12. QED
    BY <2>11
<1>11. ASSUME slot % align = 0, got.parts = <<>>
       PROVE  start + slot > layout.total
  BY <1>1, <1>2, <1>7, <1>10, <1>11
<1>12. ASSUME slot % align = 0, got.parts # <<>>, NEW other \in Lengths \ {index}, NEW p \in PlanSlot(layout, other, align)
       PROVE  Apart(got.parts[1], p)
  <2>1. other \in Nat /\ other # index
    BY UsizesAreNatural
  <2>2. got.parts[1] \in PlanSlot(layout, index, align)
    BY <1>7, <1>12
  <2> HIDE DEF plan
  <2>3. QED
    BY <1>12, <2>1, <2>2, SlotsStayApart
<1> HIDE DEF plan
<1>13. QED
  BY <1>2, <1>8, <1>9, <1>11, <1>12 DEF SlotIsGiven

(* The regions of a layout lie in it. *)
LEMMA LayoutIs ==
  ASSUME NEW low \in Nat, NEW high \in Nat, NEW slot \in Nat, NEW align,
         NEW layout \in NewLayout(low, high, slot, align)
  PROVE  /\ layout.slot \in Nat \ {0} /\ layout.total \in Usize
         /\ layout.stack = Part(0, low) /\ low <= layout.total
         /\ \E o \in Nat : layout.heap = Part(o, high) /\ low <= o /\ o + high = layout.total
<1>1. PICK o \in AlignUp(low, align) : \E total \in CheckedAdd(o, high) :
        layout = [stack |-> Part(0, low), heap |-> Part(o, high), slot |-> slot, total |-> total]
  BY DEF NewLayout
<1>2. o \in Nat /\ low <= o
  BY AlignUpBounds
<1>3. layout = [stack |-> Part(0, low), heap |-> Part(o, high), slot |-> slot, total |-> o + high] /\ o + high \in Usize
  BY <1>1 DEF CheckedAdd
<1>4. slot # 0
  BY DEF NewLayout
<1>5. low <= o + high
  BY <1>2
<1>6. QED
  BY <1>2, <1>3, <1>4, <1>5

(* What a region is refused for, and what is given.                        *)
RegionIsGiven(room, len, got) ==
  /\ got.parts = <<>> <=> len > room
  /\ got.parts # <<>> => got.parts[1] = len

LEMMA RegionIs ==
  ASSUME NEW start \in Nat, NEW room \in Nat, NEW len \in Nat, NEW align \in Alignments,
         NEW got, Answers(got, PlanSize(Part(start, room), len, align))
  PROVE  RegionIsGiven(room, len, got)
<1>1. PlanSize(Part(start, room), len, align) = IF len <= room THEN {len} ELSE {}
  BY DEF PlanSize, Part
<1>2. CASE len <= room
  BY <1>1, <1>2 DEF Answers, RegionIsGiven
<1>3. CASE ~ (len <= room)
  BY <1>1, <1>3 DEF Answers, RegionIsGiven
<1>4. QED
  BY <1>2, <1>3

(* What a typed view is refused for, and what is given.                    *)
TypedIsGiven(address, bytes, size, got) ==
  IF got.parts = <<>> THEN bytes = 0 \/ bytes % size # 0 \/ address % size # 0
  ELSE got.parts[1].len * size = bytes /\ address % size = 0

LEMMA TypedIs ==
  ASSUME NEW address \in Nat, NEW bytes \in Nat, NEW size \in Alignments, NEW got,
         Answers(got, FromCarve(address, bytes, size))
  PROVE  TypedIsGiven(address, bytes, size, got)
<1>1. size \in Nat \ {0}
  BY AlignmentsAssumption
<1> DEFINE fits == address % size = 0 /\ bytes # 0 /\ bytes % size = 0
           n == bytes \div size
<1>2. FromCarve(address, bytes, size) = IF fits THEN {Part(0, n)} ELSE {}
  BY DEF FromCarve
<1>3. CASE fits
  <2>1. got.parts # <<>> /\ got.parts[1] = Part(0, n)
    BY <1>2, <1>3 DEF Answers
  <2>2. bytes = size * n + (bytes % size) /\ n \in Int
    BY <1>1
  <2> HIDE DEF n
  <2>3. n * size = bytes
    BY <1>1, <1>3, <2>2
  <2>4. Part(0, n).len = n
    BY DEF Part
  <2>5. QED
    BY <1>3, <2>1, <2>3, <2>4 DEF TypedIsGiven
<1>4. CASE ~fits
  <2>1. got.parts = <<>>
    BY <1>2, <1>4 DEF Answers
  <2>2. QED
    BY <1>4, <2>1 DEF TypedIsGiven
<1>5. QED
  BY <1>3, <1>4

(* What a write is refused for, and what the bytes are after it.           *)
WriteIsGiven(data, offset, value, got) ==
  /\ got.parts = <<>> <=> offset + Len(value) > Len(data)
  /\ \A i \in DOMAIN data :
       got.now[i] = IF got.parts # <<>> /\ i - offset \in DOMAIN value
                    THEN value[i - offset] ELSE data[i]

LEMMA WriteIs ==
  ASSUME NEW data \in Seq(Int), Len(data) \in Usize, NEW offset \in Nat, NEW value \in Seq(Int), NEW got,
         Answers(got, WriteAt(data, offset, value)),
         got.now = IF WriteAt(data, offset, value) = {} THEN data
                   ELSE Written(data, CHOOSE q \in WriteAt(data, offset, value) : TRUE, value)
  PROVE  WriteIsGiven(data, offset, value, got)
<1> DEFINE total == Len(data)
           n == Len(value)
           fits == offset + n <= total
           part == Part(offset, n)
<1>1. total \in Nat /\ n \in Nat /\ DOMAIN data = 1 .. total /\ DOMAIN value = 1 .. n
  OBVIOUS
<1>2. Get(total, offset, n) = IF fits THEN {part} ELSE {}
  BY <1>1, PartsAreInside
<1>3. part.start = offset /\ part.len = n
  BY DEF Part
<1>4. WriteAt(data, offset, value) = IF fits THEN {part} ELSE {}
  <2> HIDE DEF part, fits, total, n
  <2>1. WriteAt(data, offset, value) = {Part(p.start, p.len) : p \in Get(total, offset, n)}
    BY DEF WriteAt, total, n
  <2>2. Part(part.start, part.len) = part
    BY <1>3 DEF part
  <2>3. QED
    BY <1>2, <2>1, <2>2
<1>5. CASE fits
  <2>1. got.parts # <<>> /\ WriteAt(data, offset, value) = {part}
    BY <1>4, <1>5 DEF Answers
  <2>2. got.now = Written(data, part, value)
    BY <2>1
  <2>3. ASSUME NEW i \in 1 .. total
        PROVE  got.now[i] = IF i - offset \in 1 .. n THEN value[i - offset] ELSE data[i]
    <3>1. i \in offset + 1 .. offset + n <=> i - offset \in 1 .. n
      BY <1>1
    <3> HIDE DEF part, total, n
    <3>2. QED
      BY <1>1, <1>3, <2>2, <3>1 DEF Written
  <2>4. QED
    BY <1>1, <1>5, <2>1, <2>3 DEF WriteIsGiven
<1>6. CASE ~fits
  <2>1. got.parts = <<>> /\ got.now = data
    BY <1>4, <1>6 DEF Answers
  <2>2. offset + Len(value) > Len(data)
    BY <1>1, <1>6
  <2>3. QED
    BY <2>1, <2>2 DEF WriteIsGiven
<1>7. QED
  BY <1>5, <1>6

(* What the bytes are after a move inside them, which may overlap.         *)
MoveIsGiven(data, from, to, dest, got) ==
  LET n == to - from
      fits == n >= 0 /\ to <= Len(data) /\ dest + n <= Len(data)
  IN \A i \in DOMAIN data :
       got.now[i] = IF fits /\ i - dest \in 1 .. n THEN data[from + i - dest] ELSE data[i]

LEMMA MoveIs ==
  ASSUME NEW data \in Seq(Int), Len(data) \in Usize, NEW from \in Nat, NEW to \in Nat, NEW dest \in Nat, NEW got,
         got.now = CopyWithin(data, from, to, dest)
  PROVE  MoveIsGiven(data, from, to, dest, got)
<1> DEFINE n == to - from
           fits == n >= 0 /\ to <= Len(data) /\ dest + n <= Len(data)
<1>1. Len(data) \in Nat /\ DOMAIN data = 1 .. Len(data)
  OBVIOUS
<1>2. ASSUME NEW i \in DOMAIN data
      PROVE  got.now[i] = IF fits /\ i - dest \in 1 .. n THEN data[from + i - dest] ELSE data[i]
  <2>1. i \in Nat
    BY <1>1
  <2>2. CopyWithin(data, from, to, dest)[i] =
          IF (from <= to /\ to <= Len(data) /\ dest + (to - from) <= Len(data)) /\ i > dest /\ i <= dest + (to - from)
          THEN data[from + (i - dest)] ELSE data[i]
    BY MovesTakeWhatWasThere
  <2>3. (from <= to <=> n >= 0) /\ (i - dest \in 1 .. n <=> i > dest /\ i <= dest + (to - from))
    BY <2>1
  <2>4. from + (i - dest) = from + i - dest
    BY <2>1
  <2>5. QED
    BY <2>2, <2>3, <2>4
<1>3. QED
  BY <1>2 DEF MoveIsGiven

(* What a view of a tensor is refused for, and what is given.              *)
ViewIsGiven(total, shape, offset, got) ==
  /\ got.parts = <<>> <=> \/ offset + Product(shape) > total
                          \/ shape[1] * shape[2] > UsizeMax
  /\ got.parts # <<>> => got.parts[1] = Part(offset, Product(shape))

LEMMA ViewIs ==
  ASSUME NEW total \in Usize, NEW shape \in [1 .. 3 -> Usize], NEW offset \in Nat, NEW got,
         Answers(got, FromSliceOffset(total, shape, offset))
  PROVE  ViewIsGiven(total, shape, offset, got)
<1> DEFINE two == shape[1] * shape[2]
           all == Product(shape)
<1>1. two \in Nat /\ all = two * shape[3] /\ all \in Nat
  <2>0. shape[1] \in Usize /\ shape[2] \in Usize /\ shape[3] \in Usize
    OBVIOUS
  <2>1. shape[1] \in Nat /\ shape[2] \in Nat /\ shape[3] \in Nat
    BY <2>0, UsizesAreNatural
  <2>2. two \in Nat
    BY <2>1
  <2> HIDE DEF two
  <2>3. two * shape[3] \in Nat
    BY <2>1, <2>2
  <2>4. QED
    BY <2>2, <2>3 DEF Product, two
<1>2. CheckedProduct(shape) = IF two \in Usize /\ two * shape[3] \in Usize THEN {two * shape[3]} ELSE {}
  BY ShapeFits
<1>3. UsizeMax \in Nat /\ total \in Nat /\ total <= UsizeMax
  BY UsizeAssumption DEF Usize
<1> HIDE DEF two, all
<1>4. (two \in Usize <=> two <= UsizeMax) /\ (all \in Usize <=> all <= UsizeMax)
  BY <1>1, <1>3 DEF Usize
<1>5. CASE two > UsizeMax
  <2>1. FromSliceOffset(total, shape, offset) = {}
    BY <1>1, <1>2, <1>3, <1>4, <1>5 DEF FromSliceOffset
  <2>2. got.parts = <<>>
    BY <2>1 DEF Answers
  <2>3. QED
    BY <1>5, <2>2 DEF ViewIsGiven, two
<1>6. CASE two <= UsizeMax /\ all > UsizeMax
  <2>1. FromSliceOffset(total, shape, offset) = {}
    BY <1>1, <1>2, <1>3, <1>4, <1>6 DEF FromSliceOffset
  <2>2. got.parts = <<>>
    BY <2>1 DEF Answers
  <2>3. offset + all > total
    BY <1>1, <1>3, <1>6
  <2>4. QED
    BY <2>2, <2>3 DEF ViewIsGiven, all
<1>7. CASE two <= UsizeMax /\ all <= UsizeMax
  <2>1. FromSliceOffset(total, shape, offset) = Get(total, offset, all)
    BY <1>1, <1>2, <1>4, <1>7 DEF FromSliceOffset
  <2>2. Get(total, offset, all) = IF offset + all <= total THEN {Part(offset, all)} ELSE {}
    BY <1>1, PartsAreInside
  <2>3. ~ (two > UsizeMax) /\ (offset + all > total <=> ~ (offset + all <= total))
    BY <1>1, <1>3, <1>7
  <2>4. CASE offset + all <= total
    <3>1. got.parts # <<>> /\ got.parts[1] = Part(offset, all)
      BY <2>1, <2>2, <2>4 DEF Answers
    <3>2. QED
      BY <2>3, <2>4, <3>1 DEF ViewIsGiven, all, two
  <2>5. CASE ~ (offset + all <= total)
    <3>1. got.parts = <<>>
      BY <2>1, <2>2, <2>5 DEF Answers
    <3>2. QED
      BY <2>3, <2>5, <3>1 DEF ViewIsGiven, all, two
  <2>6. QED
    BY <2>4, <2>5
<1>8. QED
  BY <1>1, <1>3, <1>5, <1>6, <1>7

(* What an index is refused for, and what is given.                        *)
IndexIsGiven(total, shape, index, got) ==
  /\ got.parts = <<>> <=> \E k \in 1 .. 3 : index[k] >= shape[k]
  /\ got.parts # <<>> =>
       /\ Inside(got.parts[1], total)
       /\ index = <<got.parts[1].start \div (shape[2] * shape[3]),
                    (got.parts[1].start \div shape[3]) % shape[2],
                    got.parts[1].start % shape[3]>>

LEMMA IndexIs ==
  ASSUME NEW shape \in [1 .. 3 -> Usize], NEW index \in [1 .. 3 -> Usize], NEW total \in CheckedProduct(shape), NEW got,
         Answers(got, {Part(i, 1) : i \in IdxLinear(total, shape, index)})
  PROVE  IndexIsGiven(total, shape, index, got)
<1>1. CASE \E k \in 1 .. 3 : index[k] >= shape[k]
  <2>1. IdxLinear(total, shape, index) = {}
    BY <1>1 DEF IdxLinear
  <2>2. got.parts = <<>>
    BY <2>1 DEF Answers
  <2>3. QED
    BY <1>1, <2>2 DEF IndexIsGiven
<1>2. CASE ~ \E k \in 1 .. 3 : index[k] >= shape[k]
  <2>1. \A k \in 1 .. 3 : index[k] \in Nat /\ shape[k] \in Nat
    BY UsizesAreNatural
  <2>2. \A k \in 1 .. 3 : index[k] < shape[k]
    BY <1>2, <2>1
  <2> DEFINE at == PlaceOf(index, shape)
  <2>3. IdxLinear(total, shape, index) = {at} /\ at \in Nat /\ at < total
    BY <2>2, PlaceIsInside
  <2>4. at = Place(index[1], index[2], index[3], shape[2], shape[3])
    BY DEF PlaceOf
  <2> HIDE DEF at
  <2>5. got.parts # <<>> /\ got.parts[1] = Part(at, 1)
    BY <2>3 DEF Answers
  <2>6. Part(at, 1).start = at /\ Part(at, 1).len = 1
    BY DEF Part
  <2>7. Inside(got.parts[1], total)
    <3>1. total \in Nat
      <4>1. total \in Usize
        BY ShapeFits
      <4>2. QED
        BY <4>1, UsizesAreNatural
    <3>2. QED
      BY <2>3, <2>5, <2>6, <3>1 DEF Inside
  <2>8. index[1] = at \div (shape[2] * shape[3]) /\ index[2] = (at \div shape[3]) % shape[2] /\ index[3] = at % shape[3]
    <3>1. /\ index[1] \in Nat /\ index[2] \in Nat /\ index[3] \in Nat /\ shape[2] \in Nat /\ shape[3] \in Nat
          /\ index[2] < shape[2] /\ index[3] < shape[3]
      BY <2>1, <2>2
    <3> DEFINE i == index[1]
               j == index[2]
               k == index[3]
               b == shape[2]
               c == shape[3]
    <3>2. i \in Nat /\ j \in Nat /\ k \in Nat /\ b \in Nat /\ c \in Nat /\ j < b /\ k < c /\ at = Place(i, j, k, b, c)
      BY <2>4, <3>1
    <3> HIDE DEF i, j, k, b, c
    <3>3. i = at \div (b * c) /\ j = (at \div c) % b /\ k = at % c
      BY <3>2, PlaceTellsIndex
    <3>4. QED
      BY <3>3 DEF i, j, k, b, c
  <2>9. index = <<index[1], index[2], index[3]>>
    OBVIOUS
  <2>10. QED
    BY <1>2, <2>5, <2>6, <2>7, <2>8, <2>9 DEF IndexIsGiven
<1>3. QED
  BY <1>1, <1>2

(* What a region of the weights is refused for, and what is given.         *)
WeightsAreGiven(total, offset, len, got) ==
  /\ got.parts = <<>> <=> offset + len > total
  /\ got.parts # <<>> => got.parts[1] = Part(offset, len)

LEMMA WeightsAre ==
  ASSUME NEW total \in Usize, NEW offset \in Nat, NEW len \in Nat, NEW got,
         Answers(got, Weights(total, offset, len))
  PROVE  WeightsAreGiven(total, offset, len, got)
<1>1. Weights(total, offset, len) = IF offset + len <= total THEN {Part(offset, len)} ELSE {}
  BY PartsAreInside DEF Weights
<1>2. total \in Nat
  BY UsizesAreNatural
<1>3. CASE offset + len <= total
  <2>1. got.parts # <<>> /\ got.parts[1] = Part(offset, len)
    BY <1>1, <1>3 DEF Answers
  <2>2. QED
    BY <1>2, <1>3, <2>1 DEF WeightsAreGiven
<1>4. CASE ~ (offset + len <= total)
  <2>1. got.parts = <<>>
    BY <1>1, <1>4 DEF Answers
  <2>2. QED
    BY <1>2, <1>4, <2>1 DEF WeightsAreGiven
<1>5. QED
  BY <1>3, <1>4

(* What a split is refused for, when it panics, and what is given.         *)
SplitIsGiven(total, lens, got) ==
  LET sum == lens[1] + lens[2] + lens[3] IN
  /\ sum <= UsizeMax =>
       /\ ~got.panic
       /\ got.parts = <<>> <=> sum > total
       /\ got.parts # <<>> => got.parts[3].len >= lens[3]
  /\ got.parts # <<>> =>
       /\ \A k \in 1 .. 2 : got.parts[k].len = lens[k]
       /\ \A k \in 1 .. 3 : Inside(got.parts[k], total)
       /\ \A k, m \in 1 .. 3 : k # m => Apart(got.parts[k], got.parts[m])

LEMMA SplitIs ==
  ASSUME NEW total \in Usize, NEW recurrent \in Nat, NEW moments \in Nat, NEW stats \in Nat
  PROVE  SplitIsGiven(total, <<recurrent, moments, stats>>, Split(total, recurrent, moments, stats))
<1> DEFINE sum == recurrent + moments + stats
           got == Split(total, recurrent, moments, stats)
           rest == total - recurrent - moments
           three == <<Part(0, recurrent), Part(recurrent, moments), Part(recurrent + moments, rest)>>
           lens == <<recurrent, moments, stats>>
<1>1. total \in Nat /\ UsizeMax \in Nat /\ sum \in Nat /\ (sum <= UsizeMax => sum \in Usize)
  BY UsizesAreNatural, UsizeAssumption DEF Usize
<1>2. got.parts = <<>> \/ (got.parts = three /\ recurrent <= total /\ moments <= total - recurrent)
  BY <1>1 DEF Split
<1>3. three # <<>> /\ three[1] = Part(0, recurrent) /\ three[2] = Part(recurrent, moments) /\ three[3] = Part(recurrent + moments, rest)
  OBVIOUS
<1>4. lens[1] = recurrent /\ lens[2] = moments /\ lens[3] = stats
  OBVIOUS
<1>5. ASSUME sum <= UsizeMax
      PROVE  ~got.panic /\ (got.parts = <<>> <=> sum > total) /\ (got.parts # <<>> => rest >= stats)
  <2>1. got = [panic |-> FALSE,
               parts |-> IF sum > total THEN <<>>
                         ELSE <<Part(0, recurrent), Part(recurrent, moments),
                                Part(recurrent + moments, stats + (total - sum))>>]
    BY <1>1, <1>5, RegionsShareTheBuffer
  <2>2. ~got.panic /\ (got.parts = <<>> <=> sum > total)
    BY <2>1
  <2>3. ~ (sum > total) => rest >= stats
    BY <1>1
  <2>4. QED
    BY <2>2, <2>3
<1> HIDE DEF three, got, lens
<1>6. ASSUME got.parts # <<>>
      PROVE  /\ \A k \in 1 .. 2 : got.parts[k].len = lens[k]
             /\ \A k \in 1 .. 3 : Inside(got.parts[k], total)
             /\ \A k, m \in 1 .. 3 : k # m => Apart(got.parts[k], got.parts[m])
             /\ got.parts[3].len = rest
  <2>1. got.parts = three /\ recurrent <= total /\ moments <= total - recurrent
    BY <1>2, <1>6
  <2>2. /\ three[1].start = 0 /\ three[1].len = recurrent
        /\ three[2].start = recurrent /\ three[2].len = moments
        /\ three[3].start = recurrent + moments /\ three[3].len = rest
    BY <1>3 DEF Part
  <2>3. \A k \in 1 .. 3 : k = 1 \/ k = 2 \/ k = 3
    OBVIOUS
  <2>4. \A k \in 1 .. 2 : k = 1 \/ k = 2
    OBVIOUS
  <2>5. Inside(three[1], total) /\ Inside(three[2], total) /\ Inside(three[3], total)
    BY <1>1, <2>1, <2>2 DEF Inside
  <2>6. /\ Apart(three[1], three[2]) /\ Apart(three[1], three[3]) /\ Apart(three[2], three[3])
        /\ Apart(three[2], three[1]) /\ Apart(three[3], three[1]) /\ Apart(three[3], three[2])
    BY <1>1, <2>1, <2>2 DEF Apart
  <2>7. \A k \in 1 .. 2 : three[k].len = lens[k]
    BY <1>4, <2>2, <2>4
  <2>8. \A k \in 1 .. 3 : Inside(three[k], total)
    BY <2>3, <2>5
  <2>9. \A k, m \in 1 .. 3 : k # m => Apart(three[k], three[m])
    BY <2>3, <2>6
  <2>10. QED
    BY <2>1, <2>2, <2>7, <2>8, <2>9
<1>7. QED
  BY <1>4, <1>5, <1>6 DEF SplitIsGiven, got, lens

-----------------------------------------------------------------------------
(* The calls. *)

LEMMA ViewsStart == ViewsInit => ViewsStayInside
BY DEF ViewsInit, ViewsStayInside

(* A slot or a region of the plan.                                         *)
LEMMA PlanGives == Plan => ViewsStayInside'
<1> SUFFICES ASSUME Plan PROVE ViewsStayInside'
  OBVIOUS
<1>1. PICK low \in Lengths, high \in Lengths, slot \in Lengths, made \in Alignments, align \in Alignments, index \in Amounts :
       \E layout \in NewLayout(low, high, slot, made) :
         \/ Ask([op |-> "slot", layout |-> layout, index |-> index, align |-> align], Parts(PlanSlot(layout, index, align)))
         \/ \E kind \in {"stack", "heap"} :
              Ask([op |-> "region", layout |-> layout, region |-> layout[kind], len |-> index],
                  Parts(PlanSize(layout[kind], index, align)))
  BY DEF Plan
<1>2. PICK layout \in NewLayout(low, high, slot, made) :
         \/ Ask([op |-> "slot", layout |-> layout, index |-> index, align |-> align], Parts(PlanSlot(layout, index, align)))
         \/ \E kind \in {"stack", "heap"} :
              Ask([op |-> "region", layout |-> layout, region |-> layout[kind], len |-> index],
                  Parts(PlanSize(layout[kind], index, align)))
  BY <1>1
<1>3. low \in Nat /\ high \in Nat /\ slot \in Nat /\ index \in Nat
  BY UsizesAreNatural
<1>4. layout.slot \in Nat \ {0} /\ layout.total \in Usize /\ layout.stack = Part(0, low) /\ low <= layout.total
  BY <1>3, LayoutIs
<1>5. PICK o \in Nat : layout.heap = Part(o, high) /\ low <= o /\ o + high = layout.total
  BY <1>3, LayoutIs
<1>6. CASE Ask([op |-> "slot", layout |-> layout, index |-> index, align |-> align], Parts(PlanSlot(layout, index, align)))
  <2>1. /\ asked' = [op |-> "slot", layout |-> layout, index |-> index, align |-> align]
        /\ given' = Parts(PlanSlot(layout, index, align))
    BY <1>6 DEF Ask
  <2>2. SlotIsGiven(layout, index, align, given')
    BY <1>3, <1>4, <2>1, PartsAnswer, SlotIs
  <2>3. asked'.op = "slot" /\ asked'.layout = layout /\ asked'.index = index /\ asked'.align = align
    BY <2>1
  <2>4. QED
    BY <2>2, <2>3 DEF ViewsStayInside, SlotIsGiven, None, Given
<1>7. CASE \E kind \in {"stack", "heap"} :
              Ask([op |-> "region", layout |-> layout, region |-> layout[kind], len |-> index],
                  Parts(PlanSize(layout[kind], index, align)))
  <2>1. PICK kind \in {"stack", "heap"} :
              /\ asked' = [op |-> "region", layout |-> layout, region |-> layout[kind], len |-> index]
              /\ given' = Parts(PlanSize(layout[kind], index, align))
    BY <1>7 DEF Ask
  <2>2. PICK start \in Nat, room \in Nat : layout[kind] = Part(start, room)
    BY <1>3, <1>4, <1>5
  <2>3. RegionIsGiven(room, index, given')
    BY <1>3, <2>1, <2>2, PartsAnswer, RegionIs
  <2>4. layout[kind].len = room
    BY <2>2 DEF Part
  <2>5. /\ Inside(layout.stack, layout.total) /\ Inside(layout.heap, layout.total)
        /\ Apart(layout.stack, layout.heap)
    BY <1>3, <1>4, <1>5 DEF Inside, Apart, Part
  <2>6. asked'.op = "region" /\ asked'.layout = layout /\ asked'.region = layout[kind] /\ asked'.len = index
    BY <2>1
  <2>7. QED
    BY <2>3, <2>4, <2>5, <2>6 DEF ViewsStayInside, RegionIsGiven, None, Given
<1>8. QED
  BY <1>2, <1>6, <1>7

(* A typed view.                                                           *)
LEMMA TypeGives == Type => ViewsStayInside'
<1> SUFFICES ASSUME Type PROVE ViewsStayInside'
  OBVIOUS
<1>1. PICK address \in Lengths, bytes \in Lengths, size \in Alignments :
        /\ asked' = [op |-> "typed", address |-> address, bytes |-> bytes, size |-> size]
        /\ given' = Parts(FromCarve(address, bytes, size))
  BY DEF Type, Ask
<1>2. address \in Nat /\ bytes \in Nat
  BY UsizesAreNatural
<1>3. TypedIsGiven(address, bytes, size, given')
  BY <1>1, <1>2, PartsAnswer, TypedIs
<1>4. asked'.op = "typed" /\ asked'.address = address /\ asked'.bytes = bytes /\ asked'.size = size
  BY <1>1
<1>5. QED
  BY <1>3, <1>4 DEF ViewsStayInside, TypedIsGiven, None, Given

(* Bytes that are their own places.                                        *)
LEMMA NumberedIs ==
  ASSUME NEW n \in Usize
  PROVE  Numbered(n) \in Seq(Int) /\ Len(Numbered(n)) = n
<1>1. n \in Nat
  BY UsizesAreNatural
<1>2. Numbered(n) \in [1 .. n -> Int]
  BY <1>1 DEF Numbered
<1>3. Numbered(n) \in Seq(Int)
  BY <1>1, <1>2, SeqDef
<1>4. QED
  BY <1>1, <1>2, <1>3

(* A write.                                                                *)
LEMMA StoreGives == Store => ViewsStayInside'
<1> SUFFICES ASSUME Store PROVE ViewsStayInside'
  OBVIOUS
<1>1. PICK total \in Lengths, offset \in Amounts, n \in {1, 2} :
        LET data == Numbered(total)
            value == [i \in 1 .. n |-> -i]
            p == WriteAt(data, offset, value)
        IN Ask([op |-> "store", data |-> data, offset |-> offset, value |-> value],
               [panic |-> FALSE, parts |-> SetToSeq(p), now |-> IF p = {} THEN data ELSE Written(data, CHOOSE q \in p : TRUE, value)])
  BY DEF Store
<1> DEFINE data == Numbered(total)
           value == [i \in 1 .. n |-> -i]
           p == WriteAt(data, offset, value)
           now == IF p = {} THEN data ELSE Written(data, CHOOSE q \in p : TRUE, value)
<1>2. /\ asked' = [op |-> "store", data |-> data, offset |-> offset, value |-> value]
      /\ given' = [panic |-> FALSE, parts |-> SetToSeq(p), now |-> now]
  BY <1>1 DEF Ask
<1>3. total \in Usize /\ offset \in Nat
  BY AmountsAssumption, UsizesAreNatural
<1>4. data \in Seq(Int) /\ Len(data) \in Usize
  BY <1>3, NumberedIs
<1>5. value \in Seq(Int)
  <2>1. n \in Nat /\ value \in [1 .. n -> Int]
    OBVIOUS
  <2> HIDE DEF value
  <2>2. QED
    BY <2>1, SeqDef
<1> HIDE DEF data, value
<1>6. Answers(given', p)
  <2>1. Answers(Parts(p), p)
    BY PartsAnswer
  <2> HIDE DEF p, now
  <2>2. given'.parts = Parts(p).parts
    BY <1>2 DEF Parts
  <2>3. QED
    BY <2>1, <2>2 DEF Answers
<1>7. given'.now = now
  <2> HIDE DEF p, now
  <2>1. QED
    BY <1>2
<1>8. WriteIsGiven(data, offset, value, given')
  BY <1>3, <1>4, <1>5, <1>6, <1>7, WriteIs
<1>9. asked'.op = "store" /\ asked'.data = data /\ asked'.offset = offset /\ asked'.value = value
  BY <1>2
<1> HIDE DEF p, now
<1>10. QED
  BY <1>8, <1>9 DEF ViewsStayInside, WriteIsGiven, None

(* A move.                                                                 *)
LEMMA MoveGives == Move => ViewsStayInside'
<1> SUFFICES ASSUME Move PROVE ViewsStayInside'
  OBVIOUS
<1>1. PICK total \in Lengths, from \in Lengths, to \in Lengths, dest \in Amounts :
        LET data == Numbered(total)
        IN Ask([op |-> "move", data |-> data, from |-> from, to |-> to, dest |-> dest],
               [panic |-> FALSE, parts |-> <<>>, now |-> CopyWithin(data, from, to, dest)])
  BY DEF Move
<1> DEFINE data == Numbered(total)
<1>2. /\ asked' = [op |-> "move", data |-> data, from |-> from, to |-> to, dest |-> dest]
      /\ given' = [panic |-> FALSE, parts |-> <<>>, now |-> CopyWithin(data, from, to, dest)]
  BY <1>1 DEF Ask
<1>3. total \in Usize /\ from \in Nat /\ to \in Nat /\ dest \in Nat
  BY AmountsAssumption, UsizesAreNatural
<1>4. data \in Seq(Int) /\ Len(data) \in Usize
  BY <1>3, NumberedIs
<1> HIDE DEF data
<1>5. given'.now = CopyWithin(data, from, to, dest)
  BY <1>2
<1>6. MoveIsGiven(data, from, to, dest, given')
  BY <1>3, <1>4, <1>5, MoveIs
<1>7. asked'.op = "move" /\ asked'.data = data /\ asked'.from = from /\ asked'.to = to /\ asked'.dest = dest
  BY <1>2
<1>8. QED
  BY <1>6, <1>7 DEF ViewsStayInside, MoveIsGiven

(* The shapes and indices that are asked for.                              *)
LEMMA ShapesAreUsizes ==
  ASSUME NEW n \in Nat
  PROVE  [1 .. n -> Lengths] \subseteq [1 .. n -> Usize] /\ [1 .. n -> Sides] \subseteq [1 .. n -> Usize]
BY AmountsAssumption

(* A view of a tensor.                                                     *)
LEMMA ViewGives == View => ViewsStayInside'
<1> SUFFICES ASSUME View PROVE ViewsStayInside'
  OBVIOUS
<1>1. PICK total \in Lengths, shape \in [1 .. 3 -> Lengths], offset \in Amounts :
        /\ asked' = [op |-> "view", total |-> total, shape |-> shape, offset |-> offset]
        /\ given' = Parts(FromSliceOffset(total, shape, offset))
  BY DEF View, Ask
<1>2. total \in Usize /\ offset \in Nat
  BY AmountsAssumption, UsizesAreNatural
<1>3. shape \in [1 .. 3 -> Usize]
  BY ShapesAreUsizes
<1>4. ViewIsGiven(total, shape, offset, given')
  BY <1>1, <1>2, <1>3, PartsAnswer, ViewIs
<1>5. asked'.op = "view" /\ asked'.total = total /\ asked'.shape = shape /\ asked'.offset = offset
  BY <1>1
<1>6. QED
  BY <1>4, <1>5 DEF ViewsStayInside, ViewIsGiven, None, Given

(* An element of a tensor.                                                 *)
LEMMA IndexGives == Index => ViewsStayInside'
<1> SUFFICES ASSUME Index PROVE ViewsStayInside'
  OBVIOUS
<1>1. PICK shape \in [1 .. 3 -> Sides] : \E total \in CheckedProduct(shape), index \in [1 .. 3 -> Sides] :
        Ask([op |-> "index", total |-> total, shape |-> shape, index |-> index],
            Parts({Part(i, 1) : i \in IdxLinear(total, shape, index)}))
  BY DEF Index
<1>2. PICK total \in CheckedProduct(shape), index \in [1 .. 3 -> Sides] :
        /\ asked' = [op |-> "index", total |-> total, shape |-> shape, index |-> index]
        /\ given' = Parts({Part(i, 1) : i \in IdxLinear(total, shape, index)})
  BY <1>1 DEF Ask
<1>3. shape \in [1 .. 3 -> Usize] /\ index \in [1 .. 3 -> Usize]
  BY ShapesAreUsizes
<1> DEFINE set == {Part(i, 1) : i \in IdxLinear(total, shape, index)}
<1>4. IndexIsGiven(total, shape, index, given')
  <2>1. Answers(given', set)
    <3>1. given' = Parts(set)
      BY <1>2
    <3> HIDE DEF set
    <3>2. QED
      BY <3>1, PartsAnswer
  <2>2. QED
    BY <1>3, <2>1, IndexIs
<1>5. asked'.op = "index" /\ asked'.total = total /\ asked'.shape = shape /\ asked'.index = index
  BY <1>2
<1>6. QED
  BY <1>4, <1>5 DEF ViewsStayInside, IndexIsGiven, None, Given

(* A region of the weights.                                                *)
LEMMA WeighGives == Weigh => ViewsStayInside'
<1> SUFFICES ASSUME Weigh PROVE ViewsStayInside'
  OBVIOUS
<1>1. PICK total \in Lengths, offset \in Amounts, len \in Amounts :
        /\ asked' = [op |-> "weights", total |-> total, offset |-> offset, len |-> len]
        /\ given' = Parts(Weights(total, offset, len))
  BY DEF Weigh, Ask
<1>2. total \in Usize /\ offset \in Nat /\ len \in Nat
  BY AmountsAssumption, UsizesAreNatural
<1>3. WeightsAreGiven(total, offset, len, given')
  BY <1>1, <1>2, PartsAnswer, WeightsAre
<1>4. asked'.op = "weights" /\ asked'.total = total /\ asked'.offset = offset /\ asked'.len = len
  BY <1>1
<1>5. QED
  BY <1>3, <1>4 DEF ViewsStayInside, WeightsAreGiven, None, Given

(* A split of the memory.                                                  *)
LEMMA SplitGives == SplitMemory => ViewsStayInside'
<1> SUFFICES ASSUME SplitMemory PROVE ViewsStayInside'
  OBVIOUS
<1>1. PICK total \in Lengths, recurrent \in Amounts, moments \in Amounts, stats \in Amounts :
        /\ asked' = [op |-> "split", total |-> total, lens |-> <<recurrent, moments, stats>>]
        /\ given' = Split(total, recurrent, moments, stats)
  BY DEF SplitMemory, Ask
<1>2. total \in Usize /\ recurrent \in Nat /\ moments \in Nat /\ stats \in Nat
  BY AmountsAssumption, UsizesAreNatural
<1> DEFINE lens == <<recurrent, moments, stats>>
<1>3. SplitIsGiven(total, lens, given')
  BY <1>1, <1>2, SplitIs
<1>4. asked'.op = "split" /\ asked'.total = total /\ asked'.lens = lens
  BY <1>1
<1> HIDE DEF lens
<1>5. QED
  BY <1>3, <1>4 DEF ViewsStayInside, SplitIsGiven, None

(* So the invariant is inductive by itself: nothing is kept between calls. *)
LEMMA ViewsStay == ViewsStayInside /\ [ViewsNext]_views => ViewsStayInside'
<1> SUFFICES ASSUME ViewsStayInside, [ViewsNext]_views PROVE ViewsStayInside'
  OBVIOUS
<1>1. CASE UNCHANGED views
  <2>1. asked' = asked /\ given' = given
    BY <1>1 DEF views
  <2>2. QED
    BY <2>1 DEF ViewsStayInside, None, Given
<1>2. CASE ViewsNext
  BY <1>2, PlanGives, TypeGives, StoreGives, MoveGives, ViewGives, IndexGives, WeighGives, SplitGives DEF ViewsNext
<1>3. QED
  BY <1>1, <1>2
=============================================================================
