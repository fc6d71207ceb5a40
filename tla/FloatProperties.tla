------------------------- MODULE FloatProperties -------------------------
(***************************************************************************)
(* What the conversions and the arithmetic of SoftFloat promise, stated on *)
(* the numbers that the words stand for.  A finite word is a whole number  *)
(* of units, its significand, times a power of two.                        *)
(***************************************************************************)
EXTENDS SoftFloat

L == Layout[dtype]
Left == latest[2]
Right == latest[3]

Scale(w) == Larger(ExponentOf(w, L), 1)
Units(w) == (IF IsNegative(w, L) THEN -1 ELSE 1) * Significand(w, L)
Distance(m, n) == IF m > n THEN m - n ELSE n - m
IsNormal(w) == ExponentOf(w, L) # 0 /\ IsFinite(w, L)
Overflows == Magnitude(word, L) = OverflowWord(FALSE, L)

(* A format without an infinity gives its top exponent field up to numbers, *)
(* but the conversion and the arithmetic treat it as too large: left out    *)
(* here, and named in the README.                                           *)
BelowTop(w) == L.has_infinity \/ ExponentOf(w, L) < MaxExponent(L)

-----------------------------------------------------------------------------
(* Conversions. *)

(* The pattern of the F32 halfway between the word of magnitude u and the  *)
(* next: consecutive words lie in one binade, and there patterns are even. *)
Pattern == [d \in DOMAIN Layout |-> [w \in Nat |-> ToF32(w, Layout[d]).magnitude]]
Halfway ==
  [d \in DOMAIN Layout |-> [u \in Nat |->
     CASE u = 0 -> IF Pattern[d][1] < 2^23 THEN Pattern[d][1] \div 2 ELSE Pattern[d][1] - 2^23
       [] u = Layout[d].max_finite -> Pattern[d][u] + (Pattern[d][u] - Pattern[d][u - 1]) \div 2
       [] OTHER -> Pattern[d][u] + (Pattern[d][u + 1] - Pattern[d][u]) \div 2]]
Half(u) == Halfway[dtype][u]

(* F32 and word are the same number. *)
SameNumber ==
  LET field == wide.magnitude \div 2^23
      fraction == wide.magnitude % 2^23
      significand == IF field = 0 THEN fraction ELSE 2^23 + fraction
      up == (Scale(word) - L.bias - L.fraction_bits) - (Larger(field, 1) - 150)
  IN /\ wide.negative = IsNegative(word, L)
     /\ IF IsZero(word, L) THEN wide.magnitude = 0
        ELSE up \in 0 .. 23 /\ significand = Significand(word, L) * 2^up

Nearest ==
  /\ wide.negative = IsNegative(word, L)
  /\ \A m \in {Magnitude(word, L)} :
       /\ m > 0 => wide.magnitude > Half(m - 1) \/ (wide.magnitude = Half(m - 1) /\ m % 2 = 0)
       /\ m <= L.max_finite => wide.magnitude < Half(m) \/ (wide.magnitude = Half(m) /\ m % 2 = 0)

(* The F32s whose bits would have to be shifted by the width of a machine  *)
(* word: those of one binade far below the smallest word of F16, E4M3 and  *)
(* E5M2.  round_shift_right does shift them, so they do not become zero:   *)
(* see the README.                                                         *)
ShiftsByTheWordSize == wide.magnitude \div 2^23 = 87 - L.bias - L.fraction_bits

(* Widening drops nothing, and narrowing goes to the nearest word of the   *)
(* format, of two the even one, and out of range to what stands for        *)
(* overflow: also among subnormals, at a carry, and from one format        *)
(* through F32 to another, but for the F32s of ShiftsByTheWordSize         *)
(* (to_f32, from_f32 and convert).                                         *)
ConversionsRoundOnce ==
  /\ latest[1] = "widen" /\ IsFinite(word, L) => SameNumber
  /\ latest[1] = "narrow" =>
       IF wide.magnitude > F32Infinity THEN IsNan(word, L)
       ELSE /\ ~ShiftsByTheWordSize
            /\ L.has_infinity \/ wide.magnitude < Half(MaxExponent(L) * 2^L.fraction_bits - 1)
            => Nearest

-----------------------------------------------------------------------------
(* Arithmetic. *)

(* Both are numbers, and none is of the top binade of a format that has no *)
(* infinity.                                                               *)
Ordinary(w) == IsFinite(w, L) /\ BelowTop(w)

(* Less than a unit of its own separates word from the exact sum, wherever *)
(* the sum is not below the normal numbers.                                *)
SumInReach(left, right) ==
  LET base == Smaller(Scale(left), Scale(right))
      exact == Units(left) * 2^(Scale(left) - base) + Units(right) * 2^(Scale(right) - base)
      normal == exact # 0 /\ (base > L.fraction_bits \/ Distance(exact, 0) * 2^(base - 1) >= 2^L.fraction_bits)
      down == Scale(word) - base
  IN Distance(Scale(left), Scale(right)) <= 15 =>
       /\ exact = 0 => IsZero(word, L)
       /\ normal =>
          IF Overflows THEN Distance(exact, 0) >= 2^(L.fraction_bits + MaxExponent(L) - base)
          ELSE IF down >= 0 THEN Distance(exact, Units(word) * 2^down) < 2^down
          ELSE exact * 2^(-down) = Units(word)

(* The same of a product of two normal numbers that is not below them, and *)
(* of such a quotient.                                                     *)
ProductInReach ==
  LET exponent == Scale(Left) + Scale(Right) - L.bias
      exact == Units(Left) * Units(Right)
      down == Scale(word) - exponent + L.fraction_bits
  IN IsNormal(Left) /\ IsNormal(Right) /\ exponent >= 1 =>
       IF Overflows
       THEN \/ exponent >= MaxExponent(L)
            \/ exponent + 1 = MaxExponent(L) /\ Distance(exact, 0) + 2^L.fraction_bits >= 2^(2 * L.fraction_bits + 1)
       ELSE down \in L.fraction_bits .. L.fraction_bits + 1 /\ Distance(exact, Units(word) * 2^down) < 2^down

QuotientInReach ==
  LET exponent == Scale(Left) - Scale(Right) + L.bias
      up == exponent + L.fraction_bits - Scale(word)
  IN IsNormal(Left) /\ IsNormal(Right) /\ exponent >= 2 =>
       IF Overflows
       THEN exponent - (IF Distance(Units(Left), 0) < Distance(Units(Right), 0) THEN 1 ELSE 0) >= MaxExponent(L)
       ELSE /\ up \in L.fraction_bits .. L.fraction_bits + 1
            /\ Distance(Units(Left) * 2^up, Units(word) * Units(Right)) < Distance(Units(Right), 0)

(* A sum or difference of two numbers that is not below the normal ones,   *)
(* and a product or quotient of two normal numbers that is not either, is  *)
(* less than a unit in the last place away from the exact result, and      *)
(* overflows only where that does; neither of the four makes a NaN of      *)
(* numbers, or a number of a NaN.  min is not above its operands, nor max  *)
(* below them unless both are negative; of a number and a NaN they give    *)
(* the number, which is not looked at (fp_add_bits, fp_mul_bits,           *)
(* fp_div_bits, max, min; the exceptions are in the README).               *)
ArithmeticIsInReach ==
  /\ latest[1] \in {"add", "sub", "mul", "div"} =>
       (IsNan(word, L) <=> IsNan(Left, L) \/ IsNan(Right, L))
  /\ latest[1] \in {"add", "sub", "mul", "div"} /\ Ordinary(Left) /\ Ordinary(Right) =>
       CASE latest[1] = "add" -> SumInReach(Left, Right)
         [] latest[1] = "sub" -> SumInReach(Left, Neg(Right, L))
         [] latest[1] = "mul" -> ProductInReach
         [] latest[1] = "div" -> QuotientInReach
  /\ latest[1] = "min" /\ Compares(Left, Right, L) => AtLeast(Left, word, L) /\ AtLeast(Right, word, L)
  /\ latest[1] = "max" /\ Compares(Left, Right, L) /\ ~(IsNegative(Left, L) /\ IsNegative(Right, L)) =>
       AtLeast(word, Left, L) /\ AtLeast(word, Right, L)

(* tanh and sigmoid stay in their ranges for every number, up to the ends  *)
(* of the range of the format, and so do the weights of a row of softmax   *)
(* whose values are no more than two apart; further apart the series of   *)
(* exp is fed numbers that it is not fit for, and weights above one and    *)
(* below zero come out (see the README).                                   *)
FunctionsStayInRange ==
  /\ latest[1] = "tanh" /\ ~IsNan(Left, L) =>
       AtLeast(One(L), word, L) /\ AtLeast(word, Neg(One(L), L), L)
  /\ latest[1] = "sigmoid" /\ ~IsNan(Left, L) =>
       AtLeast(One(L), word, L) /\ AtLeast(word, 0, L)
  /\ latest[1] = "softmax" =>
       LET apart == FpSub(Left, Right, L)
       IN IsFinite(Left, L) /\ IsFinite(Right, L) /\ AtLeast(Exact(2, L), Abs(apart, L), L) =>
            AtLeast(One(L), word, L) /\ AtLeast(word, 0, L)

(* round takes a normal number to the nearest whole number, of two the one *)
(* away from zero (comment of Float::round, float.rs: "Round to nearest,   *)
(* ties away from zero").                                                  *)
RoundsToNearest ==
  latest[1] = "round" /\ IsNormal(Left) /\ IsFinite(word, L) =>
    LET point == L.bias + L.fraction_bits
        below == point - Scale(Left)
        whole == IF below <= 0 THEN 0
                 ELSE IF below > L.fraction_bits + 2 THEN 0
                 ELSE (2 * Significand(Left, L) + 2^below) \div 2^(below + 1)
    IN below > 0 =>
         IF whole = 0 THEN IsZero(word, L)
         ELSE Significand(word, L) * 2^Larger(0, Scale(word) - point)
                = whole * 2^Larger(0, point - Scale(word))
=============================================================================
