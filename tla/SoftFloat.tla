----------------------------- MODULE SoftFloat -----------------------------
(***************************************************************************)
(* nnn-base/src/math: the arithmetic of the formats below F32, written in  *)
(* integer operations for any layout of sign, exponent and fraction, and   *)
(* the conversions to and from F32.                                        *)
(*                                                                         *)
(* A word is its packed form, a natural number; an F32 is its sign and its *)
(* magnitude, the 31 bits below.                                           *)
(***************************************************************************)
EXTENDS Integers, FiniteSets, SequencesExt

CONSTANTS
  DTypes,        (* the formats in use, of those of Layout                 *)
  Operands(_),   (* the words of a format that are operated on             *)
  Partners(_),   (* those that they are operated on with, or make a row    *)
  Probes(_)      (* the F32s that a format is given to narrow              *)

VARIABLES
  dtype,         (* the format of the word at hand                         *)
  word,          (* the word at hand                                       *)
  wide,          (* the F32 at hand                                        *)
  latest         (* history: the last operation, and its operands          *)

floats == <<dtype, word, wide, latest>>

(* DType::layout.  The words are the packed ones: TF32 keeps its 13 bits   *)
(* higher up in storage, and pack and unpack only move them.               *)
Layout ==
  [F16  |-> [exponent_bits |-> 5, fraction_bits |-> 10, bias |-> 15, has_infinity |-> TRUE, max_finite |-> 31743],
   BF16 |-> [exponent_bits |-> 8, fraction_bits |-> 7, bias |-> 127, has_infinity |-> TRUE, max_finite |-> 32639],
   TF32 |-> [exponent_bits |-> 8, fraction_bits |-> 10, bias |-> 127, has_infinity |-> TRUE, max_finite |-> 261119],
   E4M3 |-> [exponent_bits |-> 4, fraction_bits |-> 3, bias |-> 7, has_infinity |-> FALSE, max_finite |-> 126],
   E5M2 |-> [exponent_bits |-> 5, fraction_bits |-> 2, bias |-> 15, has_infinity |-> TRUE, max_finite |-> 123]]

Larger(a, b) == IF a > b THEN a ELSE b
Smaller(a, b) == IF a < b THEN a ELSE b
Log2(n) == CHOOSE k \in 0 .. 30 : 2^k <= n /\ (k < 30 => n < 2^(k + 1))

-----------------------------------------------------------------------------
(* The fields of a word, and the words that are no numbers. *)

SignMask(L) == 2^(L.exponent_bits + L.fraction_bits)
MaxExponent(L) == 2^L.exponent_bits - 1
IsNegative(w, L) == w >= SignMask(L)
Magnitude(w, L) == w % SignMask(L)
ExponentOf(w, L) == Magnitude(w, L) \div 2^L.fraction_bits
FractionOf(w, L) == w % 2^L.fraction_bits

Infinity(L) == MaxExponent(L) * 2^L.fraction_bits
NanWord(L) == IF L.has_infinity THEN SignMask(L) - 1 ELSE L.max_finite + 1
IsNan(w, L) ==
  IF L.has_infinity THEN Magnitude(w, L) > Infinity(L) ELSE Magnitude(w, L) = NanWord(L)
IsFinite(w, L) ==
  IF L.has_infinity THEN Magnitude(w, L) < Infinity(L) ELSE Magnitude(w, L) # NanWord(L)

Signed(negative, magnitude, L) == magnitude + (IF negative THEN SignMask(L) ELSE 0)
OverflowWord(negative, L) == Signed(negative, IF L.has_infinity THEN Infinity(L) ELSE L.max_finite, L)
Word(negative, exponent, fraction, L) ==
  Signed(negative, exponent * 2^L.fraction_bits + (fraction % 2^L.fraction_bits), L)

-----------------------------------------------------------------------------
(* Conversions.  An F32 has 8 bits of exponent, 23 of fraction, bias 127.  *)

F32(negative, magnitude) == [negative |-> negative, magnitude |-> magnitude]
F32Infinity == 255 * 2^23

(* A shift by more than the 24 bits of a value drops all of it, except for *)
(* a shift by 64, which is as wide as the machine word and which the guard *)
(* lets through: a build that checks panics there, and one that does not   *)
(* shifts by nothing, as here.                                             *)
RoundShiftRight(value, shift) ==
  IF shift <= 0 THEN value * 2^(-shift)
  ELSE IF shift = 64 THEN value
  ELSE IF shift > 25 THEN 0
  ELSE LET kept == value \div 2^shift
           dropped == value % 2^shift
           half == 2^(shift - 1)
       IN kept + (IF dropped > half \/ (dropped = half /\ kept % 2 = 1) THEN 1 ELSE 0)

(* A positive number as a significand of 24 bits and a power of two.       *)
Normalised(exponent, fraction, fraction_bits, bias) ==
  IF exponent # 0
  THEN [significand |-> (2^fraction_bits + fraction) * 2^(23 - fraction_bits), exponent |-> exponent - bias]
  ELSE [significand |-> fraction * 2^(23 - Log2(fraction)), exponent |-> Log2(fraction) + 1 - bias - fraction_bits]

ToF32(w, L) ==
  LET n == Normalised(ExponentOf(w, L), FractionOf(w, L), L.fraction_bits, L.bias)
      below == -n.exponent - 126
      magnitude ==
        CASE Magnitude(w, L) = 0 -> 0
          [] IsNan(w, L) -> F32Infinity + 2^22
          [] L.has_infinity /\ ExponentOf(w, L) = MaxExponent(L) /\ ~IsNan(w, L) -> F32Infinity
          [] OTHER -> IF n.exponent >= -126
                      THEN (n.exponent + 127) * 2^23 + (n.significand % 2^23)
                      ELSE IF below > 30 THEN 0 ELSE (n.significand \div 2^below) % 2^23
  IN F32(IsNegative(w, L), magnitude)

(* The sign and as many bits of the magnitude as the format stores.        *)
Stored(negative, magnitude, L) ==
  LET low == magnitude % (2 * SignMask(L))
  IN Signed(negative \/ IsNegative(low, L), Magnitude(low, L), L)

(* Mutant of FromF32: the carry out of the fraction is forgotten.          *)
FromF32NoCarry(f, L) ==
  LET n == Normalised(f.magnitude \div 2^23, f.magnitude % 2^23, 23, 127)
      biased == n.exponent + L.bias
      normal == biased >= 1
      shift == IF normal THEN 23 - L.fraction_bits ELSE 24 - n.exponent - L.bias - L.fraction_bits
      rounded == RoundShiftRight(n.significand, shift)
      magnitude ==
        CASE f.magnitude = 0 -> 0
          [] f.magnitude > F32Infinity -> NanWord(L)
          [] f.magnitude = F32Infinity -> OverflowWord(FALSE, L)
          [] OTHER -> IF ~normal THEN rounded
                      ELSE IF biased >= MaxExponent(L) THEN OverflowWord(FALSE, L)
                      ELSE Word(FALSE, biased, rounded, L)
  IN Stored(f.negative, magnitude, L)

FromF32(f, L) ==
  LET n == Normalised(f.magnitude \div 2^23, f.magnitude % 2^23, 23, 127)
      biased == n.exponent + L.bias
      normal == biased >= 1
      shift == IF normal THEN 23 - L.fraction_bits ELSE 24 - n.exponent - L.bias - L.fraction_bits
      rounded == RoundShiftRight(n.significand, shift)
      carry == IF rounded >= 2^(L.fraction_bits + 1) THEN 1 ELSE 0
      magnitude ==
        CASE f.magnitude = 0 -> 0
          [] f.magnitude > F32Infinity -> NanWord(L)
          [] f.magnitude = F32Infinity -> OverflowWord(FALSE, L)
          [] OTHER -> IF ~normal THEN rounded
                      ELSE IF biased + carry >= MaxExponent(L) THEN OverflowWord(FALSE, L)
                      ELSE Word(FALSE, biased + carry, rounded \div 2^carry, L)
  IN Stored(f.negative, magnitude, L)

-----------------------------------------------------------------------------
(* Arithmetic. *)

(* A significand with its implicit bit, and the exponent of a subnormal.   *)
Significand(w, L) ==
  FractionOf(w, L) + (IF ExponentOf(w, L) = 0 THEN 0 ELSE 2^L.fraction_bits)

FpAdd(a, b, L) ==
  LET top == MaxExponent(L)
      exponent(w) == Larger(ExponentOf(w, L), 1)
      common == Larger(exponent(a), exponent(b))
      aligned(w) == (Significand(w, L) * 8) \div 2^Smaller(common - exponent(w), 20)
      same == IsNegative(a, L) = IsNegative(b, L)
      negative == IF same \/ aligned(a) >= aligned(b) THEN IsNegative(a, L) ELSE IsNegative(b, L)
      sum == IF same THEN aligned(a) + aligned(b)
             ELSE Larger(aligned(a), aligned(b)) - Smaller(aligned(a), aligned(b))
      target == L.fraction_bits + 3
      carry == IF sum >= 2^(target + 1) THEN 1 ELSE 0
      halved == IF carry = 1 THEN (sum + 1) \div 2 ELSE sum
      up == Larger(0, Smaller(common - 1, target - Log2(halved)))
      mantissa == IF carry = 1 THEN halved ELSE halved * 2^up
      result == IF carry = 1 THEN common + 1 ELSE common - up
  IN CASE IsNan(a, L) -> a
       [] ~IsNan(a, L) /\ IsNan(b, L) -> b
       [] IsFinite(a, L) /\ IsFinite(b, L) ->
            IF sum = 0 THEN 0
            ELSE IF result >= top THEN OverflowWord(negative, L)
            ELSE Word(negative, result, mantissa \div 8, L)
       [] OTHER -> IF IsFinite(a, L) THEN b ELSE a

FpSub(a, b, L) == FpAdd(a, Signed(~IsNegative(b, L), Magnitude(b, L), L), L)

IsZero(w, L) == Magnitude(w, L) = 0

(* Mutant of FpMul: a product that rounds up to two keeps its exponent.    *)
FpMulNoCarry(a, b, L) ==
  LET negative == IsNegative(a, L) # IsNegative(b, L)
      rounded == RoundShiftRight(Significand(a, L) * Significand(b, L), L.fraction_bits)
      exponent == ExponentOf(a, L) + ExponentOf(b, L) - L.bias
  IN IF IsNan(a, L) \/ IsNan(b, L) THEN NanWord(L)
     ELSE IF ~IsFinite(a, L) \/ ~IsFinite(b, L) THEN OverflowWord(negative, L)
     ELSE IF IsZero(a, L) \/ IsZero(b, L) \/ exponent <= 0 THEN Signed(negative, 0, L)
     ELSE IF exponent >= MaxExponent(L) THEN OverflowWord(negative, L)
     ELSE Word(negative, exponent, rounded, L)

FpMul(a, b, L) ==
  LET negative == IsNegative(a, L) # IsNegative(b, L)
      product == Significand(a, L) * Significand(b, L)
      rounded == RoundShiftRight(product, L.fraction_bits)
      carry == IF rounded >= 2^(L.fraction_bits + 1) THEN 1 ELSE 0
      exponent == ExponentOf(a, L) + ExponentOf(b, L) - L.bias + carry
  IN IF IsNan(a, L) \/ IsNan(b, L) THEN NanWord(L)
     ELSE IF ~IsFinite(a, L) \/ ~IsFinite(b, L) THEN OverflowWord(negative, L)
     ELSE IF IsZero(a, L) \/ IsZero(b, L) \/ exponent <= 0 THEN Signed(negative, 0, L)
     ELSE IF exponent >= MaxExponent(L) THEN OverflowWord(negative, L)
     ELSE Word(negative, exponent, rounded \div 2^carry, L)

FpDiv(a, b, L) ==
  LET negative == IsNegative(a, L) # IsNegative(b, L)
      start == ExponentOf(a, L) - ExponentOf(b, L) + L.bias
      quotient == (Significand(a, L) * 2^(L.fraction_bits + 3)) \div Significand(b, L)
      down == Larger(0, Log2(quotient) - (L.fraction_bits + 3))
      up == Larger(0, Smaller(start - 1, L.fraction_bits + 3 - Log2(quotient)))
      exponent == start + down - up
      mantissa == (quotient \div 2^down) * 2^up
  IN IF IsNan(a, L) \/ IsNan(b, L) THEN NanWord(L)
     ELSE IF IsZero(b, L) THEN OverflowWord(negative, L)
     ELSE IF IsZero(a, L) \/ exponent <= 0 THEN Signed(negative, 0, L)
     ELSE IF exponent >= MaxExponent(L) THEN OverflowWord(negative, L)
     ELSE Word(negative, exponent, mantissa \div 8, L)

Neg(w, L) == Signed(~IsNegative(w, L), Magnitude(w, L), L)
Abs(w, L) == Magnitude(w, L)

(* partial_cmp: is a above b, or equal to it.  Nothing compares to NaN.    *)
Compares(a, b, L) == ~IsNan(a, L) /\ ~IsNan(b, L)
Equal(a, b, L) == Compares(a, b, L) /\ (a = b \/ (IsZero(a, L) /\ IsZero(b, L)))
Above(a, b, L) ==
  /\ Compares(a, b, L) /\ ~Equal(a, b, L)
  /\ IF IsNegative(a, L) THEN IsNegative(b, L) /\ Magnitude(a, L) < Magnitude(b, L)
     ELSE IsNegative(b, L) \/ Magnitude(a, L) > Magnitude(b, L)
AtLeast(a, b, L) == Above(a, b, L) \/ Equal(a, b, L)

FpMax(a, b, L) ==
  CASE IsNan(a, L) -> b
    [] ~IsNan(a, L) /\ IsNan(b, L) -> a
    [] OTHER -> IF IsNegative(a, L)
                THEN IF ~IsNegative(b, L) \/ Magnitude(a, L) < Magnitude(b, L) THEN b ELSE a
                ELSE IF IsNegative(b, L) \/ Magnitude(a, L) > Magnitude(b, L) THEN a ELSE b

FpMin(a, b, L) ==
  CASE IsNan(a, L) -> b
    [] ~IsNan(a, L) /\ IsNan(b, L) -> a
    [] OTHER -> IF IsNegative(a, L)
                THEN IF ~IsNegative(b, L) \/ Magnitude(a, L) > Magnitude(b, L) THEN a ELSE b
                ELSE IF IsNegative(b, L) \/ Magnitude(a, L) >= Magnitude(b, L) THEN b ELSE a

(* round: the bits below the point go, and a half or more of them is one   *)
(* more.  A word below one has fewer bits than there are to go; 64 and     *)
(* more to go are masked where a build does not check, and panic where one *)
(* does.                                                                   *)
Round(w, L) ==
  LET below == L.fraction_bits + L.bias - ExponentOf(w, L)
      shift == below % 64
      width == L.exponent_bits + L.fraction_bits + 1
      dropped == w % 2^shift
      result == w - dropped + (IF dropped >= 2^(shift - 1) THEN 2^shift ELSE 0)
      field == ((result \div 2^L.fraction_bits) % 2^L.exponent_bits) * 2^L.fraction_bits
  IN IF ExponentOf(w, L) = 0 \/ (L.has_infinity /\ ~IsFinite(w, L)) \/ below <= 0 \/ shift = 0 THEN w
     ELSE IF shift > width THEN 0
     ELSE IF L.has_infinity /\ field = Infinity(L) THEN Signed(IsNegative(w, L), Infinity(L), L)
     ELSE IF ~L.has_infinity /\ field > L.max_finite THEN Signed(IsNegative(w, L), L.max_finite, L)
     ELSE result % 2^width

(* exact: the word of a small whole number, if it has few enough bits.     *)
Exact(n, L) ==
  LET shift == Larger(0, L.fraction_bits - Log2(n))
      biased == Log2(n) + L.bias
  IN IF n = 0 THEN 0
     ELSE IF biased >= MaxExponent(L) THEN OverflowWord(FALSE, L)
     ELSE Word(FALSE, biased, n * 2^shift, L)

One(L) == Word(FALSE, L.bias, 0, L)
Two(L) == Word(FALSE, L.bias + 1, 0, L)

Recip(w, L) == FpDiv(One(L), w, L)
Relu(w, L) == FpMax(w, 0, L)

(* The operations on the words of one format, for what is made of many. *)
AddIn == [d \in DOMAIN Layout |-> [a, b \in Nat |-> FpAdd(a, b, Layout[d])]]
SubIn == [d \in DOMAIN Layout |-> [a, b \in Nat |-> AddIn[d][a, Neg(b, Layout[d])]]]
MulIn == [d \in DOMAIN Layout |-> [a, b \in Nat |-> FpMul(a, b, Layout[d])]]
DivIn == [d \in DOMAIN Layout |-> [a, b \in Nat |-> FpDiv(a, b, Layout[d])]]

(* Eight steps of Newton's method.                                         *)
Newton(w, d) ==
  FoldLeft(LAMBDA estimate, i : DivIn[d][AddIn[d][estimate, DivIn[d][w, estimate]], Two(Layout[d])],
           IF Above(w, One(Layout[d]), Layout[d]) THEN w ELSE One(Layout[d]), [i \in 1 .. 8 |-> i])

Sqrt(w, d) == IF ~Above(w, 0, Layout[d]) /\ ~IsNan(w, Layout[d]) THEN 0 ELSE Newton(w, d)

(* Sixteen terms of the series.                                            *)
Exp(w, d) ==
  FoldLeft(LAMBDA acc, i :
             LET term == DivIn[d][MulIn[d][acc.term, w], Exact(i, Layout[d])]
             IN [term |-> term, sum |-> AddIn[d][acc.sum, term]],
           [term |-> One(Layout[d]), sum |-> One(Layout[d])], [i \in 1 .. 15 |-> i]).sum

Tanh(w, d) ==
  LET one == One(Layout[d])
      ratio[e \in Nat] ==
        IF IsFinite(e, Layout[d]) THEN DivIn[d][SubIn[d][e, one], AddIn[d][e, one]] ELSE one
      signed[t \in Nat] == IF AtLeast(w, 0, Layout[d]) THEN t ELSE Neg(t, Layout[d])
  IN signed[ratio[Exp(MulIn[d][Two(Layout[d]), Abs(w, Layout[d])], d)]]

(* Mutant of Sigmoid: the series is fed the number itself, negative or not. *)
SigmoidSigned(w, d) ==
  LET one == One(Layout[d])
      ratio[e \in Nat] ==
        IF ~IsFinite(e, Layout[d]) THEN IF AtLeast(w, 0, Layout[d]) THEN one ELSE 0
        ELSE DivIn[d][e, AddIn[d][e, one]]
  IN ratio[Exp(w, d)]

Sigmoid(w, d) ==
  LET one == One(Layout[d])
      up == AtLeast(w, 0, Layout[d])
      ratio[e \in Nat] ==
        IF ~IsFinite(e, Layout[d]) THEN IF up THEN one ELSE 0
        ELSE DivIn[d][IF up THEN e ELSE one, AddIn[d][e, one]]
  IN ratio[Exp(Abs(w, Layout[d]), d)]

(* carve_softmax_rows, of one row: its weights, or none if one of the sums *)
(* on the way is no positive number.                                       *)
Softmax(row, d) ==
  LET finite(w) == IsFinite(w, Layout[d])
      peak == FoldLeft(LAMBDA most, v : IF Above(v, most, Layout[d]) THEN v ELSE most,
                       OverflowWord(TRUE, Layout[d]), row)
      powers[most \in Nat] == [i \in DOMAIN row |-> Exp(SubIn[d][row[i], most], d)]
      weights[power \in Seq(Nat), total \in Nat] ==
        LET weight == [i \in DOMAIN row |-> MulIn[d][power[i], DivIn[d][One(Layout[d]), total]]]
            refused ==
              \/ \E i \in DOMAIN row : ~finite(power[i]) \/ ~finite(weight[i])
              \/ ~finite(total) \/ ~Above(total, 0, Layout[d])
        IN IF refused THEN <<>> ELSE weight
      weighed[power \in Seq(Nat)] == weights[power, FoldLeft(LAMBDA sum, p : AddIn[d][sum, p], 0, power)]
  IN weighed[powers[peak]]

-----------------------------------------------------------------------------
(* The operations.  The result of one is not operated on by another, but   *)
(* for the conversions: bound.                                             *)

FloatInit ==
  /\ dtype \in DTypes /\ word \in Operands(dtype)
  /\ wide = F32(FALSE, 0)
  /\ latest = <<"read", word, word>>

Fresh == latest[1] = "read"
Yields(op, right, result) ==
  word' = result /\ latest' = <<op, word, right>> /\ UNCHANGED <<dtype, wide>>

(* to_f32. *)
Widen ==
  /\ Fresh
  /\ wide' = ToF32(word, Layout[dtype])
  /\ latest' = <<"widen", word, word>> /\ UNCHANGED <<dtype, word>>

(* from_f32 of any F32, and convert: back to this or to another format.    *)
Narrow ==
  /\ \/ Fresh /\ dtype' = dtype /\ wide' \in Probes(dtype)
     \/ latest[1] = "widen" /\ dtype' \in DTypes /\ UNCHANGED wide
  /\ word' = FromF32(wide', Layout[dtype'])
  /\ latest' = <<"narrow", latest[1], word>>

Add == Fresh /\ \E b \in Partners(dtype) : Yields("add", b, FpAdd(word, b, Layout[dtype]))
Sub == Fresh /\ \E b \in Partners(dtype) : Yields("sub", b, FpSub(word, b, Layout[dtype]))
Mul == Fresh /\ \E b \in Partners(dtype) : Yields("mul", b, FpMul(word, b, Layout[dtype]))
Div == Fresh /\ \E b \in Partners(dtype) : Yields("div", b, FpDiv(word, b, Layout[dtype]))
Maximum == Fresh /\ \E b \in Partners(dtype) : Yields("max", b, FpMax(word, b, Layout[dtype]))
Minimum == Fresh /\ \E b \in Partners(dtype) : Yields("min", b, FpMin(word, b, Layout[dtype]))
RoundUp == Fresh /\ Yields("round", word, Round(word, Layout[dtype]))
Reciprocal == Fresh /\ Yields("recip", word, Recip(word, Layout[dtype]))
Rectify == Fresh /\ Yields("relu", word, Relu(word, Layout[dtype]))
Root == Fresh /\ Yields("sqrt", word, Sqrt(word, dtype))
Exponential == Fresh /\ Yields("exp", word, Exp(word, dtype))
HyperbolicTangent == Fresh /\ Yields("tanh", word, Tanh(word, dtype))
Logistic == Fresh /\ Yields("sigmoid", word, Sigmoid(word, dtype))

(* Of a row of two the first weight, if there are any. *)
SoftmaxRow ==
  /\ Fresh /\ word \in Partners(dtype)
  /\ \E b \in Partners(dtype) : \E weight \in {Softmax(<<word, b>>, dtype)} :
       IF weight = <<>> THEN Yields("softmax refused", b, word) ELSE Yields("softmax", b, weight[1])

FloatNext ==
  \/ Widen \/ Narrow
  \/ Add \/ Sub \/ Mul \/ Div \/ Maximum \/ Minimum
  \/ RoundUp \/ Reciprocal \/ Rectify \/ Root \/ Exponential \/ HyperbolicTangent \/ Logistic
  \/ SoftmaxRow
=============================================================================
