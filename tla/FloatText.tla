----------------------------- MODULE FloatText ------------------------------
(***************************************************************************)
(* ft_print_f (libft/ft_printf/src/ft_print_f.c, split_float.c and the     *)
(* arithmetic on strings of digits below them): the bits of a floating     *)
(* point number become its exact decimal digits, which are then rounded to *)
(* the precision.  A string of digits is a sequence of numbers 0 .. 9.     *)
(*                                                                         *)
(* A number is [neg, bit, mantissa, exponent]: the sign, the integer bit   *)
(* of the mantissa, its MantBits fraction bits, and the exponent with its  *)
(* bias, as t_floatbits has them.  Exponent 0 is that of zero and of the   *)
(* denormal numbers, the largest that of nan and the infinities.  A double *)
(* arrives as the long double of the same value (ft_float_length).         *)
(* ft_width is applied to the result in Printf.                            *)
(***************************************************************************)
EXTENDS Integers, Sequences

CONSTANTS
  MantBits,    \* fraction bits of a mantissa: 63
  Bias,        \* bias of the exponents: 16383
  Floats,      \* the numbers that may be printed
  Precisions   \* the precisions they may be printed with

ASSUME MantBitsAssumption == MantBits \in Nat \ {0}
ASSUME BiasAssumption == Bias \in Nat \ {0}

\* b to the n.
Power(b, n) == LET power[k \in 0 .. n] == IF k = 0 THEN 1 ELSE b * power[k - 1] IN power[n]

MaxExponent == 2 * Bias + 1
ASSUME FloatsAssumption ==
  /\ Floats \subseteq [neg : BOOLEAN, bit : {0, 1}, mantissa : 0 .. Power(2, MantBits) - 1,
                       exponent : 0 .. MaxExponent]
  /\ \A f \in Floats : f.exponent # 0 => f.bit = 1
ASSUME PrecisionsAssumption == Precisions \subseteq Nat

Zeros(n) == [k \in 1 .. n |-> 0]
Drop(t, n) == SubSeq(t, n + 1, Len(t))
Abs(n) == IF n < 0 THEN -n ELSE n
Larger(m, n) == IF m < n THEN n ELSE m
NoWord == ""

-----------------------------------------------------------------------------
\* Arithmetic on digits

\* The k-th digit from the right, and sum_string by columns.
Column(t, k) == IF k <= Len(t) THEN t[Len(t) + 1 - k] ELSE 0
sum_string(a, b) ==
  LET n == Larger(Len(a), Len(b))
      carry[k \in 0 .. n] ==
        IF k = 0 THEN 0 ELSE (Column(a, k) + Column(b, k) + carry[k - 1]) \div 10
      digit(k) == IF k > n THEN carry[n] ELSE (Column(a, k) + Column(b, k) + carry[k - 1]) % 10
      len == IF carry[n] = 0 THEN n ELSE n + 1
  IN [p \in 1 .. len |-> digit(len + 1 - p)]

\* ft_multiply adds a * b[i] to res, one place further to the left for each i.
\* The last carry overwrites the digit in front.
AddRowNoCarry(res, a, b, i) ==   \* mutant: it is dropped
  LET k0 == Len(res) - (Len(b) - i)
      sum[q \in 0 .. Len(a)] ==
        IF q = 0 THEN 0 ELSE b[i] * Column(a, q) + sum[q - 1] \div 10 + res[k0 + 1 - q]
  IN [k \in DOMAIN res |-> IF k \in k0 - Len(a) + 1 .. k0 THEN sum[k0 + 1 - k] % 10 ELSE res[k]]

AddRow(res, a, b, i) ==
  LET k0 == Len(res) - (Len(b) - i)
      sum[q \in 0 .. Len(a)] ==
        IF q = 0 THEN 0 ELSE b[i] * Column(a, q) + sum[q - 1] \div 10 + res[k0 + 1 - q]
      carry == sum[Len(a)] \div 10
  IN [k \in DOMAIN res |->
        IF k \in k0 - Len(a) + 1 .. k0 THEN sum[k0 + 1 - k] % 10
        ELSE IF k = k0 - Len(a) /\ carry > 0 THEN carry ELSE res[k]]

\* multiply_string: without leading zeros.
multiply_string(a, b) ==
  LET res[i \in 1 .. Len(b) + 1] ==
        IF i > Len(b) THEN Zeros(Len(a) + Len(b)) ELSE AddRow(res[i + 1], a, b, i)
      first == {k \in DOMAIN res[1] : res[1][k] # 0 /\ \A m \in 1 .. k - 1 : res[1][m] = 0}
  IN IF first = {} THEN <<>> ELSE Drop(res[1], (CHOOSE k \in first : TRUE) - 1)

ft_large_pow(n, nb) ==
  LET pow[k \in 0 .. n] ==
        IF k = 0 THEN <<1>>
        ELSE LET half == pow[k \div 2]
             IN IF k % 2 = 0 THEN multiply_string(half, half)
                ELSE multiply_string(multiply_string(half, half), nb)
  IN pow[n]

-----------------------------------------------------------------------------
VARIABLES
  nbr,        \* the number
  precision,  \* args->precision
  hash,       \* the flag #
  pc,         \* start, mantissa, scale, split, round, join, done; garbage
  i,          \* loop counter of get_mantissa
  mantiss, decimal, fract,   \* the strings of t_args
  minus, dot, \* the result begins with a minus, and has a point
  word,       \* the result is nan or inf; NoWord for a number
  tie         \* history: the digits behind the precision are 5, 0, 0, ...

vars == <<nbr, precision, hash, pc, i, mantiss, decimal, fract, minus, dot, word, tie>>
input == <<nbr, precision, hash>>
output == <<minus, dot, word>>

Bit(n, k) == (n \div Power(2, k)) % 2
NotANumber(f) == f.exponent = MaxExponent /\ f.mantissa # 0
Infinite(f) == f.exponent = MaxExponent /\ f.mantissa = 0

Init ==
  /\ nbr \in Floats /\ precision \in Precisions /\ hash \in BOOLEAN
  /\ pc = "start" /\ i = 0
  /\ mantiss = <<>> /\ decimal = <<>> /\ fract = <<>>
  /\ minus = FALSE /\ dot = FALSE /\ word = NoWord /\ tie = FALSE

\* ft_print_f: nan and the infinities are words, which join_dot_to_decimal
\* leaves alone because there is no decimal and no fract.  nan has no sign.
PrintWord ==
  /\ pc = "start"
  /\ \/ NotANumber(nbr) /\ word' = "nan" /\ minus' = FALSE
     \/ Infinite(nbr) /\ word' = "inf" /\ minus' = nbr.neg
  /\ pc' = "done"
  /\ UNCHANGED <<input, i, mantiss, decimal, fract, dot, tie>>

\* split_float_parts starts with get_mantissa.
StartMantissa ==
  /\ pc = "start" /\ nbr.exponent # MaxExponent
  /\ mantiss' = IF nbr.mantissa # 0 THEN <<0>> ELSE Zeros(MantBits)
  /\ pc' = "mantissa"
  /\ UNCHANGED <<input, i, decimal, fract, output, tie>>

\* Bit i of the mantissa is worth 5^(i+1) after i+1 decimal places.
Weight(k) == ft_large_pow(k + 1, <<5>>)
MantissaBit ==
  /\ pc = "mantissa" /\ nbr.mantissa # 0 /\ i < MantBits
  /\ LET sum == IF Bit(nbr.mantissa, MantBits - 1 - i) = 1 THEN sum_string(mantiss, Weight(i)) ELSE mantiss
     IN mantiss' = IF i < MantBits - 1 THEN Append(sum, 0) ELSE sum
  /\ i' = i + 1
  /\ UNCHANGED <<input, pc, decimal, fract, output, tie>>

MantissaDone ==
  /\ pc = "mantissa" /\ (nbr.mantissa = 0 \/ i = MantBits)
  /\ mantiss' = <<nbr.bit>> \o mantiss
  /\ pc' = "scale"
  /\ UNCHANGED <<input, i, decimal, fract, output, tie>>

\* The exponent loses its bias, that of a denormal number too.
e == nbr.exponent - Bias
NotZero == nbr.mantissa # 0 \/ nbr.bit # 0

Scale ==
  /\ pc = "scale"
  /\ mantiss' = IF ~NotZero THEN mantiss
                ELSE multiply_string(ft_large_pow(Abs(e), IF e < 0 THEN <<5>> ELSE <<2>>), mantiss)
  /\ pc' = "split"
  /\ UNCHANGED <<input, i, decimal, fract, output, tie>>

\* save_parts, then the fraction is made long enough for the precision.
SplitAt == Len(mantiss) - MantBits
Parts ==
  IF e < 0 /\ NotZero
    THEN [decimal |-> <<0>>, fract |-> Zeros(Abs(SplitAt + e)) \o mantiss]
    ELSE [decimal |-> SubSeq(mantiss, 1, SplitAt), fract |-> Drop(mantiss, SplitAt)]
LongEnough(t) == IF precision > Len(t) THEN t \o Zeros(precision + 1) ELSE t
Split ==
  /\ pc = "split"
  /\ decimal' = Parts.decimal /\ fract' = LongEnough(Parts.fract)
  /\ mantiss' = <<>> /\ pc' = "round"
  /\ UNCHANGED <<input, i, output, tie>>

\* is_roundable: the digits behind the precision are exactly one half.
OneHalf ==
  /\ precision < Len(fract) /\ fract[precision + 1] = 5
  /\ \A k \in precision + 2 .. Len(fract) : fract[k] = 0

OddFirst(t) == t[1] % 2 = 1   \* mutant: the digit in front is looked at
Odd(t) == t[Len(t)] % 2 = 1
RoundHalf ==
  /\ pc = "round" /\ OneHalf
  /\ decimal' = IF Odd(decimal) THEN sum_string(decimal, <<1>>) ELSE decimal
  /\ tie' = TRUE /\ pc' = "join"
  /\ UNCHANGED <<input, i, mantiss, fract, output>>

\* ft_fround: half a unit of the last place is added, a carry goes to decimal.
\* s has its 5 behind the precision; where the fraction ends there it loses its
\* terminator, and gains a digit when a zero byte follows.
Unit == [k \in 1 .. Larger(Len(fract), precision + 1) |-> IF k = precision + 1 THEN 5 ELSE 0]
CarryLost(fsum) == decimal   \* mutant
CarryInto(fsum) ==
  IF Len(fsum) > Len(fract) THEN sum_string(SubSeq(fsum, 1, Len(fsum) - Len(fract)), decimal) ELSE decimal
Round ==
  /\ pc = "round" /\ ~OneHalf
  /\ LET fsum == sum_string(Unit, fract)
     IN /\ decimal' = CarryInto(fsum)
        /\ fract' = SubSeq(Drop(fsum, Len(fsum) - Len(fract)), 1, precision)
  /\ pc' = "join"
  /\ UNCHANGED <<input, i, mantiss, output, tie>>

\* What follows s is not a zero byte.
RoundGarbage ==
  /\ pc = "round" /\ precision = Len(fract)
  /\ pc' = "garbage"
  /\ UNCHANGED <<input, i, mantiss, decimal, fract, output, tie>>

\* join_dot_to_decimal: the point, the fraction and the sign, also that of -0.
Join ==
  /\ pc = "join"
  /\ minus' = nbr.neg
  /\ IF hash \/ precision # 0 THEN dot' = TRUE /\ UNCHANGED fract
                              ELSE dot' = FALSE /\ fract' = <<>>
  /\ pc' = "done"
  /\ UNCHANGED <<input, i, mantiss, decimal, word, tie>>

Ended == pc \in {"done", "garbage"}

Next ==
  \/ PrintWord \/ StartMantissa \/ MantissaBit \/ MantissaDone \/ Scale \/ Split
  \/ RoundHalf \/ Round \/ RoundGarbage \/ Join
  \/ (Ended /\ UNCHANGED vars)

Spec == Init /\ [][Next]_vars

-----------------------------------------------------------------------------
\* The number of which t is the decimal notation.
Value(t) == LET val[k \in 0 .. Len(t)] == IF k = 0 THEN 0 ELSE 10 * val[k - 1] + t[k] IN val[Len(t)]

\* The number to print is Significand * 2^(e - MantBits): Exact / 10^Places.
\* That is the number given, but for a denormal one it is half of it, whose
\* exponent is that of exponent 1.
Significand == nbr.bit * Power(2, MantBits) + nbr.mantissa
Places == IF e < 0 /\ NotZero THEN MantBits - e ELSE MantBits
Exact == Significand * Power(5, Places) * (IF e < 0 THEN 1 ELSE Power(2, e))

\* No digit is lost or gained when the mantissa is scaled and split at the
\* decimal point, and the fraction reaches as far as the precision.
PartsExact ==
  pc = "round" =>
    /\ decimal # <<>> /\ Len(fract) >= Larger(Places, precision)
    /\ Value(decimal \o SubSeq(fract, 1, Places)) = Exact
    /\ Value(Drop(fract, Places)) = 0

\* The printed number has the sign of the number given and as many places as
\* the precision asks for.
Shape == minus = nbr.neg /\ dot = (hash \/ precision # 0) /\ Len(fract) = precision
Shown == Value(decimal \o fract)

\* It is at most half a unit of the last place away from the exact number.
Nearest ==
  /\ Shape
  /\ IF precision < Places
       THEN 2 * Abs(Shown * Power(10, Places - precision) - Exact) <= Power(10, Places - precision)
       ELSE Shown = Exact * Power(10, precision - Places)

\* It is so for every number, whatever its exponent, unless the digits behind
\* the precision are exactly one half, or the fraction ends at the precision:
\* there the 5 falls on the last digit, and the number comes out five units of
\* it too large, with all its carries.  Only what is not a number, or not
\* finite, becomes a word.
RoundedNearest ==
  /\ pc = "done" /\ word = NoWord /\ ~tie =>
       IF precision = Places THEN Shape /\ Shown = Exact + 5 ELSE Nearest
  /\ word # NoWord => nbr.exponent = MaxExponent /\ (minus => nbr.neg /\ word = "inf")

\* With no places at all a half goes to the even neighbour.
HalfToEven == pc = "done" /\ tie /\ precision = 0 => (hash \/ Nearest) /\ ~Odd(decimal)

\* What the documentation says ----------------------------------------------

\* ft_print_f.c 52, 84-92: the fraction is rounded to the precision, and a half
\* is no exception.
Rounded == pc = "done" /\ word = NoWord /\ precision # Places => Nearest
=============================================================================
