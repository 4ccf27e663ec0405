---------------------------- MODULE PrintfProofs -----------------------------
(***************************************************************************)
(* What ft_printf writes, for every format, argument and width of the      *)
(* integer types: its two readings of a directive agree (TypeOK), what it  *)
(* returns is the number of characters it wrote (CounterCounts), a field   *)
(* is filled up to its width and no further (FieldKept), and the digits of *)
(* an integer denote the argument (ValueKept).                             *)
(***************************************************************************)
EXTENDS Printf, TLAPS, NumberInduction, FiniteSetTheorems, SequenceTheorems

\* The characters of the texts, those of the formats and the arguments among
\* them.  The mark of an escape sequence is none.
Letters == {"0", "1", "2", "3", "4", "5", "6", "7", "8", "9", "a", "b", "c", "d", "e", "f",
            "A", "B", "C", "D", "E", "F", "x", "X", "n", "u", "l", "(", ")", "-", "+", Blank, LeftBrace}
Given == UNION {{t[n] : n \in DOMAIN t} : t \in Formats \cup Strings \cup FloatTexts}
Char == Letters \cup Given

\* The characters with a meaning of their own are different ones.
LEMMA NamedChars ==
  /\ Blank \notin {ESC, NUL, "%", "-", "+", "#", "0"} /\ LeftBrace \notin {ESC, NUL, "%"}
  /\ RightBrace \notin {ESC, NUL, "%"}
BY Zenon DEF Blank, LeftBrace, RightBrace, ESC, NUL

\* No text has the mark of an escape sequence in it.
LEMMA CharsAreNoMarks == ESC \notin Char /\ Letters \subseteq Char
<1>1. ESC \notin Letters
  BY NamedChars DEF Letters, ESC
<1>2. ESC \notin Given
  BY TextsAssumption DEF Given
<1> QED
  BY <1>1, <1>2 DEF Char

\* Formats and arguments are texts without a zero byte.
LEMMA GivenTexts ==
  ASSUME NEW t \in Formats \cup Strings \cup FloatTexts
  PROVE  t \in Seq(Char) /\ \A n \in DOMAIN t : t[n] # NUL
<1>1. t \in Seq({t[n] : n \in DOMAIN t}) /\ \A n \in DOMAIN t : t[n] \notin {NUL, ESC}
  BY TextsAssumption
<1>2. {t[n] : n \in DOMAIN t} \subseteq Char
  BY DEF Char, Given
<1> QED
  BY <1>1, <1>2

-----------------------------------------------------------------------------
\* Texts

\* What ft_memset fills is a text of the length asked for.
LEMMA RepeatType ==
  ASSUME NEW c \in Char, NEW n \in Nat
  PROVE  Repeat(c, n) \in Seq(Char) /\ Len(Repeat(c, n)) = n
BY DEF Repeat

\* Padding makes a text longer by what is missing, and not when nothing is.
LEMMA PaddType ==
  ASSUME NEW t \in Seq(Char), NEW n \in Int, NEW c \in Char, NEW side
  PROVE  /\ padd(t, n, c, side) \in Seq(Char)
         /\ Len(padd(t, n, c, side)) = Len(t) + (IF n <= 0 THEN 0 ELSE n)
<1>1. CASE n <= 0
  BY <1>1 DEF padd
<1>2. CASE n > 0
  <2>1. Repeat(c, n) \in Seq(Char) /\ Len(Repeat(c, n)) = n
    BY <1>2, RepeatType
  <2> QED
    BY <1>2, <2>1 DEF padd
<1> QED
  BY <1>1, <1>2

\* What is behind the first n characters is a text.
LEMMA DropType ==
  ASSUME NEW t \in Seq(Char), NEW n \in 0 .. Len(t)
  PROVE  Drop(t, n) \in Seq(Char) /\ Len(Drop(t, n)) = Len(t) - n
BY DEF Drop

-----------------------------------------------------------------------------
\* Numerals

DigitOf(n) == Digits[n + 1]
DigitChars == {"0", "1", "2", "3", "4", "5", "6", "7", "8", "9", "a", "b", "c", "d", "e", "f"}

\* A digit is a character of 0 .. 9, a .. f.
LEMMA DigitType ==
  ASSUME NEW n \in 0 .. 15
  PROVE  Digits[n + 1] \in DigitChars
BY DEF Digits, DigitChars

\* Dividing by the base leads to a smaller number, and leaves a digit.
LEMMA DivideDown ==
  ASSUME NEW n \in Nat, NEW base \in 2 .. 16
  PROVE  /\ n \div base \in Nat /\ n % base \in 0 .. base - 1
         /\ (n > 0 => n \div base < n) /\ (n < base => n \div base = 0 /\ n % base = n)
         /\ n = base * (n \div base) + (n % base)
<1>1. n \div base \in Nat /\ n % base \in 0 .. base - 1 /\ n = base * (n \div base) + (n % base)
  OBVIOUS
<1> DEFINE q == n \div base
           r == n % base
<1>2. q \in Nat /\ r \in 0 .. base - 1 /\ n = base * q + r
  BY <1>1
<1> HIDE DEF q, r
<1>3. base * q >= 2 * q
  BY <1>2
<1>4. n > 0 => q < n
  BY <1>2, <1>3
<1>5. n < base => q = 0
  <2> SUFFICES ASSUME n < base, q >= 1
               PROVE  FALSE
    BY <1>2
  <2>1. base * q >= base
    BY <1>2
  <2> QED
    BY <1>2, <2>1
<1>6. n < base => r = n
  BY <1>2, <1>5
<1> QED
  BY <1>2, <1>4, <1>5, <1>6 DEF q, r

\* The digits of n, one after the other: the function that Numeral defines.
DigitsTo(n, base, digits) ==
  digits = [k \in 0 .. n |->
              IF k < base THEN <<Digits[k + 1]>>
              ELSE Append(digits[k \div base], Digits[(k % base) + 1])]
DigitsFor(n, base) == CHOOSE digits : DigitsTo(n, base, digits)

\* A numeral is the last of the numerals up to its number.
LEMMA NumeralIsLast == \A n, base : Numeral(n, base) = DigitsFor(n, base)[n]
BY DEF Numeral, DigitsFor, DigitsTo

\* Each numeral is that of the number divided by the base with one digit
\* more.
LEMMA DigitsFacts ==
  ASSUME NEW n \in Nat, NEW base \in 2 .. 16
  PROVE  LET f == DigitsFor(n, base)
         IN \A k \in 0 .. n :
              /\ f[k] \in Seq(DigitChars) /\ f[k] # <<>>
              /\ f[k] = IF k < base THEN <<Digits[k + 1]>>
                        ELSE Append(f[k \div base], Digits[(k % base) + 1])
<1> DEFINE D      == Seq(DigitChars) \ {<<>>}
           before == [k \in 1 .. n |-> k \div base]
           F      == [x \in (1 .. n) \X D |->
                        IF x[1] < base THEN <<Digits[x[1] + 1]>>
                        ELSE Append(x[2], Digits[(x[1] % base) + 1])]
           f      == DigitsFor(n, base)
<1>1. /\ \A k \in 0 .. base - 1 : <<Digits[k + 1]>> \in D
      /\ \A k \in 0 .. base - 1, t \in D : Append(t, Digits[k + 1]) \in D
  <2>1. \A k \in 0 .. base - 1 : Digits[k + 1] \in DigitChars
    <3>1. \A k \in 0 .. base - 1 : k \in 0 .. 15
      OBVIOUS
    <3> QED
      BY <3>1, DigitType
  <2>2. \A c \in DigitChars : <<c>> \in D /\ \A t \in D : Append(t, c) \in D
    OBVIOUS
  <2> QED
    BY <2>1, <2>2
<1>2. \A k \in 1 .. n : k \div base \in Nat /\ k \div base < k /\ k % base \in 0 .. base - 1
  BY DivideDown
<1>3. before \in [1 .. n -> Nat] /\ \A k \in 1 .. n : before[k] < k /\ before[k] = k \div base
  BY <1>2
<1>4. \A g : DigitsTo(n, base, g) <=>
        g = [k \in 0 .. n |-> IF k < base THEN <<Digits[k + 1]>>
                              ELSE Append(g[k \div base], Digits[(k % base) + 1])]
  BY DEF DigitsTo
<1> HIDE DEF D, before
<1>5. F \in [(1 .. n) \X D -> D]
  <2>1. ASSUME NEW k \in 1 .. n, NEW t \in D
        PROVE  (IF k < base THEN <<Digits[k + 1]>> ELSE Append(t, Digits[(k % base) + 1])) \in D
    <3>1. k < base => k \in 0 .. base - 1
      OBVIOUS
    <3> QED
      BY <1>1, <1>2, <3>1
  <2> QED
    BY <2>1
<1>6. \A k \in 1 .. n, t \in D : F[<<k, t>>] = IF k < base THEN <<Digits[k + 1]>>
                                                ELSE Append(t, Digits[(k % base) + 1])
  OBVIOUS
<1> HIDE DEF F
<1>7. Recursive(D, <<Digits[0 + 1]>>, n, before, F)
  <2>1. <<Digits[0 + 1]>> \in D
    BY <1>1
  <2> QED
    BY <1>3, <1>5, <2>1, Recursion
<1>8. PICK g \in [0 .. n -> D] : Follows(g, <<Digits[0 + 1]>>, n, before, F)
  BY <1>7 DEF Recursive
<1>9. DigitsTo(n, base, g)
  <2>1. ASSUME NEW k \in 0 .. n
        PROVE  g[k] = IF k < base THEN <<Digits[k + 1]>>
                      ELSE Append(g[k \div base], Digits[(k % base) + 1])
    <3>1. CASE k = 0
      BY <1>8, <3>1, SMTT(30) DEF Follows
    <3>2. CASE k # 0
      <4>1. k \in 1 .. n /\ k \div base \in 0 .. n
        BY <1>2, <3>2
      <4>2. g[k] = F[<<k, g[k \div base]>>]
        BY <1>3, <1>8, <4>1 DEF Follows
      <4>3. g[k \div base] \in D
        BY <4>1
      <4> QED
        BY <1>6, <4>1, <4>2, <4>3
    <3> QED
      BY <3>1, <3>2
  <2> QED
    BY <1>4, <2>1
<1>10. DigitsTo(n, base, f)
  BY <1>9 DEF DigitsFor
<1> HIDE DEF f
<1> DEFINE made(k) == IF k < base THEN <<Digits[k + 1]>>
                      ELSE Append(f[k \div base], Digits[(k % base) + 1])
<1>11. \A k \in 0 .. n : f[k] = made(k)
  <2>1. f = [k \in 0 .. n |-> made(k)]
    BY <1>4, <1>10
  <2> HIDE DEF made
  <2> QED
    BY <2>1
<1> HIDE DEF made
<1>12. \A k \in 0 .. n : f[k] \in D
  <2> DEFINE P == {k \in 0 .. n : f[k] \in D}
  <2>1. ASSUME NEW k \in 0 .. n, \A m \in 0 .. k - 1 : m \in P
        PROVE  k \in P
    <3>1. made(k) \in D
      <4>1. CASE k < base
        <5>1. k \in 0 .. base - 1
          BY <4>1
        <5> QED
          BY <1>1, <4>1, <5>1 DEF made
      <4>2. CASE ~(k < base)
        <5>1. k \in 1 .. n /\ k \div base \in 0 .. k - 1 /\ k % base \in 0 .. base - 1
          BY <1>2, <4>2
        <5>2. f[k \div base] \in D
          BY <2>1, <5>1
        <5> QED
          BY <1>1, <4>2, <5>1, <5>2 DEF made
      <4> QED
        BY <4>1, <4>2
    <3> QED
      BY <1>11, <3>1
  <2>2. \A k \in 0 .. n : k \in P
    <3> HIDE DEF P
    <3> QED
      BY <2>1, StrongInduct
  <2> QED
    BY <2>2
<1> QED
  BY <1>11, <1>12 DEF D, f, made

\* A numeral has at least one digit, and nothing but digits.
LEMMA NumeralType ==
  ASSUME NEW n \in Nat, NEW base \in 2 .. 16
  PROVE  Numeral(n, base) \in Seq(DigitChars) /\ Numeral(n, base) # <<>>
<1>1. n \in 0 .. n
  OBVIOUS
<1> QED
  BY <1>1, DigitsFacts, NumeralIsLast

-----------------------------------------------------------------------------
\* Values

\* 2^n is the number of the subsets of a set of n elements.
LEMMA PowerOfTwo ==
  ASSUME NEW n \in Nat
  PROVE  2^n \in Nat \ {0}
<1> DEFINE S == 1 .. n
<1>1. IsFiniteSet(S) /\ Cardinality(S) = n
  BY FS_Interval
<1> HIDE DEF S
<1>2. IsFiniteSet(SUBSET S) /\ Cardinality(SUBSET S) = 2^n
  BY <1>1, FS_SUBSET
<1>3. Cardinality(SUBSET S) \in Nat /\ Cardinality(SUBSET S) # 0
  <2>1. S \in SUBSET S
    OBVIOUS
  <2>2. SUBSET S # {}
    BY <2>1
  <2> QED
    BY <1>2, <2>2, FS_CardinalityType, FS_EmptySet
<1> QED
  BY <1>2, <1>3

\* A number modulo m is less than m.
LEMMA Reduced ==
  ASSUME NEW v \in Int, NEW m \in Nat \ {0}
  PROVE  v % m \in Nat /\ v % m < m
OBVIOUS

\* An argument taken as unsigned is a natural number.
LEMMA UnsignedType ==
  ASSUME NEW v \in Int, NEW w \in Nat
  PROVE  Unsigned(v, w) \in Nat
<1>1. 2^w \in Nat \ {0}
  BY PowerOfTwo
<1> QED
  BY <1>1, Reduced DEF Unsigned

\* An argument taken as signed is an integer.
LEMMA SignedType ==
  ASSUME NEW v \in Int, NEW w \in Nat
  PROVE  Signed(v, w) \in Int
<1> DEFINE m == 2^w
           r == v % m
           h == 2^(w - 1)
<1>1. m \in Nat \ {0}
  BY PowerOfTwo
<1> HIDE DEF m
<1>2. r \in Nat
  BY <1>1, Reduced
<1> HIDE DEF r, h
<1>3. (IF r >= h THEN r - m ELSE r) \in Int
  BY <1>1, <1>2
<1> QED
  BY <1>3 DEF Signed, m, r, h

Flags == {"MINUS", "PLUS", "HASH", "SPACE", "ZERO"}
Modifiers == {"H", "HH", "L", "LL", "UPL", "Z", "J"}
Directive ==
  [specIndex : Int, flag : SUBSET Flags, width : Int, precision : Int, spec : Char \cup {NUL},
   modifier : SUBSET Modifiers]

\* The length modifiers leave a number of bits.
LEMMA WidthsOfTypes ==
  /\ LongBits \in Nat /\ IntBits \in Nat
  /\ \A d, w : w \in {LongBits, IntBits} => Narrow(d, w) \in Nat
BY BitsAssumption DEF Narrow

\* Slots are integers, and what a directive takes them for are too.
LEMMA ValueTypes ==
  ASSUME NEW d \in Directive, NEW v \in Int
  PROVE  ft_unsigned(d, v) \in Nat /\ ft_signed(d, v) \in Int
<1>1. /\ LongBits \in Nat /\ IntBits \in Nat
      /\ Narrow(d, LongBits) \in Nat /\ Narrow(d, IntBits) \in Nat
  BY WidthsOfTypes
<1> DEFINE u == Unsigned(v, IF TakesLong(d) THEN LongBits ELSE IntBits)
<1>2. u \in Int
  <2>1. \A w \in Nat : Unsigned(v, w) \in Int
    BY UnsignedType
  <2> QED
    BY <1>1, <2>1
<1> HIDE DEF u
<1>3. Unsigned(u, Narrow(d, LongBits)) \in Nat
  BY <1>1, <1>2, UnsignedType
<1>4. Signed(v, LongBits) \in Int /\ Signed(v, IntBits) \in Int
  BY <1>1, SignedType
<1>5. Signed(Signed(v, IntBits), Narrow(d, IntBits)) \in Int
  BY <1>1, <1>4, SignedType
<1> QED
  BY <1>3, <1>4, <1>5 DEF ft_unsigned, ft_signed, u

\* Arguments are integers.
LEMMA SlotTypes == \A v \in Slots : v \in Int
<1>1. 2^LongBits \in Nat
  BY WidthsOfTypes, PowerOfTwo
<1> QED
  BY <1>1, SlotsAssumption

-----------------------------------------------------------------------------
\* The text of a number, before the width is looked at.

\* Digits may stand in a text.
LEMMA DigitsAreChars == DigitChars \subseteq Char
BY DEF DigitChars, Char, Letters

\* ft_strupper keeps the length of a text.
LEMMA UpperType ==
  ASSUME NEW t \in Seq(DigitChars)
  PROVE  /\ ft_strupper(t) \in Seq(Letters) /\ ft_strupper(t) \in Seq(Char)
         /\ Len(ft_strupper(t)) = Len(t)
<1> DEFINE upper(c) == IF c \in DOMAIN Uppers THEN Uppers[c] ELSE c
<1>1. \A c \in DigitChars : upper(c) \in Letters
  <2>1. DOMAIN Uppers = {"a", "b", "c", "d", "e", "f"}
    BY DEF Uppers
  <2>2. \A c \in {"a", "b", "c", "d", "e", "f"} : Uppers[c] \in Letters
    <3>1. /\ Uppers["a"] \in Letters /\ Uppers["b"] \in Letters /\ Uppers["c"] \in Letters
          /\ Uppers["d"] \in Letters /\ Uppers["e"] \in Letters /\ Uppers["f"] \in Letters
      BY DEF Uppers, Letters
    <3> QED
      BY <3>1
  <2>3. DigitChars \subseteq Letters
    BY DEF DigitChars, Letters
  <2> QED
    BY <2>1, <2>2, <2>3
<1> HIDE DEF upper
<1>2. /\ [k \in DOMAIN t |-> upper(t[k])] \in Seq(Letters)
      /\ Len([k \in DOMAIN t |-> upper(t[k])]) = Len(t)
  BY <1>1
<1>3. Seq(Letters) \subseteq Seq(Char)
  BY CharsAreNoMarks
<1> QED
  BY <1>2, <1>3 DEF ft_strupper, upper

\* Bases are between 2 and 16.
LEMMA BaseType ==
  ASSUME NEW s \in SpecsPOUBX
  PROVE  Base[s] \in 2 .. 16 \/ s = "X"
BY DEF SpecsPOUBX, Base

\* What ft_ltoa_base yields is a text.
LEMMA NumeralsAreTexts ==
  ASSUME NEW d \in Directive, NEW n \in Nat
  PROVE  /\ ft_ltoa(n) \in Seq(Char)
         /\ d.spec \in SpecsPOUBX => ft_base(d, n) \in Seq(Char)
<1>1. \A base \in 2 .. 16 : Numeral(n, base) \in Seq(DigitChars) /\ Numeral(n, base) \in Seq(Char)
  <2>1. Seq(DigitChars) \subseteq Seq(Char)
    BY DigitsAreChars
  <2> SUFFICES ASSUME NEW base \in 2 .. 16
               PROVE  Numeral(n, base) \in Seq(DigitChars)
    BY <2>1
  <2> QED
    BY NumeralType
<1>2. ft_ltoa(n) \in Seq(Char)
  BY <1>1 DEF ft_ltoa
<1>3. ASSUME d.spec \in SpecsPOUBX
      PROVE  ft_base(d, n) \in Seq(Char)
  <2>1. CASE d.spec = "X"
    <3>1. Numeral(n, 16) \in Seq(DigitChars)
      BY <1>1
    <3> QED
      BY <2>1, <3>1, UpperType DEF ft_base
  <2>2. CASE d.spec # "X"
    <3>1. Base[d.spec] \in 2 .. 16
      BY <1>3, <2>2, BaseType
    <3> QED
      BY <1>1, <2>2, <3>1 DEF ft_base
  <2> QED
    BY <2>1, <2>2
<1> QED
  BY <1>2, <1>3

\* The characters that ft_printf adds may stand in a text.
LEMMA OwnChars ==
  /\ "0" \in Char /\ Blank \in Char /\ "-" \in Char /\ "+" \in Char /\ "x" \in Char /\ "X" \in Char
  /\ "b" \in Char /\ "a" \in Char
BY CharsAreNoMarks DEF Letters

\* What ft_ltoa yields is a text.
LEMMA NumberTypes ==
  ASSUME NEW d \in Directive, NEW x \in Int
  PROVE  ft_ltoa(x) \in Seq(Char)
<1>1. CASE x < 0
  <2>1. Numeral(-x, 10) \in Seq(Char)
    <3>1. -x \in Nat /\ ~(-x < 0)
      BY <1>1
    <3>2. ft_ltoa(-x) \in Seq(Char)
      BY <3>1, NumeralsAreTexts
    <3> QED
      BY <3>1, <3>2 DEF ft_ltoa
  <2>2. <<"-">> \in Seq(Char)
    BY OwnChars
  <2> QED
    BY <1>1, <2>1, <2>2 DEF ft_ltoa
<1>2. CASE ~(x < 0)
  BY <1>2, NumeralsAreTexts
<1> QED
  BY <1>1, <1>2

\* So is what ft_precision makes of one.
LEMMA PrecisionType ==
  ASSUME NEW d \in Directive, NEW t \in Seq(Char)
  PROVE  ft_precision(d, t) \in Seq(Char)
<1>1. /\ d.precision \in Int /\ Len(t) \in Nat /\ "0" \in Char /\ "-" \in Char
      /\ d.precision - Len(t) \in Int /\ d.precision - (Len(t) - 1) \in Int
  BY OwnChars DEF Directive
<1>2. \A n \in Int, s \in Seq(Char) : padd(s, n, "0", "L") \in Seq(Char)
  BY <1>1, PaddType
<1>3. Negative(t) => Drop(t, 1) \in Seq(Char)
  BY DropType DEF Negative
<1>4. d.precision \in 0 .. Len(t) => SubSeq(t, 1, d.precision) \in Seq(Char)
  BY <1>1
<1>5. \A s \in Seq(Char) : <<"-">> \o s \in Seq(Char)
  BY <1>1
<1> HIDE DEF Negative
<1>6. Negative(t) => <<"-">> \o padd(Drop(t, 1), d.precision - (Len(t) - 1), "0", "L") \in Seq(Char)
  BY <1>1, <1>2, <1>3, <1>5
<1> QED
  BY <1>1, <1>2, <1>4, <1>6 DEF ft_precision

-----------------------------------------------------------------------------
\* The field: as long as the text with its sign or prefix, or as wide as asked.
Wider(m, n) == IF m >= n THEN m ELSE n

\* manage_sign puts at most one character in front, and a negative number is
\* not empty.
LEMMA SignFacts ==
  ASSUME NEW d \in Directive, NEW t \in Seq(Char)
  PROVE  /\ SignPut(d, t) \in Seq(Char) /\ Len(SignPut(d, t)) \in 0 .. 1
         /\ Negative(t) => Len(t) >= 1
<1> DEFINE Short(s) == s \in Seq(Char) /\ Len(s) \in 0 .. 1
<1>1. Short(<<>>) /\ Short(<<"+">>) /\ Short(<<Blank>>)
  BY OwnChars
<1>2. Negative(t) => Len(t) >= 1
  BY DEF Negative
<1> HIDE DEF Short
<1>3. Short(SignPut(d, t))
  BY <1>1, Zenon DEF SignPut
<1> QED
  BY <1>2, <1>3 DEF Short

\* ft_numeric makes a field as wide as the sign and the digits, or the width.
LEMMA NumericField ==
  ASSUME NEW d \in Directive, NEW t \in Seq(Char)
  PROVE  /\ ft_numeric(d, t) \in Seq(Char)
         /\ Len(ft_numeric(d, t)) = Wider(Len(SignPut(d, t)) + Len(t), d.width)
<1> DEFINE put  == SignPut(d, t)
           all  == put \o t
           pad  == d.width - Len(all)
           sign == IF Negative(t) \/ put # <<>> THEN 1 ELSE 0
           side == IF "MINUS" \in d.flag THEN "R" ELSE "L"
<1>1. /\ put \in Seq(Char) /\ all \in Seq(Char) /\ Len(all) = Len(put) + Len(t) /\ Len(all) \in Nat
      /\ d.width \in Int /\ pad \in Int
  BY SignFacts DEF Directive
<1>2. sign \in 0 .. Len(all)
  BY <1>1, SignFacts
<1>3. ft_numeric(d, t) = IF "ZERO" \in d.flag /\ all # NaN /\ all \notin Infs
                           THEN SubSeq(all, 1, sign) \o padd(Drop(all, sign), pad, "0", "L")
                         ELSE padd(all, pad, Blank, side)
  BY DEF ft_numeric
<1>4. Len(all) + (IF pad <= 0 THEN 0 ELSE pad) = Wider(Len(all), d.width)
  BY <1>1 DEF Wider
<1> HIDE DEF put, all, sign, side, pad
<1>5. /\ padd(all, pad, Blank, side) \in Seq(Char)
      /\ Len(padd(all, pad, Blank, side)) = Len(all) + (IF pad <= 0 THEN 0 ELSE pad)
  BY <1>1, OwnChars, PaddType
<1>6. LET s == SubSeq(all, 1, sign) \o padd(Drop(all, sign), pad, "0", "L")
      IN s \in Seq(Char) /\ Len(s) = Len(all) + (IF pad <= 0 THEN 0 ELSE pad)
  <2> DEFINE back == padd(Drop(all, sign), pad, "0", "L")
  <2>1. Drop(all, sign) \in Seq(Char) /\ Len(Drop(all, sign)) = Len(all) - sign
    BY <1>1, <1>2, DropType
  <2>2. back \in Seq(Char) /\ Len(back) = (Len(all) - sign) + (IF pad <= 0 THEN 0 ELSE pad)
    BY <1>1, <2>1, OwnChars, PaddType
  <2>3. SubSeq(all, 1, sign) \in Seq(Char) /\ Len(SubSeq(all, 1, sign)) = sign
    BY <1>1, <1>2
  <2> HIDE DEF back
  <2> QED
    BY <1>1, <1>2, <2>2, <2>3 DEF back
<1> QED
  BY <1>1, <1>3, <1>4, <1>5, <1>6 DEF put

\* ft_string makes one as wide as the text, or the width.
LEMMA StringField ==
  ASSUME NEW d \in Directive, NEW t \in Seq(Char)
  PROVE  ft_string(d, t) \in Seq(Char) /\ Len(ft_string(d, t)) = Wider(Len(t), d.width)
<1> DEFINE pad == d.width - Len(t)
<1>1. Len(t) \in Nat /\ d.width \in Int /\ pad \in Int
  BY DEF Directive
<1>2. Len(t) + (IF pad <= 0 THEN 0 ELSE pad) = Wider(Len(t), d.width)
  BY <1>1 DEF Wider
<1> HIDE DEF pad
<1>3. \A c \in {"0", Blank} : \A side :
        /\ padd(t, pad, c, side) \in Seq(Char)
        /\ Len(padd(t, pad, c, side)) = Wider(Len(t), d.width)
  BY <1>1, <1>2, OwnChars, PaddType
<1>4. ft_string(d, t) \in {padd(t, pad, c, side) : c \in {"0", Blank}, side \in {"L", "R"}}
  BY DEF ft_string, pad
<1> QED
  BY <1>3, <1>4

\* A prefix is none, one or two characters.
LEMMA PrefixType ==
  ASSUME NEW d \in Directive, NEW t, NEW u
  PROVE  get_prefix(d, t, u) \in Seq(Char) /\ Len(get_prefix(d, t, u)) \in 0 .. 2
<1> DEFINE Short(s) == s \in Seq(Char) /\ Len(s) \in 0 .. 2
<1>1. /\ Short(<<>>) /\ Short(<<"0">>) /\ Short(<<"0", "x">>) /\ Short(<<"0", "b">>)
      /\ \A c \in {"x", "X"} : Short(<<"0", c>>)
  BY OwnChars
<1> HIDE DEF Short
<1>2. Short(get_prefix(d, t, u))
  BY <1>1, Zenon DEF get_prefix
<1> QED
  BY <1>2 DEF Short

\* ft_alternate makes a field as wide as prefix and digits, or the width.
LEMMA AlternateField ==
  ASSUME NEW d \in Directive, NEW t \in Seq(Char), NEW u
  PROVE  /\ ft_alternate(d, t, u) \in Seq(Char)
         /\ Len(ft_alternate(d, t, u)) = Wider(Len(t) + Len(get_prefix(d, t, u)), d.width)
<1> DEFINE pre  == get_prefix(d, t, u)
           pad  == d.width - (Len(t) + Len(pre))
           side == IF "MINUS" \in d.flag THEN "R" ELSE "L"
<1>1. /\ pre \in Seq(Char) /\ Len(pre) \in Nat /\ Len(t) \in Nat /\ d.width \in Int /\ pad \in Int
      /\ pre \o t \in Seq(Char) /\ Len(pre \o t) = Len(t) + Len(pre)
  BY PrefixType DEF Directive
<1>2. (Len(t) + Len(pre)) + (IF pad <= 0 THEN 0 ELSE pad) = Wider(Len(t) + Len(pre), d.width)
  BY <1>1 DEF Wider
<1>3. ft_alternate(d, t, u) = IF "ZERO" \in d.flag THEN pre \o padd(t, pad, "0", side)
                              ELSE padd(pre \o t, pad, Blank, side)
  BY DEF ft_alternate
<1> DEFINE all == pre \o t
<1> HIDE DEF pre, pad, side
<1>4. /\ padd(all, pad, Blank, side) \in Seq(Char)
      /\ Len(padd(all, pad, Blank, side)) = (Len(t) + Len(pre)) + (IF pad <= 0 THEN 0 ELSE pad)
  <2>1. all \in Seq(Char) /\ Len(all) = Len(t) + Len(pre)
    BY <1>1
  <2> HIDE DEF all
  <2> QED
    BY <1>1, <2>1, OwnChars, PaddType
<1>5. LET s == pre \o padd(t, pad, "0", side)
      IN s \in Seq(Char) /\ Len(s) = (Len(t) + Len(pre)) + (IF pad <= 0 THEN 0 ELSE pad)
  <2> DEFINE back == padd(t, pad, "0", side)
  <2>1. back \in Seq(Char) /\ Len(back) = Len(t) + (IF pad <= 0 THEN 0 ELSE pad)
    BY <1>1, OwnChars, PaddType
  <2> HIDE DEF back
  <2> QED
    BY <1>1, <2>1 DEF back
<1> QED
  BY <1>2, <1>3, <1>4, <1>5 DEF pre

\* What ft_width hands on is never shorter than the width.
LEMMA WidthType ==
  ASSUME NEW d \in Directive, NEW t \in Seq(Char), NEW u
  PROVE  ft_width(d, t, u) \in Seq(Char) /\ Len(ft_width(d, t, u)) >= d.width
<1>1. \A m \in Nat : Wider(m, d.width) >= d.width
  BY DEF Wider, Directive
<1>2. /\ Len(SignPut(d, t)) + Len(t) \in Nat /\ Len(t) \in Nat
      /\ Len(t) + Len(get_prefix(d, t, u)) \in Nat
  BY SignFacts, PrefixType
<1>3. ft_numeric(d, t) \in Seq(Char) /\ Len(ft_numeric(d, t)) >= d.width
  BY <1>1, <1>2, NumericField
<1>4. ft_string(d, t) \in Seq(Char) /\ Len(ft_string(d, t)) >= d.width
  BY <1>1, <1>2, StringField
<1>5. ft_alternate(d, t, u) \in Seq(Char) /\ Len(ft_alternate(d, t, u)) >= d.width
  BY <1>1, <1>2, AlternateField
<1> QED
  BY <1>3, <1>4, <1>5 DEF ft_width

\* The printers.
LEMMA PrintedType ==
  ASSUME NEW d \in Directive
  PROVE  /\ \A x \in Int : LET t == ft_print_d(d, x) IN t \in Seq(Char) /\ Len(t) >= d.width
         /\ d.spec \in SpecsPOUBX =>
              \A u \in Nat : LET t == ft_print_poubx(d, u) IN t \in Seq(Char) /\ Len(t) >= d.width
         /\ \A s \in Strings \cup {Null} :
              LET t == ft_print_s(d, s) IN t \in Seq(Char) /\ Len(t) >= d.width
         /\ \A s \in FloatTexts :
              LET t == ft_width(d, s, 0) IN t \in Seq(Char) /\ Len(t) >= d.width
         /\ \A c \in Char : LET t == ft_print_c(d, c)
                            IN t \in Seq(Char) /\ Len(t) = Wider(1, d.width)
<1>1. \A t \in Seq(Char) : \A u : ft_width(d, t, u) \in Seq(Char) /\ Len(ft_width(d, t, u)) >= d.width
  BY WidthType
<1>2. <<>> \in Seq(Char) /\ Null \in Seq(Char)
  BY CharsAreNoMarks DEF Letters, Null
<1>3. ASSUME NEW x \in Int
      PROVE  LET t == ft_print_d(d, x) IN t \in Seq(Char) /\ Len(t) >= d.width
  <2>1. (IF d.precision = 0 /\ x = 0 THEN <<>> ELSE ft_precision(d, ft_ltoa(x))) \in Seq(Char)
    BY <1>2, NumberTypes, PrecisionType
  <2> QED
    BY <1>1, <2>1 DEF ft_print_d
<1>4. ASSUME d.spec \in SpecsPOUBX, NEW u \in Nat
      PROVE  LET t == ft_print_poubx(d, u) IN t \in Seq(Char) /\ Len(t) >= d.width
  <2> DEFINE text == IF u = 0 /\ d.precision = 0 THEN <<>> ELSE ft_base(d, u)
  <2>1. text \in Seq(Char)
    BY <1>2, <1>4, NumeralsAreTexts
  <2> HIDE DEF text
  <2>2. ft_precision(d, text) \in Seq(Char)
    BY <2>1, PrecisionType
  <2> QED
    BY <1>1, <2>2 DEF ft_print_poubx, text
<1>5. ASSUME NEW s \in Strings \cup {Null}
      PROVE  LET t == ft_print_s(d, s) IN t \in Seq(Char) /\ Len(t) >= d.width
  <2>1. s \in Seq(Char)
    BY <1>2, GivenTexts
  <2>2. ft_precision(d, s) \in Seq(Char)
    BY <2>1, PrecisionType
  <2> QED
    BY <1>1, <2>2 DEF ft_print_s
<1>6. ASSUME NEW s \in FloatTexts
      PROVE  LET t == ft_width(d, s, 0) IN t \in Seq(Char) /\ Len(t) >= d.width
  BY <1>1, GivenTexts
<1>7. ASSUME NEW c \in Char
      PROVE  LET t == ft_print_c(d, c) IN t \in Seq(Char) /\ Len(t) = Wider(1, d.width)
  <2> DEFINE n    == d.width - 1
             fill == IF "ZERO" \in d.flag THEN "0" ELSE Blank
             side == IF "MINUS" \in d.flag THEN "R" ELSE "L"
  <2>1. n \in Int /\ d.width \in Int /\ fill \in Char /\ <<c>> \in Seq(Char) /\ Len(<<c>>) = 1
    BY OwnChars DEF Directive
  <2>2. 1 + (IF n <= 0 THEN 0 ELSE n) = Wider(1, d.width)
    BY <2>1 DEF Wider
  <2> HIDE DEF n, fill, side
  <2>3. /\ padd(<<c>>, n, fill, side) \in Seq(Char)
        /\ Len(padd(<<c>>, n, fill, side)) = Len(<<c>>) + (IF n <= 0 THEN 0 ELSE n)
    BY <2>1, PaddType
  <2> QED
    BY <2>1, <2>2, <2>3 DEF ft_print_c, n, fill, side
<1> QED
  BY <1>3, <1>4, <1>5, <1>6, <1>7

-----------------------------------------------------------------------------
\* The format

\* Behind its characters, none of which is a zero byte, the format has one.
LEMMA FormatFacts ==
  ASSUME str \in Formats
  PROVE  /\ str \in Seq(Char) /\ Len(str) \in Nat
         /\ \A n \in Int : n < Len(str) /\ n >= 0 => Ch(n) \in Char /\ Ch(n) # NUL
         /\ \A n \in Int : n >= Len(str) => Ch(n) = NUL
<1>1. str \in Seq(Char) /\ \A n \in DOMAIN str : str[n] # NUL
  BY GivenTexts
<1>2. ASSUME NEW n \in Int, n < Len(str), n >= 0
      PROVE  Ch(n) \in Char /\ Ch(n) # NUL
  <2>1. n + 1 \in DOMAIN str /\ Ch(n) = str[n + 1] /\ str[n + 1] \in Char
    BY <1>1, <1>2 DEF Ch
  <2> QED
    BY <1>1, <2>1
<1>3. ASSUME NEW n \in Int, n >= Len(str)
      PROVE  Ch(n) = NUL
  <2>1. ~(n < Len(str))
    BY <1>1, <1>3
  <2> QED
    BY <2>1 DEF Ch
<1> QED
  BY <1>1, <1>2, <1>3

\* The first character from n on that is not in S.
Outside(n, S) ==
  CHOOSE m \in n .. Len(str) : Ch(m) \notin S /\ \A k \in n .. m - 1 : ~(Ch(k) \notin S)

\* The loops over a set of characters stop in the format, behind characters
\* of the set only.
LEMMA OutsideFacts ==
  ASSUME str \in Formats, NEW S, NUL \notin S, NEW n \in 0 .. Len(str)
  PROVE  /\ Outside(n, S) \in n .. Len(str) /\ Ch(Outside(n, S)) \notin S
         /\ \A k \in n .. Outside(n, S) - 1 : Ch(k) \in S
<1> DEFINE T == {m \in n .. Len(str) : Ch(m) \notin S}
<1>1. Len(str) \in Nat /\ Ch(Len(str)) = NUL
  BY FormatFacts
<1>2. T \in SUBSET Nat /\ T # {}
  <2>1. Len(str) \in T
    BY <1>1
  <2> QED
    BY <1>1, <2>1
<1>3. PICK m \in T : \A k \in T : m <= k
  BY <1>2, LeastNumber
<1>4. m \in n .. Len(str) /\ Ch(m) \notin S /\ \A k \in n .. m - 1 : ~(Ch(k) \notin S)
  <2>1. ASSUME NEW k \in n .. m - 1, Ch(k) \notin S
        PROVE  FALSE
    <3>1. k \in T
      BY <1>1, <1>3, <2>1
    <3> QED
      BY <1>1, <1>3, <2>1, <3>1
  <2> QED
    BY <1>3, <2>1
<1> QED
  BY <1>4 DEF Outside

\* The digits that the parsers test for are 0 to 9.
LEMMA DigitsOnly == DigitSet = {"0", "1", "2", "3", "4", "5", "6", "7", "8", "9"}
<1>1. /\ Digits[1] = "0" /\ Digits[2] = "1" /\ Digits[3] = "2" /\ Digits[4] = "3" /\ Digits[5] = "4"
      /\ Digits[6] = "5" /\ Digits[7] = "6" /\ Digits[8] = "7" /\ Digits[9] = "8" /\ Digits[10] = "9"
  BY DEF Digits
<1>2. 1 .. 10 = {1, 2, 3, 4, 5, 6, 7, 8, 9, 10}
  OBVIOUS
<1> QED
  BY <1>1, <1>2 DEF DigitSet

\* Every character that a parser consumes is one that the search for the
\* specifier skips.
LEMMA SkippedFacts ==
  /\ NUL \notin DigitSet /\ NUL \notin Skipped /\ NUL \notin Spaces
  /\ DigitSet \subseteq Skipped /\ FlagSet \subseteq Skipped /\ "." \in Skipped /\ "*" \in Skipped
  /\ ModifierSet \subseteq Skipped
BY DigitsOnly, NamedChars DEF Skipped, FlagSet, ModifierSet, Spaces, NUL

\* Digits end at the first character that is none.
LEMMA DigitsEndFacts ==
  ASSUME str \in Formats, NEW n \in 0 .. Len(str)
  PROVE  /\ DigitsEnd(n) \in n .. Len(str)
         /\ \A k \in n .. DigitsEnd(n) - 1 : Ch(k) \in DigitSet
         /\ \A m \in n .. Len(str) : Ch(m) \notin DigitSet => DigitsEnd(n) <= m
<1>1. DigitsEnd(n) = Outside(n, DigitSet)
  BY DEF DigitsEnd, FirstFrom, Outside
<1>2. /\ DigitsEnd(n) \in n .. Len(str)
      /\ \A k \in n .. DigitsEnd(n) - 1 : Ch(k) \in DigitSet
  BY <1>1, OutsideFacts, SkippedFacts
<1>3. ASSUME NEW m \in n .. Len(str), Ch(m) \notin DigitSet
      PROVE  DigitsEnd(n) <= m
  BY <1>2, <1>3, FormatFacts
<1> QED
  BY <1>2, <1>3

\* The search for the specifier stops in the format.
LEMMA SpecifierFacts ==
  ASSUME str \in Formats, NEW n \in 0 .. Len(str)
  PROVE  LET m == FirstFrom(n, LAMBDA c : c \notin Skipped)
         IN m \in n .. Len(str) /\ Ch(m) \notin Skipped
<1>1. FirstFrom(n, LAMBDA c : c \notin Skipped) = Outside(n, Skipped)
  BY DEF FirstFrom, Outside
<1>2. Outside(n, Skipped) \in n .. Len(str) /\ Ch(Outside(n, Skipped)) \notin Skipped
  BY OutsideFacts, SkippedFacts
<1> QED
  BY <1>1, <1>2

\* So does the search for the digits of a width or precision.
LEMMA NumberStartFacts ==
  ASSUME str \in Formats, j + 1 \in 0 .. Len(str)
  PROVE  NumberStart \in j + 1 .. Len(str)
<1>1. NumberStart = Outside(j + 1, Spaces)
  BY DEF NumberStart, FirstFrom, Outside
<1>2. Outside(j + 1, Spaces) \in j + 1 .. Len(str)
  BY OutsideFacts, SkippedFacts
<1> QED
  BY <1>1, <1>2

\* So does the search for the end of a colour.
LEMMA BraceStopFacts ==
  ASSUME str \in Formats, i + 2 \in 0 .. Len(str)
  PROVE  BraceStop \in i + 2 .. Len(str)
<1> DEFINE S == {RightBrace, "%", NUL}
           T == {m \in i + 2 .. Len(str) : Ch(m) \in S}
<1>1. Len(str) \in Nat /\ Ch(Len(str)) = NUL
  BY FormatFacts
<1>2. T \in SUBSET Nat /\ T # {}
  <2>1. Len(str) \in T
    BY <1>1
  <2> QED
    BY <1>1, <2>1
<1>3. PICK m \in T : \A k \in T : m <= k
  BY <1>2, LeastNumber
<1>4. m \in i + 2 .. Len(str) /\ Ch(m) \in S /\ \A k \in i + 2 .. m - 1 : ~(Ch(k) \in S)
  <2>1. ASSUME NEW k \in i + 2 .. m - 1, Ch(k) \in S
        PROVE  FALSE
    <3>1. k \in T
      BY <1>1, <1>3, <2>1
    <3> QED
      BY <1>1, <1>3, <2>1, <3>1
  <2> QED
    BY <1>3, <2>1
<1> QED
  BY <1>4 DEF BraceStop, FirstFrom

\* What ft_atoll reads is a number.
AtollTo(n, values) ==
  values = [m \in n .. DigitsEnd(n) |->
             IF m = n THEN 0 ELSE 10 * values[m - 1] + DigitValue[Ch(m - 1)]]
AtollFor(n) == CHOOSE values : AtollTo(n, values)

\* ft_atoll yields what its loop has at the last digit.
LEMMA AtollIsLast == \A n : ft_atoll(n) = AtollFor(n)[DigitsEnd(n)]
BY DEF ft_atoll, AtollFor, AtollTo

\* The value of a digit is that of its place.
LEMMA DigitValueType ==
  ASSUME NEW c \in DigitSet
  PROVE  DigitValue[c] \in 0 .. 9 /\ Digits[DigitValue[c] + 1] = c
<1>1. \E n \in 0 .. 9 : Digits[n + 1] = c
  <2>1. PICK n \in 1 .. 10 : c = Digits[n]
    BY DEF DigitSet
  <2>2. n - 1 \in 0 .. 9 /\ (n - 1) + 1 = n
    OBVIOUS
  <2> QED
    BY <2>1, <2>2
<1>2. DigitValue[c] = CHOOSE n \in 0 .. 9 : Digits[n + 1] = c
  BY DEF DigitValue
<1> QED
  BY <1>1, <1>2

\* ft_atoll of digits is a natural number.
LEMMA AtollType ==
  ASSUME str \in Formats, NEW n \in 0 .. Len(str)
  PROVE  ft_atoll(n) \in Nat
<1> DEFINE last == DigitsEnd(n)
           N    == last - n
           F    == [x \in (1 .. N) \X Nat |-> 10 * x[2] + DigitValue[Ch(n + x[1] - 1)]]
           before == [k \in 1 .. N |-> k - 1]
           values == AtollFor(n)
<1>1. last \in Nat /\ N \in Nat /\ Len(str) \in Nat /\ n \in Nat
      /\ \A k \in n .. last - 1 : Ch(k) \in DigitSet
  <2>1. Len(str) \in Nat /\ n \in Nat
    BY FormatFacts
  <2>2. DigitsEnd(n) \in n .. Len(str) /\ \A k \in n .. DigitsEnd(n) - 1 : Ch(k) \in DigitSet
    BY DigitsEndFacts
  <2> QED
    BY <2>1, <2>2
<1>2. \A k \in n .. last - 1 : DigitValue[Ch(k)] \in Nat
  BY <1>1, DigitValueType, SMTT(30)
<1>3. \A v : AtollTo(n, v) <=>
        v = [m \in n .. last |-> IF m = n THEN 0 ELSE 10 * v[m - 1] + DigitValue[Ch(m - 1)]]
  BY DEF AtollTo
<1> HIDE DEF last
<1>4. before \in [1 .. N -> Nat] /\ \A k \in 1 .. N : before[k] < k /\ before[k] = k - 1
  BY <1>1
<1>5. F \in [(1 .. N) \X Nat -> Nat]
  <2>1. ASSUME NEW k \in 1 .. N, NEW v \in Nat
        PROVE  10 * v + DigitValue[Ch(n + k - 1)] \in Nat
    <3>1. n + k - 1 \in n .. last - 1
      BY <1>1
    <3> QED
      BY <1>2, <3>1
  <2> QED
    BY <2>1
<1>6. \A k \in 1 .. N, v \in Nat : F[<<k, v>>] = 10 * v + DigitValue[Ch(n + k - 1)]
  OBVIOUS
<1> HIDE DEF F, before, N
<1>7. Recursive(Nat, 0, N, before, F)
  BY <1>1, <1>4, <1>5, Recursion
<1>8. PICK g \in [0 .. N -> Nat] : Follows(g, 0, N, before, F)
  BY <1>7 DEF Recursive
<1> DEFINE v == [m \in n .. last |-> g[m - n]]
<1>9. AtollTo(n, v)
  <2>1. ASSUME NEW m \in n .. last
        PROVE  v[m] = IF m = n THEN 0 ELSE 10 * v[m - 1] + DigitValue[Ch(m - 1)]
    <3>1. CASE m = n
      <4>1. n - n = 0 /\ g[0] = 0
        BY <1>1, <1>8 DEF Follows
      <4> QED
        BY <3>1, <4>1
    <3>2. CASE m # n
      <4>1. m - n \in 1 .. N /\ m - 1 \in n .. last /\ (m - 1) - n = (m - n) - 1
            /\ (m - n) - 1 \in 0 .. N /\ n + (m - n) - 1 = m - 1
        BY <1>1, <3>2 DEF N
      <4>2. v[m] = g[m - n] /\ v[m - 1] = g[(m - n) - 1] /\ g[(m - n) - 1] \in Nat
        BY <4>1
      <4>3. g[m - n] = F[<<m - n, g[(m - n) - 1]>>]
        BY <1>4, <1>8, <4>1 DEF Follows
      <4>4. F[<<m - n, g[(m - n) - 1]>>] = 10 * g[(m - n) - 1] + DigitValue[Ch(m - 1)]
        BY <1>6, <4>1, <4>2
      <4> QED
        BY <3>2, <4>2, <4>3, <4>4
    <3> QED
      BY <3>1, <3>2
  <2>2. v = [m \in n .. last |-> v[m]]
    OBVIOUS
  <2> HIDE DEF v
  <2>3. v = [m \in n .. last |-> IF m = n THEN 0 ELSE 10 * v[m - 1] + DigitValue[Ch(m - 1)]]
    BY <2>1, <2>2
  <2> QED
    BY <1>3, <2>3
<1>10. AtollTo(n, values)
  <2> HIDE DEF v
  <2> QED
    BY <1>9 DEF AtollFor
<1> HIDE DEF values, v
<1> DEFINE made(m) == IF m = n THEN 0 ELSE 10 * values[m - 1] + DigitValue[Ch(m - 1)]
<1>11. \A m \in n .. last : values[m] = made(m)
  <2>1. values = [m \in n .. last |-> made(m)]
    BY <1>3, <1>10
  <2> HIDE DEF made
  <2> QED
    BY <2>1
<1> HIDE DEF made
<1>12. \A k \in 0 .. N : values[n + k] \in Nat
  <2> DEFINE P == {k \in 0 .. N : values[n + k] \in Nat}
  <2>1. 0 \in P
    <3>1. n \in n .. last /\ n + 0 = n /\ made(n) \in Nat
      BY <1>1 DEF made, N
    <3>2. values[n + 0] \in Nat
      BY <1>11, <3>1
    <3> QED
      BY <1>1, <3>2
  <2>2. ASSUME NEW k \in 0 .. N - 1, k \in P
        PROVE  k + 1 \in P
    <3>1. n + (k + 1) \in n .. last /\ (n + (k + 1)) - 1 = n + k /\ n + (k + 1) # n
          /\ n + k \in n .. last - 1
      BY <1>1 DEF N
    <3>2. values[n + k] \in Nat
      BY <2>2
    <3>3. made(n + (k + 1)) = 10 * values[n + k] + DigitValue[Ch(n + k)]
      BY <3>1 DEF made
    <3>4. values[n + (k + 1)] \in Nat
      BY <1>2, <1>11, <3>1, <3>2, <3>3
    <3> QED
      BY <1>1, <3>4
  <2>3. \A k \in 0 .. N : k \in P
    <3> HIDE DEF P
    <3> QED
      BY <1>1, <2>1, <2>2, Induct
  <2> QED
    BY <2>3
<1>13. N \in 0 .. N /\ n + N = last
  BY <1>1 DEF N
<1>14. values[last] \in Nat
  BY <1>12, <1>13
<1> QED
  BY <1>14, AtollIsLast DEF values, last

-----------------------------------------------------------------------------
\* The invariant.  Once the specifier is found the second reading is in front of
\* it, and as it is neither a flag nor a digit, an asterisk, a point or a length
\* modifier, the parsers stop at it at the latest.
Reading == {"flags", "width", "precision", "modifier", "print"}
TypeInv ==
  /\ str \in Formats /\ i \in -1 .. Len(str) /\ j \in 0 .. Len(str) + 1 /\ args \in Directive
  /\ pc \in {"next", "spec", "end", "overrun"} \cup Reading
ReadInv ==
  /\ pc = "spec" => j = i + 1 /\ j \in 0 .. Len(str)
  /\ pc \in Reading => /\ args.specIndex \in 0 .. Len(str) - 1 /\ i < j /\ j <= args.specIndex
                       /\ Ch(args.specIndex) = args.spec /\ args.spec \notin Skipped
Visible(t) == {n \in DOMAIN t : t[n] # ESC}
CountInv ==
  out \in Seq(Char \cup {ESC}) /\ counter \in Nat /\ counter = Cardinality(Visible(out))
IInv == TypeInv /\ ReadInv /\ CountInv

\* Characters are counted, escape sequences are not.
LEMMA CountFinite ==
  ASSUME NEW t \in Seq(Char \cup {ESC})
  PROVE  IsFiniteSet(Visible(t)) /\ Cardinality(Visible(t)) \in Nat
<1>1. IsFiniteSet(1 .. Len(t)) /\ Visible(t) \subseteq 1 .. Len(t)
  BY FS_Interval DEF Visible
<1> QED
  BY <1>1, FS_Subset, FS_CardinalityType

\* A text makes the output longer by its characters.
LEMMA CountMore ==
  ASSUME NEW s \in Seq(Char \cup {ESC}), NEW t \in Seq(Char)
  PROVE  /\ s \o t \in Seq(Char \cup {ESC})
         /\ Cardinality(Visible(s \o t)) = Cardinality(Visible(s)) + Len(t)
<1> DEFINE new == Len(s) + 1 .. Len(s) + Len(t)
<1>1. Seq(Char) \subseteq Seq(Char \cup {ESC})
  OBVIOUS
<1>2. s \o t \in Seq(Char \cup {ESC}) /\ Len(s) \in Nat /\ Len(t) \in Nat
  BY <1>1
<1>3. Visible(s \o t) = Visible(s) \cup new
  <2>1. ASSUME NEW n \in 1 .. Len(s) + Len(t)
        PROVE  (s \o t)[n] # ESC <=> n \in Visible(s) \/ n \in new
    <3>1. CASE n \in 1 .. Len(s)
      BY <3>1 DEF Visible
    <3>2. CASE n \in new
      <4>1. (s \o t)[n] = t[n - Len(s)] /\ t[n - Len(s)] \in Char
        BY <1>2, <3>2
      <4> QED
        BY <3>2, <4>1, CharsAreNoMarks
    <3> QED
      BY <1>2, <3>1, <3>2
  <2>2. DOMAIN (s \o t) = 1 .. Len(s) + Len(t) /\ Visible(s) \subseteq 1 .. Len(s) + Len(t)
        /\ new \subseteq 1 .. Len(s) + Len(t)
    BY <1>2 DEF Visible
  <2> QED
    BY <2>1, <2>2 DEF Visible
<1>4. Visible(s) \cap new = {}
  BY <1>2 DEF Visible
<1>5. IsFiniteSet(new) /\ Cardinality(new) = Len(t)
  <2>1. Len(s) + 1 \in Int /\ Len(s) + Len(t) \in Int
    BY <1>2
  <2>2. /\ IsFiniteSet(new)
        /\ Cardinality(new) = IF Len(s) + 1 > Len(s) + Len(t) THEN 0
                              ELSE (Len(s) + Len(t)) - (Len(s) + 1) + 1
    BY <2>1, FS_Interval
  <2> HIDE DEF new
  <2> QED
    BY <1>2, <2>2
<1> HIDE DEF new
<1>6. IsFiniteSet(Visible(s)) /\ Cardinality(Visible(s)) \in Nat
  BY CountFinite
<1>7. Cardinality(Visible(s) \cup new)
        = Cardinality(Visible(s)) + Cardinality(new) - Cardinality(Visible(s) \cap new)
  BY <1>5, <1>6, FS_Union
<1>8. Cardinality(Visible(s) \cap new) = 0
  BY <1>4, FS_EmptySet
<1> QED
  BY <1>2, <1>3, <1>5, <1>6, <1>7, <1>8

\* An escape sequence counts for nothing.
LEMMA CountMark ==
  ASSUME NEW s \in Seq(Char \cup {ESC})
  PROVE  Append(s, ESC) \in Seq(Char \cup {ESC}) /\ Visible(Append(s, ESC)) = Visible(s)
<1>1. /\ DOMAIN s = 1 .. Len(s) /\ DOMAIN Append(s, ESC) = 1 .. Len(s) + 1 /\ Len(s) \in Nat
      /\ Append(s, ESC)[Len(s) + 1] = ESC /\ \A n \in 1 .. Len(s) : Append(s, ESC)[n] = s[n]
  OBVIOUS
<1>2. \A n : n \in 1 .. Len(s) + 1 <=> n \in 1 .. Len(s) \/ n = Len(s) + 1
  BY <1>1
<1>3. Len(s) + 1 \notin 1 .. Len(s)
  BY <1>1
<1> QED
  BY <1>1, <1>2, <1>3 DEF Visible

\* What is written with the count of its characters keeps the count right.
LEMMA WriteCounts ==
  ASSUME CountInv, NEW t \in Seq(Char), NEW n, n = Len(t), Write(t, n)
  PROVE  CountInv'
<1>1. out' = out \o t /\ counter' = counter + Len(t) /\ Len(t) \in Nat
  BY DEF Write
<1>2. /\ out \o t \in Seq(Char \cup {ESC})
      /\ Cardinality(Visible(out \o t)) = Cardinality(Visible(out)) + Len(t)
  BY CountMore DEF CountInv
<1>3. counter' \in Nat /\ counter' = Cardinality(Visible(out'))
  BY <1>1, <1>2 DEF CountInv
<1> QED
  BY <1>1, <1>2, <1>3 DEF CountInv, Visible

\* A step that neither writes nor counts keeps the count right.
LEMMA SameCount ==
  ASSUME CountInv, UNCHANGED <<out, counter>>
  PROVE  CountInv'
BY DEF CountInv, Visible

-----------------------------------------------------------------------------
\* The steps of the loop

\* initialize_args leaves a directive.
LEMMA InitialArgs == initialize_args \in Directive
BY DEF initialize_args, Directive, Flags, Modifiers

\* The steps between directives keep the invariant.
LEMMA LoopStep ==
  ASSUME IInv, EndOfFormat \/ ReadPastEnd \/ StartDirective \/ PlainChar
  PROVE  IInv'
<1> USE DEF IInv
<1>1. /\ str \in Formats /\ Len(str) \in Nat /\ i \in -1 .. Len(str) /\ j \in 0 .. Len(str) + 1
      /\ args \in Directive /\ str' = str
  BY FormatFacts DEF TypeInv, EndOfFormat, ReadPastEnd, StartDirective, PlainChar
<1>2. i < Len(str) => i + 1 \in 0 .. Len(str) /\ (Ch(i + 1) # NUL => i + 1 < Len(str))
  <2> SUFFICES ASSUME i < Len(str)
               PROVE  i + 1 \in 0 .. Len(str) /\ (Ch(i + 1) # NUL => i + 1 < Len(str))
    OBVIOUS
  <2>1. i + 1 \in 0 .. Len(str) /\ i + 1 \in Int
    BY <1>1
  <2>2. i + 1 >= Len(str) => Ch(i + 1) = NUL
    BY <1>1, <2>1, FormatFacts
  <2> QED
    BY <1>1, <2>1, <2>2
<1>3. CASE EndOfFormat
  <2>1. i' = i + 1 /\ pc' = "end" /\ i < Len(str) /\ UNCHANGED <<str, j, args, counter, out>>
    BY <1>3 DEF EndOfFormat, AtNext
  <2>2. TypeInv' /\ ReadInv'
    BY <1>1, <1>2, <2>1 DEF TypeInv, ReadInv, Reading
  <2> QED
    BY <2>1, <2>2, SameCount
<1>4. CASE ReadPastEnd
  <2>1. pc' = "overrun" /\ UNCHANGED <<str, i, j, args, counter, out>>
    BY <1>4 DEF ReadPastEnd
  <2>2. TypeInv' /\ ReadInv'
    BY <1>1, <2>1 DEF TypeInv, ReadInv, Reading
  <2> QED
    BY <2>1, <2>2, SameCount
<1>5. CASE StartDirective
  <2>1. /\ i < Len(str) /\ Ch(i + 1) = "%" /\ i' = i + 1 /\ j' = i + 2 /\ args' = initialize_args
        /\ pc' \in {"end", "spec"} /\ UNCHANGED <<str, counter, out>>
    BY <1>5 DEF StartDirective, AtNext
  <2>2. Ch(i + 1) # NUL
    BY <2>1 DEF NUL
  <2>3. i + 1 \in 0 .. Len(str) /\ i + 1 < Len(str)
    BY <1>2, <2>1, <2>2
  <2>4. i' \in -1 .. Len(str) /\ j' \in 0 .. Len(str) /\ j' = i' + 1
    BY <1>1, <2>1, <2>3
  <2>5. TypeInv' /\ ReadInv'
    BY <1>1, <2>1, <2>4, InitialArgs DEF TypeInv, ReadInv, Reading
  <2> QED
    BY <2>1, <2>5, SameCount
<1>6. CASE PlainChar
  <2>1. /\ i < Len(str) /\ Ch(i + 1) # NUL /\ i' = i + 1 /\ pc = "next"
        /\ Write(<<Ch(i + 1)>>, 1) /\ UNCHANGED <<str, j, args, pc>>
    BY <1>6 DEF PlainChar, AtNext
  <2>2. i + 1 \in 0 .. Len(str) /\ i + 1 < Len(str)
    BY <1>2, <2>1
  <2>3. Ch(i + 1) \in Char
    BY <1>1, <2>2, FormatFacts
  <2>4. TypeInv' /\ ReadInv'
    BY <1>1, <2>1, <2>2 DEF TypeInv, ReadInv, Reading
  <2>5. <<Ch(i + 1)>> \in Seq(Char) /\ Len(<<Ch(i + 1)>>) = 1
    BY <2>3
  <2>6. CountInv'
    BY <2>1, <2>5, WriteCounts
  <2> QED
    BY <2>4, <2>6
<1> QED
  BY <1>3, <1>4, <1>5, <1>6

\* So does the one that handles a colour.
LEMMA BraceStep ==
  ASSUME IInv, OpenBrace
  PROVE  IInv'
<1> USE DEF IInv
<1>1. /\ str \in Formats /\ Len(str) \in Nat /\ i \in -1 .. Len(str) /\ j \in 0 .. Len(str) + 1
      /\ args \in Directive /\ pc = "next" /\ i < Len(str) /\ Ch(i + 1) = LeftBrace
      /\ UNCHANGED <<str, j, args, pc>>
  BY FormatFacts DEF TypeInv, OpenBrace, AtNext
<1>2. i + 1 < Len(str)
  <2>1. Ch(i + 1) # NUL
    BY <1>1, NamedChars
  <2>2. i + 1 >= Len(str) => Ch(i + 1) = NUL
    BY <1>1, FormatFacts
  <2> QED
    BY <1>1, <2>1, <2>2
<1>3. CASE Ch(BraceStop) = RightBrace
  <2>1. /\ out' = (IF ColorName \in Colors THEN Append(out, ESC) ELSE out)
        /\ i' = BraceStop /\ UNCHANGED counter
    BY <1>3 DEF OpenBrace
  <2>2. BraceStop \in i + 2 .. Len(str)
    <3>1. i + 2 \in 0 .. Len(str)
      BY <1>1, <1>2
    <3> QED
      BY <1>1, <3>1, BraceStopFacts
  <2>3. TypeInv' /\ ReadInv'
    BY <1>1, <2>1, <2>2 DEF TypeInv, ReadInv, Reading
  <2>4. CASE ColorName \in Colors
    <3>1. Append(out, ESC) \in Seq(Char \cup {ESC}) /\ Visible(Append(out, ESC)) = Visible(out)
      BY CountMark DEF CountInv
    <3>2. out' = Append(out, ESC) /\ counter' = counter
      BY <2>1, <2>4
    <3>3. CountInv'
      BY <3>1, <3>2 DEF CountInv, Visible
    <3> QED
      BY <2>3, <3>3
  <2>5. CASE ColorName \notin Colors
    BY <2>1, <2>3, <2>5, SameCount
  <2> QED
    BY <2>4, <2>5
<1>4. CASE Ch(BraceStop) # RightBrace
  <2>1. Write(<<LeftBrace>>, 1) /\ i' = i + 1
    BY <1>4 DEF OpenBrace
  <2>2. TypeInv' /\ ReadInv'
    BY <1>1, <1>2, <2>1 DEF TypeInv, ReadInv, Reading
  <2>3. <<LeftBrace>> \in Seq(Char) /\ Len(<<LeftBrace>>) = 1
    BY CharsAreNoMarks DEF Letters
  <2>4. CountInv'
    BY <2>1, <2>3, WriteCounts
  <2> QED
    BY <2>2, <2>4
<1> QED
  BY <1>3, <1>4

-----------------------------------------------------------------------------
\* The steps of the parsers

\* A directive with some fields changed is one.
LEMMA DirectiveWith ==
  ASSUME NEW d \in Directive
  PROVE  /\ \A n \in Int : [d EXCEPT !.width = n] \in Directive /\ [d EXCEPT !.precision = n] \in Directive
         /\ \A f \in SUBSET Flags : [d EXCEPT !.flag = f] \in Directive
         /\ \A f \in SUBSET Flags, n \in Int :
              /\ [d EXCEPT !.width = n, !.flag = f] \in Directive
              /\ [d EXCEPT !.precision = n, !.flag = f] \in Directive
         /\ \A f \in SUBSET Flags, n, m \in Int :
              [d EXCEPT !.precision = n, !.width = m, !.flag = f] \in Directive
         /\ \A m \in SUBSET Modifiers : [d EXCEPT !.modifier = m] \in Directive
         /\ \A n \in Int, c \in Char : [d EXCEPT !.specIndex = n, !.spec = c] \in Directive
BY DEF Directive

\* get_flags adds flags only.
LEMMA WithFlagType ==
  ASSUME NEW f \in SUBSET Flags, NEW c \in FlagSet
  PROVE  WithFlag(f, c) \in SUBSET Flags
<1>1. CASE c = "-"
  BY <1>1 DEF WithFlag, Flags
<1>2. CASE c = "0"
  BY <1>2 DEF WithFlag, Flags
<1>3. CASE c = "#"
  BY <1>3 DEF WithFlag, Flags
<1>4. CASE c = "+"
  BY <1>4 DEF WithFlag, Flags
<1>5. CASE c = Blank
  BY <1>5, NamedChars DEF WithFlag, Flags
<1> QED
  BY <1>1, <1>2, <1>3, <1>4, <1>5 DEF FlagSet

\* get_modifier adds modifiers only.
LEMMA WithModifierType ==
  ASSUME NEW m \in SUBSET Modifiers, NEW c \in ModifierSet, NEW next
  PROVE  WithModifier(m, c, next) \in SUBSET Modifiers
<1>1. CASE c = "h"
  BY <1>1 DEF WithModifier, Modifiers
<1>2. CASE c = "l"
  BY <1>2 DEF WithModifier, Modifiers
<1>3. CASE c = "L"
  BY <1>3 DEF WithModifier, Modifiers
<1>4. CASE c = "z"
  BY <1>4 DEF WithModifier, Modifiers
<1>5. CASE c = "j"
  BY <1>5 DEF WithModifier, Modifiers
<1> QED
  BY <1>1, <1>2, <1>3, <1>4, <1>5 DEF ModifierSet

\* get_specifier keeps the invariant: what it finds is where the second
\* reading will stop.
LEMMA SpecifierStep ==
  ASSUME IInv, get_specifier
  PROVE  IInv'
<1> USE DEF IInv
<1> DEFINE n == FirstFrom(j, LAMBDA c : c \notin Skipped)
<1>1. /\ str \in Formats /\ Len(str) \in Nat /\ i \in -1 .. Len(str) /\ j \in 0 .. Len(str)
      /\ args \in Directive /\ j = i + 1 /\ UNCHANGED <<str, counter, out>>
  BY FormatFacts DEF TypeInv, ReadInv, get_specifier
<1>2. n \in j .. Len(str) /\ Ch(n) \notin Skipped
  BY <1>1, SpecifierFacts
<1>3. \/ /\ Ch(n) # NUL /\ args' = [args EXCEPT !.specIndex = n, !.spec = Ch(n)]
         /\ j' = i + 1 /\ pc' = "flags" /\ UNCHANGED i
      \/ Ch(n) = NUL /\ args' = initialize_args /\ j' = n /\ i' = n /\ pc' = "next"
  BY DEF get_specifier
<1> HIDE DEF n
<1>4. CASE Ch(n) # NUL
  <2>1. n < Len(str) /\ Ch(n) \in Char
    <3>1. n \in Int /\ n >= 0
      BY <1>1, <1>2
    <3> QED
      BY <1>1, <1>4, <3>1, FormatFacts
  <2>2. /\ args' = [args EXCEPT !.specIndex = n, !.spec = Ch(n)]
        /\ j' = j /\ pc' = "flags" /\ i' = i
    BY <1>1, <1>3, <1>4
  <2>3. args' \in Directive
    <3>1. n \in Int /\ Ch(n) \in Char
      BY <1>1, <1>2, <2>1
    <3> QED
      BY <1>1, <2>2, <3>1, DirectiveWith
  <2>4. args'.specIndex = n /\ args'.spec = Ch(n)
    BY <1>1, <2>2 DEF Directive
  <2>5. TypeInv'
    BY <1>1, <2>2, <2>3 DEF TypeInv, Reading
  <2>6. ReadInv'
    BY <1>1, <1>2, <2>1, <2>2, <2>4 DEF ReadInv, Reading, Ch
  <2> QED
    BY <1>1, <2>5, <2>6, SameCount
<1>5. CASE Ch(n) = NUL
  <2>1. args' = initialize_args /\ j' = n /\ i' = n /\ pc' = "next"
    BY <1>3, <1>5
  <2>2. TypeInv' /\ ReadInv'
    BY <1>1, <1>2, <2>1, InitialArgs DEF TypeInv, ReadInv, Reading
  <2> QED
    BY <1>1, <2>2, SameCount
<1> QED
  BY <1>4, <1>5

\* The parts of the invariant that a step of the parsers starts from.
LEMMA ParserStarts ==
  ASSUME IInv, pc \in {"flags", "width", "precision", "modifier", "print"}
  PROVE  /\ str \in Formats /\ Len(str) \in Nat /\ i \in -1 .. Len(str) /\ args \in Directive
         /\ args.specIndex \in 0 .. Len(str) - 1 /\ j \in 0 .. Len(str) - 1
         /\ i < j /\ j <= args.specIndex /\ Ch(args.specIndex) = args.spec
         /\ args.spec \notin Skipped
<1>1. str \in Formats /\ Len(str) \in Nat /\ i \in -1 .. Len(str) /\ args \in Directive
  BY FormatFacts DEF IInv, TypeInv
<1>2. /\ args.specIndex \in 0 .. Len(str) - 1 /\ i < j /\ j <= args.specIndex
      /\ Ch(args.specIndex) = args.spec /\ args.spec \notin Skipped
  BY DEF IInv, ReadInv, Reading
<1>3. j \in 0 .. Len(str) - 1
  BY <1>1, <1>2 DEF IInv, TypeInv
<1> QED
  BY <1>1, <1>2, <1>3

\* A step that leaves the specifier and moves j no further keeps the invariant.
LEMMA ParserMoves ==
  ASSUME IInv, pc \in {"flags", "width", "precision", "modifier", "print"},
         UNCHANGED <<str, i, counter, out>>, args' \in Directive,
         args'.specIndex = args.specIndex, args'.spec = args.spec,
         j' \in j .. args.specIndex, pc' \in Reading
  PROVE  IInv'
<1>1. /\ str \in Formats /\ Len(str) \in Nat /\ i \in -1 .. Len(str) /\ args \in Directive
      /\ args.specIndex \in 0 .. Len(str) - 1 /\ j \in 0 .. Len(str) - 1
      /\ i < j /\ j <= args.specIndex /\ Ch(args.specIndex) = args.spec /\ args.spec \notin Skipped
  BY ParserStarts
<1>2. TypeInv'
  BY <1>1 DEF TypeInv, Reading
<1>3. ReadInv'
  BY <1>1 DEF ReadInv, Reading, Ch
<1> QED
  BY <1>2, <1>3, SameCount DEF IInv

\* The second reading has not come to the specifier yet when it finds something
\* that the first one skipped.
LEMMA BeforeSpecifier ==
  ASSUME IInv, pc \in {"flags", "width", "precision", "modifier", "print"}, Ch(j) \in Skipped
  PROVE  j + 1 \in j .. args.specIndex
<1>1. j # args.specIndex
  BY ParserStarts
<1> QED
  BY <1>1, ParserStarts

\* get_flags keeps it, and consumes no specifier.
LEMMA FlagStep ==
  ASSUME IInv, get_flags
  PROVE  IInv'
<1>1. pc = "flags" /\ UNCHANGED <<str, i, counter, out>>
  BY DEF get_flags
<1>2. /\ args \in Directive /\ args.flag \in SUBSET Flags /\ j \in j .. args.specIndex
  BY <1>1, ParserStarts DEF Directive
<1>3. CASE Ch(j) \in FlagSet
  <2>1. /\ args' = [args EXCEPT !.flag = WithFlag(args.flag, Ch(j))] /\ j' = j + 1 /\ pc' = pc
    BY <1>3 DEF get_flags
  <2>2. WithFlag(args.flag, Ch(j)) \in SUBSET Flags
    BY <1>2, <1>3, WithFlagType
  <2>3. args' \in Directive
    BY <1>2, <2>1, <2>2, DirectiveWith
  <2>4. args'.specIndex = args.specIndex /\ args'.spec = args.spec
    BY <1>2, <2>1 DEF Directive
  <2>5. j' \in j .. args.specIndex
    BY <1>1, <1>3, <2>1, BeforeSpecifier, SkippedFacts
  <2> QED
    BY <1>1, <2>1, <2>3, <2>4, <2>5, ParserMoves DEF Reading
<1>4. CASE Ch(j) \notin FlagSet
  <2>1. pc' = "width" /\ args' = args /\ j' = j
    BY <1>4 DEF get_flags
  <2> QED
    BY <1>1, <1>2, <2>1, ParserMoves DEF Reading
<1> QED
  BY <1>3, <1>4

\* Digits that start in front of the specifier end there at the latest.
LEMMA DigitsBeforeSpecifier ==
  ASSUME IInv, pc \in {"flags", "width", "precision", "modifier", "print"},
         NEW n \in 0 .. args.specIndex
  PROVE  DigitsEnd(n) \in n .. args.specIndex
<1>1. args.specIndex \in n .. Len(str) /\ Ch(args.specIndex) \notin DigitSet /\ n \in 0 .. Len(str)
  BY ParserStarts, SkippedFacts
<1>2. str \in Formats /\ Len(str) \in Nat
  BY ParserStarts
<1>3. DigitsEnd(n) \in n .. Len(str) /\ DigitsEnd(n) <= args.specIndex
  BY <1>1, <1>2, DigitsEndFacts
<1> QED
  BY <1>1, <1>2, <1>3

\* get_width keeps it, and consumes no specifier.
LEMMA WidthStep ==
  ASSUME IInv, WidthDigits \/ WidthStar \/ WidthDone
  PROVE  IInv'
<1>1. pc = "width" /\ UNCHANGED <<str, i, counter, out>>
  BY DEF WidthDigits, WidthStar, WidthDone
<1>2. /\ str \in Formats /\ args \in Directive /\ args.flag \in SUBSET Flags
      /\ j \in j .. args.specIndex /\ j \in 0 .. Len(str) /\ j \in 0 .. args.specIndex
  BY <1>1, ParserStarts DEF Directive
<1>3. CASE WidthDigits
  <2>1. /\ args' = [args EXCEPT !.width = Signed(ft_atoll(j), IntBits)]
        /\ j' = DigitsEnd(j) /\ pc' = pc
    BY <1>3 DEF WidthDigits
  <2>2. Signed(ft_atoll(j), IntBits) \in Int
    BY <1>2, AtollType, SignedType, WidthsOfTypes
  <2>3. args' \in Directive
    BY <1>2, <2>1, <2>2, DirectiveWith
  <2>4. args'.specIndex = args.specIndex /\ args'.spec = args.spec
    BY <1>2, <2>1 DEF Directive
  <2>5. j' \in j .. args.specIndex
    BY <1>1, <1>2, <2>1, DigitsBeforeSpecifier
  <2> QED
    BY <1>1, <2>1, <2>3, <2>4, <2>5, ParserMoves DEF Reading
<1>4. CASE WidthStar
  <2>1. PICK v \in Slots :
          LET w == Signed(v, IntBits)
          IN args' = IF w < 0
                       THEN [args EXCEPT !.width = Signed(-w, IntBits),
                                         !.flag = (@ \cup {"MINUS"}) \ {"ZERO"}]
                       ELSE [args EXCEPT !.width = w]
    BY <1>4 DEF WidthStar
  <2>2. Ch(j) = "*" /\ j' = j + 1 /\ pc' = pc
    BY <1>4 DEF WidthStar
  <2> DEFINE w == Signed(v, IntBits)
             f == (args.flag \cup {"MINUS"}) \ {"ZERO"}
  <2>3. w \in Int
    BY SlotTypes, SignedType, WidthsOfTypes
  <2>4. Signed(-w, IntBits) \in Int
    <3>1. -w \in Int
      BY <2>3
    <3> HIDE DEF w
    <3> QED
      BY <3>1, SignedType, WidthsOfTypes
  <2>5. f \in SUBSET Flags
    BY <1>2 DEF Flags
  <2>6. \/ args' = [args EXCEPT !.width = Signed(-w, IntBits), !.flag = f]
        \/ args' = [args EXCEPT !.width = w]
    BY <2>1
  <2> HIDE DEF w, f
  <2>7. args' \in Directive
    <3>1. [args EXCEPT !.width = w] \in Directive
      BY <1>2, <2>3, DirectiveWith
    <3>2. [args EXCEPT !.width = Signed(-w, IntBits), !.flag = f] \in Directive
      BY <1>2, <2>4, <2>5, DirectiveWith
    <3> QED
      BY <2>6, <3>1, <3>2
  <2>8. args'.specIndex = args.specIndex /\ args'.spec = args.spec
    BY <1>2, <2>6 DEF Directive
  <2>9. j' \in j .. args.specIndex
    BY <1>1, <2>2, BeforeSpecifier, SkippedFacts
  <2> QED
    BY <1>1, <2>2, <2>7, <2>8, <2>9, ParserMoves DEF Reading
<1>5. CASE WidthDone
  <2>1. pc' = "precision" /\ args' = args /\ j' = j
    BY <1>5 DEF WidthDone
  <2> QED
    BY <1>1, <1>2, <2>1, ParserMoves DEF Reading
<1> QED
  BY <1>3, <1>4, <1>5

\* Taking the flag 0 away leaves a set of flags.
LEMMA ZeroUnsetType ==
  ASSUME NEW a \in Directive, NEW p
  PROVE  ZeroUnset(a, p) \in SUBSET Flags
BY DEF ZeroUnset, Directive

\* A precision is put into the directive with what it does to the flags.
LEMMA WithPrecision ==
  ASSUME NEW a \in Directive, NEW p \in Int
  PROVE  /\ [a EXCEPT !.precision = p] \in Directive
         /\ [a EXCEPT !.precision = p, !.flag = ZeroUnset(a, p)] \in Directive
         /\ [a EXCEPT !.precision = p, !.width = Signed(-p, IntBits), !.flag = a.flag \cup {"MINUS"}]
              \in Directive
<1>1. ZeroUnset(a, p) \in SUBSET Flags
  BY ZeroUnsetType
<1>2. a.flag \cup {"MINUS"} \in SUBSET Flags
  BY DEF Directive, Flags
<1>3. Signed(-p, IntBits) \in Int
  <2>1. -p \in Int
    OBVIOUS
  <2> QED
    BY <2>1, SignedType, WidthsOfTypes
<1>4. [a EXCEPT !.precision = p] \in Directive
  BY DirectiveWith
<1>5. [a EXCEPT !.precision = p, !.flag = ZeroUnset(a, p)] \in Directive
  BY <1>1, DirectiveWith
<1>6. [a EXCEPT !.precision = p, !.width = Signed(-p, IntBits), !.flag = a.flag \cup {"MINUS"}]
        \in Directive
  BY <1>2, <1>3, DirectiveWith
<1> QED
  BY <1>4, <1>5, <1>6

\* The number of a literal precision, whatever blanks and sign come before it.
LEMMA LiteralType ==
  ASSUME str \in Formats, j + 1 \in 0 .. Len(str)
  PROVE  LET n == NumberStart
             p == CASE Ch(n) = "-" -> Signed(-ft_atoll(n + 1), IntBits)
                    [] Ch(n) = "+" -> Signed(ft_atoll(n + 1), IntBits)
                    [] OTHER       -> Signed(ft_atoll(n), IntBits)
         IN p \in Int
<1> DEFINE n == NumberStart
<1>1. n \in 0 .. Len(str) /\ Len(str) \in Nat
  BY NumberStartFacts, FormatFacts
<1> HIDE DEF n
<1>2. IntBits \in Nat /\ ft_atoll(n) \in Nat
  BY <1>1, AtollType, WidthsOfTypes
<1>3. Signed(ft_atoll(n), IntBits) \in Int
  BY <1>2, SignedType
<1>4. ASSUME Ch(n) = "-" \/ Ch(n) = "+"
      PROVE  Signed(ft_atoll(n + 1), IntBits) \in Int /\ Signed(-ft_atoll(n + 1), IntBits) \in Int
  <2>1. Ch(n) # NUL
    BY <1>4 DEF NUL
  <2>2. n + 1 \in 0 .. Len(str)
    <3>1. n \in Int /\ (n >= Len(str) => Ch(n) = NUL)
      BY <1>1, FormatFacts
    <3> QED
      BY <1>1, <2>1, <3>1
  <2>3. ft_atoll(n + 1) \in Nat
    BY <2>2, AtollType
  <2>4. ft_atoll(n + 1) \in Int /\ -ft_atoll(n + 1) \in Int
    BY <2>3
  <2> QED
    BY <1>2, <2>4, SignedType
<1> DEFINE p == CASE Ch(n) = "-" -> Signed(-ft_atoll(n + 1), IntBits)
                  [] Ch(n) = "+" -> Signed(ft_atoll(n + 1), IntBits)
                  [] OTHER       -> Signed(ft_atoll(n), IntBits)
<1>5. p \in Int
  <2>1. CASE Ch(n) = "-"
    BY <1>4, <2>1
  <2>2. CASE Ch(n) = "+"
    BY <1>4, <2>2
  <2>3. CASE Ch(n) # "-" /\ Ch(n) # "+"
    BY <1>3, <2>3
  <2> QED
    BY <2>1, <2>2, <2>3
<1> QED
  BY <1>5 DEF n

\* get_precision keeps the invariant, and consumes no specifier.
LEMMA PrecisionStep ==
  ASSUME IInv, NoPrecision \/ StarPrecision \/ LiteralPrecision
  PROVE  IInv'
<1>1. pc = "precision" /\ pc' = "modifier" /\ UNCHANGED <<str, i, counter, out>>
  BY DEF NoPrecision, StarPrecision, LiteralPrecision
<1>2. /\ str \in Formats /\ Len(str) \in Nat /\ args \in Directive /\ args.specIndex \in 0 .. Len(str) - 1
      /\ j \in j .. args.specIndex /\ j \in 0 .. Len(str) - 1
  BY <1>1, ParserStarts
<1>3. FloatPrecision \in Int
  BY DEF FloatPrecision
<1>4. CASE NoPrecision
  <2>1. j' = j /\ (args' = [args EXCEPT !.precision = FloatPrecision] \/ args' = args)
    BY <1>4 DEF NoPrecision
  <2>2. args' \in Directive
    BY <1>2, <1>3, <2>1, WithPrecision
  <2>3. args'.specIndex = args.specIndex /\ args'.spec = args.spec
    BY <1>2, <2>1 DEF Directive
  <2> QED
    BY <1>1, <1>2, <2>1, <2>2, <2>3, ParserMoves DEF Reading
<1>5. ASSUME Ch(j) = "."
      PROVE  j + 1 \in j .. args.specIndex /\ j + 1 \in 0 .. args.specIndex
  <2>1. Ch(j) \in Skipped
    BY <1>5, SkippedFacts
  <2>2. j + 1 \in j .. args.specIndex
    BY <1>1, <2>1, BeforeSpecifier
  <2> QED
    BY <1>2, <2>2
<1>6. CASE StarPrecision
  <2>1. PICK v \in Slots :
          LET p == IF args.spec = "f" /\ Signed(v, IntBits) < 0 THEN FloatPrecision ELSE Signed(v, IntBits)
          IN args' = [args EXCEPT !.precision = p, !.flag = ZeroUnset(args, p)]
    BY <1>6 DEF StarPrecision
  <2>2. Ch(j) = "." /\ j' = j + 1
    BY <1>6 DEF StarPrecision
  <2> DEFINE p == IF args.spec = "f" /\ Signed(v, IntBits) < 0 THEN FloatPrecision ELSE Signed(v, IntBits)
  <2>3. p \in Int
    <3>1. Signed(v, IntBits) \in Int
      BY SlotTypes, SignedType, WidthsOfTypes
    <3> QED
      BY <1>3, <3>1
  <2>4. args' = [args EXCEPT !.precision = p, !.flag = ZeroUnset(args, p)]
    BY <2>1
  <2> HIDE DEF p
  <2>5. args' \in Directive
    BY <1>2, <2>3, <2>4, WithPrecision
  <2>6. args'.specIndex = args.specIndex /\ args'.spec = args.spec
    BY <1>2, <2>4 DEF Directive
  <2> QED
    BY <1>1, <1>5, <2>2, <2>5, <2>6, ParserMoves DEF Reading
<1>7. CASE LiteralPrecision
  <2> DEFINE n == NumberStart
             p == CASE Ch(n) = "-" -> Signed(-ft_atoll(n + 1), IntBits)
                    [] Ch(n) = "+" -> Signed(ft_atoll(n + 1), IntBits)
                    [] OTHER       -> Signed(ft_atoll(n), IntBits)
  <2>1. /\ Ch(j) = "." /\ j' = DigitsEnd(j + 1)
        /\ args' = IF p >= 0 THEN [args EXCEPT !.precision = p, !.flag = ZeroUnset(args, p)]
                   ELSE IF args.spec = "f" THEN [args EXCEPT !.precision = FloatPrecision]
                   ELSE [args EXCEPT !.precision = p, !.width = Signed(-p, IntBits),
                                     !.flag = args.flag \cup {"MINUS"}]
    BY <1>7 DEF LiteralPrecision
  <2>2. p \in Int
    <3>1. j + 1 \in 0 .. Len(str)
      BY <1>2
    <3> QED
      BY <1>2, <3>1, LiteralType
  <2> HIDE DEF p, n
  <2>3. args' \in Directive
    BY <1>2, <1>3, <2>1, <2>2, WithPrecision
  <2>4. args'.specIndex = args.specIndex /\ args'.spec = args.spec
    BY <1>2, <2>1 DEF Directive
  <2>5. j' \in j .. args.specIndex
    <3>1. DigitsEnd(j + 1) \in j + 1 .. args.specIndex
      BY <1>1, <1>5, <2>1, DigitsBeforeSpecifier
    <3> QED
      BY <1>2, <2>1, <3>1
  <2> QED
    BY <1>1, <2>3, <2>4, <2>5, ParserMoves DEF Reading
<1> QED
  BY <1>4, <1>6, <1>7

\* get_modifier keeps it, and consumes no specifier.
LEMMA ModifierStep ==
  ASSUME IInv, get_modifier
  PROVE  IInv'
<1>1. pc = "modifier" /\ UNCHANGED <<str, i, counter, out>>
  BY DEF get_modifier
<1>2. args \in Directive /\ args.modifier \in SUBSET Modifiers /\ j \in j .. args.specIndex
  BY <1>1, ParserStarts DEF Directive
<1>3. CASE Ch(j) \in ModifierSet
  <2>1. /\ args' = [args EXCEPT !.modifier = WithModifier(args.modifier, Ch(j), Ch(j + 1))]
        /\ j' = j + 1 /\ pc' = pc
    BY <1>3 DEF get_modifier
  <2>2. WithModifier(args.modifier, Ch(j), Ch(j + 1)) \in SUBSET Modifiers
    BY <1>2, <1>3, WithModifierType
  <2>3. args' \in Directive
    BY <1>2, <2>1, <2>2, DirectiveWith
  <2>4. args'.specIndex = args.specIndex /\ args'.spec = args.spec
    BY <1>2, <2>1 DEF Directive
  <2>5. j' \in j .. args.specIndex
    BY <1>1, <1>3, <2>1, BeforeSpecifier, SkippedFacts
  <2> QED
    BY <1>1, <2>1, <2>3, <2>4, <2>5, ParserMoves DEF Reading
<1>4. CASE Ch(j) \notin ModifierSet
  <2>1. pc' = "print" /\ args' = args /\ j' = j
    BY <1>4 DEF get_modifier
  <2> QED
    BY <1>1, <1>2, <2>1, ParserMoves DEF Reading
<1> QED
  BY <1>3, <1>4

-----------------------------------------------------------------------------
\* The printers write what they count, and the loop goes on behind the specifier.
LEMMA PrinterMoves ==
  ASSUME IInv, pc = "print", NEW t \in Seq(Char), NEW val, Emit(t, Len(t), val)
  PROVE  IInv'
<1>1. /\ str \in Formats /\ Len(str) \in Nat /\ args \in Directive
      /\ args.specIndex \in 0 .. Len(str) - 1 /\ j \in 0 .. Len(str) - 1
  BY ParserStarts
<1>2. Write(t, Len(t)) /\ i' = args.specIndex /\ pc' = "next" /\ UNCHANGED <<str, j, args>>
  BY DEF Emit
<1>3. TypeInv' /\ ReadInv'
  BY <1>1, <1>2 DEF TypeInv, ReadInv, Reading
<1>4. CountInv'
  BY <1>2, WriteCounts DEF IInv
<1> QED
  BY <1>3, <1>4 DEF IInv

\* ft_print_c makes a field of one character, or of the width.
LEMMA CharField ==
  ASSUME NEW d \in Directive, NEW c \in Char, d.spec \in Char
  PROVE  /\ ft_print_c(d, c) \in Seq(Char)
         /\ Len(ft_print_c(d, c)) = IF d.width <= 0 THEN 1
                                    ELSE IF d.spec \in {"c", "%"} THEN d.width
                                    ELSE Len(ft_print_c(d, d.spec))
<1>1. /\ ft_print_c(d, c) \in Seq(Char) /\ Len(ft_print_c(d, c)) = Wider(1, d.width)
      /\ Len(ft_print_c(d, d.spec)) = Wider(1, d.width)
  BY PrintedType
<1>2. Wider(1, d.width) = IF d.width <= 0 THEN 1 ELSE d.width
  BY DEF Wider, Directive
<1> QED
  BY <1>1, <1>2

\* The printers keep the invariant: they count what they write.
LEMMA PrintStep ==
  ASSUME IInv, PrintD \/ PrintPoubx \/ PrintS \/ PrintF \/ PrintC
  PROVE  IInv'
<1>1. pc = "print"
  BY DEF PrintD, PrintPoubx, PrintS, PrintF, PrintC
<1>2. args \in Directive
  BY <1>1, ParserStarts
<1>3. CASE PrintD
  <2>1. PICK v \in Slots :
          Emit(ft_print_d(args, ft_signed(args, v)), Len(ft_print_d(args, ft_signed(args, v))),
               ft_signed(args, v))
    BY <1>3 DEF PrintD
  <2>2. ft_signed(args, v) \in Int
    BY <1>2, SlotTypes, ValueTypes
  <2>3. ft_print_d(args, ft_signed(args, v)) \in Seq(Char)
    BY <1>2, <2>2, PrintedType
  <2> QED
    BY <1>1, <2>1, <2>3, PrinterMoves
<1>4. CASE PrintPoubx
  <2>1. PICK v \in Slots :
          Emit(ft_print_poubx(args, ft_unsigned(args, v)),
               Len(ft_print_poubx(args, ft_unsigned(args, v))), ft_unsigned(args, v))
    BY <1>4 DEF PrintPoubx
  <2>2. ft_unsigned(args, v) \in Nat /\ args.spec \in SpecsPOUBX
    BY <1>2, <1>4, SlotTypes, ValueTypes DEF PrintPoubx
  <2>3. ft_print_poubx(args, ft_unsigned(args, v)) \in Seq(Char)
    BY <1>2, <2>2, PrintedType
  <2> QED
    BY <1>1, <2>1, <2>3, PrinterMoves
<1>5. CASE PrintS
  <2>1. PICK s \in Strings \cup {Null} : Emit(ft_print_s(args, s), Len(ft_print_s(args, s)), s)
    BY <1>5 DEF PrintS
  <2>2. ft_print_s(args, s) \in Seq(Char)
    BY <1>2, PrintedType
  <2> QED
    BY <1>1, <2>1, <2>2, PrinterMoves
<1>6. CASE PrintF
  <2>1. PICK s \in FloatTexts : Emit(ft_width(args, s, 0), Len(ft_width(args, s, 0)), s)
    BY <1>6 DEF PrintF
  <2>2. ft_width(args, s, 0) \in Seq(Char)
    BY <1>2, PrintedType
  <2> QED
    BY <1>1, <2>1, <2>2, PrinterMoves
<1>7. CASE PrintC
  <2>1. PICK c \in IF args.spec = "c" THEN {"a", "0"} ELSE {args.spec} :
          Emit(ft_print_c(args, c), CharCounts, 0)
    BY <1>7 DEF PrintC
  <2>2. args.spec \in Char
    <3>1. /\ str \in Formats /\ args.specIndex \in 0 .. Len(str) - 1 /\ Len(str) \in Nat
          /\ Ch(args.specIndex) = args.spec
      BY <1>1, ParserStarts
    <3>2. args.specIndex \in Int /\ args.specIndex < Len(str) /\ args.specIndex >= 0
      BY <3>1
    <3> QED
      BY <3>1, <3>2, FormatFacts
  <2>3. c \in Char
    BY <2>1, <2>2, OwnChars
  <2>4. ft_print_c(args, c) \in Seq(Char) /\ CharCounts = Len(ft_print_c(args, c))
    BY <1>2, <2>2, <2>3, CharField DEF CharCounts
  <2> QED
    BY <1>1, <2>1, <2>4, PrinterMoves
<1> QED
  BY <1>3, <1>4, <1>5, <1>6, <1>7

-----------------------------------------------------------------------------
\* The invariant holds when ft_printf is entered.
LEMMA InitInv == Init => IInv
<1> SUFFICES ASSUME Init
             PROVE  IInv
  OBVIOUS
<1>1. str \in Formats /\ Len(str) \in Nat
  BY FormatFacts DEF Init
<1>2. TypeInv /\ ReadInv
  BY <1>1, InitialArgs DEF Init, TypeInv, ReadInv, Reading
<1>3. CountInv
  <2>1. Visible(<<>>) = {}
    BY DEF Visible
  <2>2. Cardinality({}) = 0
    BY FS_EmptySet
  <2> QED
    BY <2>1, <2>2 DEF Init, CountInv
<1> QED
  BY <1>2, <1>3 DEF IInv

\* Every step of ft_printf keeps it.
LEMMA NextInv == IInv /\ [Next]_vars => IInv'
<1> SUFFICES ASSUME IInv, [Next]_vars
             PROVE  IInv'
  OBVIOUS
<1>1. CASE EndOfFormat \/ ReadPastEnd \/ StartDirective \/ PlainChar
  BY <1>1, LoopStep
<1>2. CASE OpenBrace
  BY <1>2, BraceStep
<1>3. CASE get_specifier
  BY <1>3, SpecifierStep
<1>4. CASE get_flags
  BY <1>4, FlagStep
<1>5. CASE WidthDigits \/ WidthStar \/ WidthDone
  BY <1>5, WidthStep
<1>6. CASE NoPrecision \/ StarPrecision \/ LiteralPrecision
  BY <1>6, PrecisionStep
<1>7. CASE get_modifier
  BY <1>7, ModifierStep
<1>8. CASE PrintD \/ PrintPoubx \/ PrintS \/ PrintF \/ PrintC
  BY <1>8, PrintStep
<1>9. CASE UNCHANGED vars
  BY <1>9 DEF vars, IInv, TypeInv, ReadInv, CountInv, Visible, Reading, Ch
<1> QED
  BY <1>1, <1>2, <1>3, <1>4, <1>5, <1>6, <1>7, <1>8, <1>9 DEF Next

\* It holds throughout, for every format and argument.
LEMMA Invariance == Spec => []IInv
BY InitInv, NextInv, PTL DEF Spec

\* The two readings of a directive agree: the one that stores flags, width,
\* precision and modifiers never gets past the specifier that the first one
\* found (parse.c), for every format.
THEOREM ReadingsAgree == Spec => []TypeOK
<1>1. IInv => TypeOK
  <2> SUFFICES ASSUME IInv
               PROVE  TypeOK
    OBVIOUS
  <2>1. /\ str \in Formats /\ i \in -1 .. Len(str) /\ j \in 0 .. Len(str) + 1
        /\ pc \in {"next", "spec", "flags", "width", "precision", "modifier", "print", "end", "overrun"}
        /\ counter \in Nat
    BY DEF IInv, TypeInv, CountInv, Reading
  <2>2. /\ args.flag \subseteq {"MINUS", "PLUS", "HASH", "SPACE", "ZERO"}
        /\ args.modifier \subseteq {"H", "HH", "L", "LL", "UPL", "Z", "J"}
        /\ {args.width, args.precision} \subseteq Int
    BY DEF IInv, TypeInv, Directive, Flags, Modifiers
  <2>3. pc \in {"flags", "width", "precision", "modifier", "print"} =>
          i < j /\ j <= args.specIndex /\ Ch(args.specIndex) = args.spec
    BY ParserStarts
  <2> QED
    BY <2>1, <2>2, <2>3 DEF TypeOK
<1> QED
  BY <1>1, Invariance, PTL

\* What ft_printf returns is the number of characters that it has written, the
\* escape sequences of colors apart: each printer counts what it hands to write
\* (ft_print_c and non_spec_char from the width, without looking at the text).
THEOREM CountsWhatItWrites == Spec => []CounterCounts
<1>1. IInv => CounterCounts
  BY DEF IInv, CountInv, Visible, CounterCounts
<1> QED
  BY <1>1, Invariance, PTL

-----------------------------------------------------------------------------
\* What a sequence of digits denotes: the function that ValueShown defines.
HexChars == DOMAIN HexValue
ValueTo(t, base, values) ==
  values = [n \in 0 .. Len(t) |-> IF n = 0 THEN 0 ELSE base * values[n - 1] + HexValue[t[n]]]
ValueFor(t, base) == CHOOSE values : ValueTo(t, base, values)
ValueOf(t, base) == ValueFor(t, base)[Len(t)]

\* What a field denotes is the value of its digits, negative behind a minus.
LEMMA ValueShownIs ==
  \A c : ValueShown(c) = IF Negative(Shown(c.text)) THEN -ValueOf(DigitsShown(c), NumericBase(c))
                         ELSE ValueOf(DigitsShown(c), NumericBase(c))
BY DEF ValueShown, ValueOf, ValueFor, ValueTo

\* The sixteen digits are different.
LEMMA DigitsDiffer ==
  /\ DOMAIN Digits = 1 .. 16
  /\ \A m, n \in 0 .. 15 : Digits[m + 1] = Digits[n + 1] => m = n
BY DEF Digits

\* Every digit stands for its place among the digits, and so does its capital.
LEMMA HexFacts ==
  /\ HexChars = DigitChars \cup {"A", "B", "C", "D", "E", "F"}
  /\ \A n \in 0 .. 15 : HexValue[Digits[n + 1]] = n
  /\ \A c \in HexChars : HexValue[c] \in 0 .. 15
  /\ \A c \in DOMAIN Uppers : c \in DigitChars /\ Uppers[c] \in HexChars /\ HexValue[Uppers[c]] = HexValue[c]
<1> DEFINE Capitals == {"A", "B", "C", "D", "E", "F"}
           Is(c, n) == c = Digits[n + 1] \/ (n > 9 /\ c = Uppers[Digits[n + 1]])
<1>1. /\ DOMAIN Uppers = {"a", "b", "c", "d", "e", "f"} /\ {Uppers[c] : c \in DOMAIN Uppers} = Capitals
      /\ Uppers["a"] = "A" /\ Uppers["b"] = "B" /\ Uppers["c"] = "C" /\ Uppers["d"] = "D"
      /\ Uppers["e"] = "E" /\ Uppers["f"] = "F"
  BY DEF Uppers
<1>2. {Digits[n] : n \in DOMAIN Digits} = DigitChars
  BY DigitsDiffer DEF Digits, DigitChars
<1>3. HexChars = DigitChars \cup Capitals
  BY <1>1, <1>2 DEF HexChars, HexValue
<1>4. \A c \in HexChars : HexValue[c] = CHOOSE n \in 0 .. 15 : Is(c, n)
  BY DEF HexChars, HexValue
<1>5. \A n \in 0 .. 15 : /\ n <= 9 => Digits[n + 1] \notin DOMAIN Uppers
                         /\ n > 9 => Digits[n + 1] \in DOMAIN Uppers /\ Uppers[Digits[n + 1]] \in Capitals
  BY <1>1 DEF Digits
<1>6. \A n \in 0 .. 15 : Digits[n + 1] \in DigitChars /\ Digits[n + 1] \notin Capitals
  BY DEF Digits, DigitChars
<1>7. \A n \in 0 .. 15 : HexValue[Digits[n + 1]] = n
  <2>1. ASSUME NEW n \in 0 .. 15, NEW m \in 0 .. 15, Is(Digits[n + 1], m)
        PROVE  m = n
    BY <1>5, <1>6, <2>1, DigitsDiffer
  <2>2. ASSUME NEW n \in 0 .. 15
        PROVE  HexValue[Digits[n + 1]] = n
    BY <1>3, <1>4, <1>6, <2>1
  <2> QED
    BY <2>2
<1>8. \A c \in DOMAIN Uppers : c \in DigitChars /\ Uppers[c] \in HexChars /\ HexValue[Uppers[c]] = HexValue[c]
  <2>1. \A m, n \in 10 .. 15 : Uppers[Digits[m + 1]] = Uppers[Digits[n + 1]] => m = n
    BY <1>1 DEF Digits
  <2>2. \A c \in DOMAIN Uppers : \E n \in 10 .. 15 : c = Digits[n + 1]
    <3>1. /\ Digits[10 + 1] = "a" /\ Digits[11 + 1] = "b" /\ Digits[12 + 1] = "c"
          /\ Digits[13 + 1] = "d" /\ Digits[14 + 1] = "e" /\ Digits[15 + 1] = "f"
      BY DEF Digits
    <3> QED
      BY <1>1, <3>1
  <2>3. ASSUME NEW c \in DOMAIN Uppers
        PROVE  c \in DigitChars /\ Uppers[c] \in HexChars /\ HexValue[Uppers[c]] = HexValue[c]
    <3>1. PICK n \in 10 .. 15 : c = Digits[n + 1]
      BY <2>2
    <3>2. c \in DigitChars /\ Uppers[c] \in Capitals /\ HexValue[c] = n /\ n > 9 /\ n \in 0 .. 15
      BY <1>5, <1>6, <1>7, <3>1
    <3>3. ASSUME NEW m \in 0 .. 15, Is(Uppers[c], m)
          PROVE  m = n
      <4>1. m > 9 /\ Uppers[Digits[n + 1]] = Uppers[Digits[m + 1]]
        BY <1>6, <3>1, <3>2, <3>3
      <4> QED
        BY <2>1, <4>1
    <3>4. Is(Uppers[c], n)
      BY <3>1, <3>2
    <3> HIDE DEF Is, Capitals
    <3>5. Uppers[c] \in HexChars
      BY <1>3, <3>2
    <3>6. HexValue[Uppers[c]] = n
      BY <1>4, <3>2, <3>3, <3>4, <3>5
    <3> QED
      BY <3>2, <3>5, <3>6
  <2> QED
    BY <2>3
<1>9. \A c \in HexChars : HexValue[c] \in 0 .. 15
  <2>1. ASSUME NEW c \in DigitChars
        PROVE  HexValue[c] \in 0 .. 15
    <3>1. PICK n \in 1 .. 16 : c = Digits[n]
      BY <1>2, DigitsDiffer
    <3>2. n - 1 \in 0 .. 15 /\ (n - 1) + 1 = n
      OBVIOUS
    <3> QED
      BY <1>7, <3>1, <3>2
  <2>2. ASSUME NEW c \in Capitals
        PROVE  HexValue[c] \in 0 .. 15
    <3>1. PICK b \in DOMAIN Uppers : c = Uppers[b]
      BY <1>1
    <3> QED
      BY <1>8, <2>1, <3>1
  <2> QED
    BY <1>3, <2>1, <2>2
<1> QED
  BY <1>3, <1>7, <1>8, <1>9

\* Each digit multiplies what is in front of it by the base, and adds its
\* value.
LEMMA ValueFacts ==
  ASSUME NEW t \in Seq(HexChars), NEW base \in 2 .. 16
  PROVE  LET f == ValueFor(t, base)
         IN /\ f[0] = 0
            /\ \A n \in 0 .. Len(t) : f[n] \in Nat
            /\ \A n \in 0 .. Len(t) - 1 : f[n + 1] = base * f[n] + HexValue[t[n + 1]]
<1> DEFINE N      == Len(t)
           F      == [x \in (1 .. N) \X Nat |-> base * x[2] + HexValue[t[x[1]]]]
           before == [k \in 1 .. N |-> k - 1]
           f      == ValueFor(t, base)
<1>1. N \in Nat /\ \A k \in 1 .. N : HexValue[t[k]] \in Nat
  <2>1. N \in Nat /\ \A k \in 1 .. N : t[k] \in HexChars
    OBVIOUS
  <2>2. \A c \in HexChars : HexValue[c] \in Nat
    <3>1. \A c \in HexChars : HexValue[c] \in 0 .. 15
      BY HexFacts
    <3> QED
      BY <3>1
  <2> QED
    BY <2>1, <2>2
<1>2. \A v : ValueTo(t, base, v) <=>
        v = [n \in 0 .. N |-> IF n = 0 THEN 0 ELSE base * v[n - 1] + HexValue[t[n]]]
  BY DEF ValueTo
<1> HIDE DEF N
<1>3. before \in [1 .. N -> Nat] /\ \A k \in 1 .. N : before[k] < k /\ before[k] = k - 1
  BY <1>1
<1>4. F \in [(1 .. N) \X Nat -> Nat]
  <2>1. ASSUME NEW k \in 1 .. N, NEW v \in Nat
        PROVE  base * v + HexValue[t[k]] \in Nat
    <3>1. base * v \in Nat
      OBVIOUS
    <3> QED
      BY <1>1, <3>1
  <2> QED
    BY <2>1
<1>5. \A k \in 1 .. N, v \in Nat : F[<<k, v>>] = base * v + HexValue[t[k]]
  OBVIOUS
<1> HIDE DEF F, before
<1>6. Recursive(Nat, 0, N, before, F)
  BY <1>1, <1>3, <1>4, Recursion
<1>7. PICK g \in [0 .. N -> Nat] : Follows(g, 0, N, before, F)
  BY <1>6 DEF Recursive
<1>8. ValueTo(t, base, g)
  <2>1. ASSUME NEW n \in 0 .. N
        PROVE  g[n] = IF n = 0 THEN 0 ELSE base * g[n - 1] + HexValue[t[n]]
    <3>1. CASE n = 0
      BY <1>7, <3>1 DEF Follows
    <3>2. CASE n # 0
      <4>1. n \in 1 .. N /\ n - 1 \in 0 .. N
        BY <1>1, <3>2
      <4>2. g[n] = F[<<n, g[n - 1]>>] /\ g[n - 1] \in Nat
        BY <1>3, <1>7, <4>1 DEF Follows
      <4>3. F[<<n, g[n - 1]>>] = base * g[n - 1] + HexValue[t[n]]
        BY <1>5, <4>1, <4>2
      <4> QED
        BY <3>2, <4>2, <4>3
    <3> QED
      BY <3>1, <3>2
  <2> QED
    BY <1>2, <2>1
<1>9. ValueTo(t, base, f)
  BY <1>8 DEF ValueFor
<1> HIDE DEF f
<1> DEFINE made(n) == IF n = 0 THEN 0 ELSE base * f[n - 1] + HexValue[t[n]]
<1>10. \A n \in 0 .. N : f[n] = made(n)
  <2>1. f = [n \in 0 .. N |-> made(n)]
    BY <1>2, <1>9
  <2> HIDE DEF made
  <2> QED
    BY <2>1
<1> HIDE DEF made
<1>11. f[0] = 0
  BY <1>1, <1>10 DEF made
<1>12. ASSUME NEW n \in 0 .. N - 1
       PROVE  f[n + 1] = base * f[n] + HexValue[t[n + 1]]
  <2>1. n + 1 \in 0 .. N /\ n + 1 # 0 /\ (n + 1) - 1 = n
    BY <1>1
  <2> QED
    BY <1>10, <2>1 DEF made
<1>13. \A n \in 0 .. N : f[n] \in Nat
  <2> DEFINE P == {n \in 0 .. N : f[n] \in Nat}
  <2>1. 0 \in P
    BY <1>1, <1>11
  <2>2. ASSUME NEW n \in 0 .. N - 1, n \in P
        PROVE  n + 1 \in P
    <3>1. n + 1 \in 1 .. N /\ f[n] \in Nat
      BY <1>1, <2>2
    <3>2. base * f[n] \in Nat /\ HexValue[t[n + 1]] \in Nat
      BY <1>1, <3>1, SMTT(30)
    <3> QED
      BY <1>12, <3>1, <3>2
  <2>3. \A n \in 0 .. N : n \in P
    <3> HIDE DEF P
    <3> QED
      BY <1>1, <2>1, <2>2, Induct
  <2> QED
    BY <2>3
<1> QED
  BY <1>11, <1>12, <1>13 DEF f, N

\* No digits denote 0.
LEMMA ValueOfNone == \A base \in 2 .. 16 : ValueOf(<<>>, base) = 0
<1>1. <<>> \in Seq(HexChars) /\ Len(<<>>) = 0
  OBVIOUS
<1> QED
  BY <1>1, ValueFacts DEF ValueOf

\* Texts that agree in the values of their first digits denote the same up to there.
LEMMA SameStart ==
  ASSUME NEW s \in Seq(HexChars), NEW t \in Seq(HexChars), NEW base \in 2 .. 16,
         NEW N \in 0 .. Len(s), N <= Len(t), \A n \in 1 .. N : HexValue[s[n]] = HexValue[t[n]]
  PROVE  ValueFor(s, base)[N] = ValueFor(t, base)[N]
<1> DEFINE f == ValueFor(s, base)
           g == ValueFor(t, base)
           P == {n \in 0 .. N : f[n] = g[n]}
<1>1. /\ f[0] = 0 /\ \A n \in 0 .. Len(s) - 1 : f[n + 1] = base * f[n] + HexValue[s[n + 1]]
      /\ g[0] = 0 /\ \A n \in 0 .. Len(t) - 1 : g[n + 1] = base * g[n] + HexValue[t[n + 1]]
  BY ValueFacts
<1>2. N \in Nat /\ Len(s) \in Nat /\ Len(t) \in Nat
  OBVIOUS
<1> HIDE DEF f, g
<1>3. 0 \in P
  BY <1>1, <1>2
<1>4. ASSUME NEW n \in 0 .. N - 1, n \in P
      PROVE  n + 1 \in P
  <2>1. n + 1 \in 1 .. N /\ n \in 0 .. Len(s) - 1 /\ n \in 0 .. Len(t) - 1 /\ f[n] = g[n]
    BY <1>2, <1>4
  <2>2. f[n + 1] = g[n + 1]
    BY <1>1, <2>1
  <2> QED
    BY <2>1, <2>2
<1>5. \A n \in 0 .. N : n \in P
  <2> HIDE DEF P
  <2> QED
    BY <1>2, <1>3, <1>4, Induct
<1>6. N \in P
  BY <1>2, <1>5
<1> QED
  BY <1>6 DEF f, g

\* One digit more multiplies by the base and adds.
LEMMA ValueOfAppend ==
  ASSUME NEW t \in Seq(HexChars), NEW c \in HexChars, NEW base \in 2 .. 16
  PROVE  ValueOf(Append(t, c), base) = base * ValueOf(t, base) + HexValue[c]
<1> DEFINE s == Append(t, c)
<1>1. /\ s \in Seq(HexChars) /\ Len(s) = Len(t) + 1 /\ Len(t) \in Nat /\ s[Len(t) + 1] = c
      /\ \A n \in 1 .. Len(t) : HexValue[t[n]] = HexValue[s[n]]
  OBVIOUS
<1> HIDE DEF s
<1>2. ValueFor(t, base)[Len(t)] = ValueFor(s, base)[Len(t)]
  <2>1. Len(t) \in 0 .. Len(t) /\ Len(t) <= Len(s)
    BY <1>1
  <2> QED
    BY <1>1, <2>1, SameStart
<1>3. ValueFor(s, base)[Len(t) + 1] = base * ValueFor(s, base)[Len(t)] + HexValue[s[Len(t) + 1]]
  <2>1. Len(t) \in 0 .. Len(s) - 1
    BY <1>1
  <2> QED
    BY <1>1, <2>1, ValueFacts
<1> QED
  BY <1>1, <1>2, <1>3 DEF ValueOf, s

\* Zeros in front do not count.
LEMMA ZerosInFront ==
  ASSUME NEW t \in Seq(HexChars), NEW k \in Nat, NEW base \in 2 .. 16
  PROVE  /\ Repeat("0", k) \o t \in Seq(HexChars) /\ Len(Repeat("0", k) \o t) = k + Len(t)
         /\ ValueOf(Repeat("0", k) \o t, base) = ValueOf(t, base)
<1> DEFINE z == Repeat("0", k)
           s == z \o t
           f == ValueFor(s, base)
           g == ValueFor(t, base)
<1>1. "0" \in HexChars /\ HexValue["0"] = 0
  <2>1. Digits[0 + 1] = "0" /\ 0 \in 0 .. 15
    BY DEF Digits
  <2>2. "0" \in HexChars
    BY HexFacts DEF DigitChars
  <2> QED
    BY <2>1, <2>2, HexFacts
<1>2. z \in Seq(HexChars) /\ Len(z) = k /\ \A n \in 1 .. k : z[n] = "0"
  BY <1>1 DEF Repeat
<1> HIDE DEF z
<1>3. /\ s \in Seq(HexChars) /\ Len(s) = k + Len(t) /\ Len(t) \in Nat
      /\ \A n \in 1 .. k : s[n] = "0"
      /\ \A n \in 1 .. Len(t) : s[k + n] = t[n]
  BY <1>2
<1> HIDE DEF s
<1>4. /\ f[0] = 0 /\ \A n \in 0 .. Len(s) - 1 : f[n + 1] = base * f[n] + HexValue[s[n + 1]]
      /\ g[0] = 0 /\ \A n \in 0 .. Len(t) - 1 : g[n + 1] = base * g[n] + HexValue[t[n + 1]]
  BY <1>3, ValueFacts
<1> HIDE DEF f, g
<1>5. f[k] = 0
  <2> DEFINE P == {n \in 0 .. k : f[n] = 0}
  <2>1. 0 \in P
    BY <1>4
  <2>2. ASSUME NEW n \in 0 .. k - 1, n \in P
        PROVE  n + 1 \in P
    <3>1. n + 1 \in 1 .. k /\ n \in 0 .. Len(s) - 1 /\ f[n] = 0
      BY <1>3, <2>2
    <3>2. f[n + 1] = base * 0 + 0
      BY <1>1, <1>3, <1>4, <3>1
    <3> QED
      BY <3>1, <3>2
  <2>3. \A n \in 0 .. k : n \in P
    <3> HIDE DEF P
    <3> QED
      BY <2>1, <2>2, Induct
  <2> QED
    BY <2>3
<1>6. \A n \in 0 .. Len(t) : f[k + n] = g[n]
  <2> DEFINE P == {n \in 0 .. Len(t) : f[k + n] = g[n]}
  <2>1. 0 \in P
    <3>1. k + 0 = k
      OBVIOUS
    <3> QED
      BY <1>3, <1>4, <1>5, <3>1
  <2>2. ASSUME NEW n \in 0 .. Len(t) - 1, n \in P
        PROVE  n + 1 \in P
    <3>1. /\ n + 1 \in 1 .. Len(t) /\ k + n \in 0 .. Len(s) - 1 /\ f[k + n] = g[n]
          /\ (k + n) + 1 = k + (n + 1)
      BY <1>3, <2>2
    <3>2. f[k + (n + 1)] = base * g[n] + HexValue[s[k + (n + 1)]]
      BY <1>4, <3>1
    <3>3. s[k + (n + 1)] = t[n + 1]
      BY <1>3, <3>1
    <3> QED
      BY <1>4, <3>1, <3>2, <3>3
  <2>3. \A n \in 0 .. Len(t) : n \in P
    <3> HIDE DEF P
    <3> QED
      BY <1>3, <2>1, <2>2, Induct
  <2> QED
    BY <2>3
<1>7. f[Len(s)] = g[Len(t)]
  <2>1. Len(t) \in 0 .. Len(t)
    BY <1>3
  <2> QED
    BY <1>3, <1>6, <2>1
<1> QED
  BY <1>3, <1>7 DEF ValueOf, f, g, s, z

\* The numeral of a number denotes it.
LEMMA NumeralValue ==
  ASSUME NEW n \in Nat, NEW base \in 2 .. 16
  PROVE  /\ Numeral(n, base) \in Seq(HexChars) /\ ValueOf(Numeral(n, base), base) = n
         /\ base = 2 => Numeral(n, base) \in Seq({"0", "1"})
<1> DEFINE f == DigitsFor(n, base)
           P == {k \in 0 .. n : ValueOf(f[k], base) = k}
           B == {k \in 0 .. n : f[k] \in Seq({"0", "1"})}
           q(k) == k \div base
           r(k) == k % base
           made(k) == IF k < base THEN <<DigitOf(k)>> ELSE Append(f[q(k)], DigitOf(r(k)))
<1>1. \A k \in 0 .. n : f[k] \in Seq(DigitChars) /\ f[k] = made(k)
  BY DigitsFacts DEF DigitOf
<1> HIDE DEF f, made
<1>2. Seq(DigitChars) \subseteq Seq(HexChars)
  <2>1. DigitChars \subseteq HexChars
    BY HexFacts
  <2> QED
    BY <2>1
<1>3. \A k \in 0 .. base - 1 : DigitOf(k) \in HexChars /\ HexValue[DigitOf(k)] = k
  <2>1. \A k \in 0 .. base - 1 : k \in 0 .. 15
    OBVIOUS
  <2>2. \A k \in 0 .. 15 : DigitOf(k) \in HexChars
    BY HexFacts, DigitType DEF DigitOf
  <2> QED
    BY <2>1, <2>2, HexFacts DEF DigitOf
<1>4. ASSUME NEW k \in 0 .. n
      PROVE  /\ q(k) \in Nat /\ r(k) \in 0 .. base - 1 /\ k = base * q(k) + r(k)
             /\ k >= base => q(k) \in 0 .. k - 1
  <2>1. k \in Nat
    OBVIOUS
  <2>2. q(k) \in Nat /\ r(k) \in 0 .. base - 1 /\ k = base * q(k) + r(k) /\ (k > 0 => q(k) < k)
    BY <2>1, DivideDown
  <2> QED
    BY <2>1, <2>2
<1> HIDE DEF q, r
<1>5. ASSUME NEW k \in 0 .. n, \A m \in 0 .. k - 1 : m \in P
      PROVE  k \in P
  <2>1. CASE k < base
    <3>1. f[k] = Append(<<>>, DigitOf(k)) /\ k \in 0 .. base - 1 /\ <<>> \in Seq(HexChars)
      <4>1. f[k] = made(k) /\ made(k) = <<DigitOf(k)>>
        BY <1>1, <2>1 DEF made
      <4> QED
        BY <2>1, <4>1
    <3>2. ValueOf(f[k], base) = base * ValueOf(<<>>, base) + HexValue[DigitOf(k)]
      BY <1>3, <3>1, ValueOfAppend
    <3>3. ValueOf(<<>>, base) = 0 /\ HexValue[DigitOf(k)] = k
      BY <1>3, <3>1, ValueOfNone
    <3> QED
      BY <3>2, <3>3
  <2>2. CASE k >= base
    <3>1. /\ f[k] = Append(f[q(k)], DigitOf(r(k))) /\ q(k) \in 0 .. k - 1 /\ r(k) \in 0 .. base - 1
          /\ k = base * q(k) + r(k)
      <4>1. f[k] = made(k) /\ made(k) = Append(f[q(k)], DigitOf(r(k)))
        BY <1>1, <2>2 DEF made
      <4> QED
        BY <1>4, <2>2, <4>1
    <3>2. ValueOf(f[q(k)], base) = q(k) /\ f[q(k)] \in Seq(HexChars)
      BY <1>1, <1>2, <1>5, <3>1
    <3>3. DigitOf(r(k)) \in HexChars /\ HexValue[DigitOf(r(k))] = r(k)
      BY <1>3, <3>1
    <3>4. ValueOf(f[k], base) = base * ValueOf(f[q(k)], base) + HexValue[DigitOf(r(k))]
      BY <3>1, <3>2, <3>3, ValueOfAppend
    <3> QED
      BY <3>1, <3>2, <3>3, <3>4
  <2> QED
    BY <2>1, <2>2
<1>6. ASSUME base = 2, NEW k \in 0 .. n, \A m \in 0 .. k - 1 : m \in B
      PROVE  k \in B
  <2>1. Digits[0 + 1] = "0" /\ Digits[1 + 1] = "1"
    BY DEF Digits
  <2>2. \A m \in 0 .. base - 1 : DigitOf(m) \in {"0", "1"}
    BY <1>6, <2>1 DEF DigitOf
  <2>3. f[k] \in Seq({"0", "1"})
    <3>1. CASE k < base
      <4>1. f[k] = <<DigitOf(k)>> /\ k \in 0 .. base - 1
        <5>1. f[k] = made(k) /\ made(k) = <<DigitOf(k)>>
          BY <1>1, <3>1 DEF made
        <5> QED
          BY <3>1, <5>1
      <4>2. DigitOf(k) \in {"0", "1"}
        BY <2>2, <4>1
      <4> QED
        BY <4>1, <4>2
    <3>2. CASE k >= base
      <4>1. f[k] = Append(f[q(k)], DigitOf(r(k))) /\ q(k) \in 0 .. k - 1 /\ r(k) \in 0 .. base - 1
        <5>1. f[k] = made(k) /\ made(k) = Append(f[q(k)], DigitOf(r(k)))
          BY <1>1, <3>2 DEF made
        <5> QED
          BY <1>4, <3>2, <5>1
      <4>2. f[q(k)] \in Seq({"0", "1"}) /\ DigitOf(r(k)) \in {"0", "1"}
        BY <1>6, <2>2, <4>1
      <4> QED
        BY <4>1, <4>2
    <3> QED
      BY <3>1, <3>2
  <2> QED
    BY <2>3
<1>7. n \in P /\ (base = 2 => n \in B)
  <2>1. \A k \in 0 .. n : k \in P
    <3> HIDE DEF P
    <3> QED
      BY <1>5, StrongInduct
  <2>2. base = 2 => \A k \in 0 .. n : k \in B
    <3> HIDE DEF B
    <3> QED
      BY <1>6, StrongInduct
  <2>3. n \in 0 .. n
    OBVIOUS
  <2> QED
    BY <2>1, <2>2, <2>3
<1> QED
  BY <1>1, <1>2, <1>7, NumeralIsLast DEF f

\* Capitals denote what the small letters do.
LEMMA UpperValue ==
  ASSUME NEW t \in Seq(DigitChars), NEW base \in 2 .. 16
  PROVE  ft_strupper(t) \in Seq(HexChars) /\ ValueOf(ft_strupper(t), base) = ValueOf(t, base)
<1> DEFINE s == ft_strupper(t)
           upper(c) == IF c \in DOMAIN Uppers THEN Uppers[c] ELSE c
<1>1. \A c \in DigitChars : upper(c) \in HexChars /\ HexValue[upper(c)] = HexValue[c] /\ c \in HexChars
  BY HexFacts
<1>2. s = [n \in 1 .. Len(t) |-> upper(t[n])]
  BY DEF ft_strupper
<1> HIDE DEF upper, s
<1>3. Len(t) \in Nat /\ \A n \in 1 .. Len(t) : t[n] \in DigitChars
  OBVIOUS
<1>4. /\ s \in Seq(HexChars) /\ Len(s) = Len(t)
      /\ \A n \in 1 .. Len(t) : HexValue[s[n]] = HexValue[t[n]]
  BY <1>1, <1>2, <1>3
<1>5. t \in Seq(HexChars)
  BY <1>1
<1>6. ValueFor(s, base)[Len(t)] = ValueFor(t, base)[Len(t)]
  <2>1. Len(t) \in 0 .. Len(s) /\ Len(t) <= Len(t)
    BY <1>3, <1>4
  <2> HIDE DEF s
  <2> QED
    BY <1>4, <1>5, <2>1, SameStart
<1> QED
  BY <1>4, <1>6 DEF ValueOf, s

-----------------------------------------------------------------------------
\* Blanks around a text do not show.
Bounds(t, lo, hi) ==
  lo \in Solid(t) /\ hi \in Solid(t) /\ \A n \in Solid(t) : lo <= n /\ n <= hi

\* Without its blanks a field is the part between the first and the last that
\* is none.
LEMMA ShownBounds ==
  ASSUME NEW t \in Seq(Char)
  PROVE  /\ Solid(t) = {} => Shown(t) = <<>>
         /\ \A lo, hi \in Nat : Bounds(t, lo, hi) => Shown(t) = SubSeq(t, lo, hi)
<1>1. Solid(t) \subseteq Nat
  BY DEF Solid
<1>2. ASSUME NEW lo \in Nat, NEW hi \in Nat, Bounds(t, lo, hi)
      PROVE  Shown(t) = SubSeq(t, lo, hi)
  <2>1. (CHOOSE m \in Solid(t) : \A n \in Solid(t) : m <= n) = lo
    <3>1. \A m \in Solid(t) : (\A n \in Solid(t) : m <= n) => m = lo
      BY <1>1, <1>2 DEF Bounds
    <3>2. lo \in Solid(t) /\ \A n \in Solid(t) : lo <= n
      BY <1>2 DEF Bounds
    <3> QED
      BY <3>1, <3>2
  <2>2. (CHOOSE m \in Solid(t) : \A n \in Solid(t) : n <= m) = hi
    <3>1. \A m \in Solid(t) : (\A n \in Solid(t) : n <= m) => m = hi
      BY <1>1, <1>2 DEF Bounds
    <3>2. hi \in Solid(t) /\ \A n \in Solid(t) : n <= hi
      BY <1>2 DEF Bounds
    <3> QED
      BY <3>1, <3>2
  <2>3. Solid(t) # {}
    BY <1>2 DEF Bounds
  <2> QED
    BY <2>1, <2>2, <2>3 DEF Shown
<1>3. Solid(t) = {} => Shown(t) = <<>>
  BY DEF Shown
<1> QED
  BY <1>2, <1>3

\* A field that is not blank has a first and a last such character.
LEMMA HasBounds ==
  ASSUME NEW t \in Seq(Char), Solid(t) # {}
  PROVE  \E lo, hi \in 1 .. Len(t) : Bounds(t, lo, hi)
<1> DEFINE back == {Len(t) - n : n \in Solid(t)}
<1>1. Len(t) \in Nat /\ Solid(t) \subseteq 1 .. Len(t)
  BY DEF Solid
<1>2. PICK lo \in Solid(t) : \A n \in Solid(t) : lo <= n
  <2>1. Solid(t) \in SUBSET Nat
    BY <1>1
  <2> QED
    BY <2>1, LeastNumber
<1>3. back \in SUBSET Nat /\ back # {}
  BY <1>1
<1>4. PICK m \in back : \A k \in back : m <= k
  BY <1>3, LeastNumber
<1>5. PICK hi \in Solid(t) : m = Len(t) - hi
  BY <1>4
<1>6. ASSUME NEW n \in Solid(t)
      PROVE  n <= hi
  <2>1. Len(t) - hi <= Len(t) - n
    BY <1>4, <1>5
  <2> QED
    BY <1>1, <1>5, <2>1
<1>7. Bounds(t, lo, hi)
  BY <1>2, <1>6 DEF Bounds
<1>8. lo \in 1 .. Len(t) /\ hi \in 1 .. Len(t)
  BY <1>1
<1> QED
  BY <1>7, <1>8

\* A text without blanks is its own shown part.
LEMMA ShownSolid ==
  ASSUME NEW t \in Seq(Char), \A n \in 1 .. Len(t) : t[n] # Blank
  PROVE  Shown(t) = t
<1>1. Len(t) \in Nat /\ Solid(t) = 1 .. Len(t)
  BY DEF Solid
<1>2. CASE Len(t) = 0
  <2>1. t = <<>> /\ Solid(t) = {}
    BY <1>1, <1>2
  <2> QED
    BY <2>1, ShownBounds
<1>3. CASE Len(t) # 0
  <2>1. Bounds(t, 1, Len(t))
    BY <1>1, <1>3 DEF Bounds
  <2>2. Shown(t) = SubSeq(t, 1, Len(t))
    BY <1>1, <2>1, ShownBounds
  <2> QED
    BY <2>2, SubSeqFull
<1> QED
  BY <1>2, <1>3

\* Blanks in front do not belong to it.
LEMMA BlanksInFront ==
  ASSUME NEW t \in Seq(Char), NEW k \in Nat
  PROVE  Shown(Repeat(Blank, k) \o t) = Shown(t)
<1> DEFINE b == Repeat(Blank, k)
           s == b \o t
<1>1. b \in Seq(Char) /\ Len(b) = k /\ \A n \in 1 .. k : b[n] = Blank
  BY OwnChars DEF Repeat
<1> HIDE DEF b
<1>2. /\ s \in Seq(Char) /\ Len(s) = k + Len(t) /\ Len(t) \in Nat
      /\ \A n \in 1 .. k : s[n] = Blank
      /\ \A n \in 1 .. Len(t) : s[k + n] = t[n]
  <2>1. s \in Seq(Char) /\ Len(s) = k + Len(t) /\ Len(t) \in Nat /\ \A n \in 1 .. k : s[n] = Blank
    BY <1>1
  <2>2. ASSUME NEW n \in 1 .. Len(t)
        PROVE  s[k + n] = t[n]
    <3>1. k + n \in Len(b) + 1 .. Len(b) + Len(t) /\ (k + n) - Len(b) = n
      BY <1>1
    <3> QED
      BY <1>1, <3>1
  <2> QED
    BY <2>1, <2>2
<1> HIDE DEF s
<1>3. \A n \in Solid(s) : n - k \in Solid(t)
  <2>1. ASSUME NEW n \in 1 .. Len(s), s[n] # Blank
        PROVE  n - k \in 1 .. Len(t) /\ t[n - k] # Blank
    <3>1. n \notin 1 .. k
      BY <1>2, <2>1
    <3>2. n - k \in 1 .. Len(t) /\ k + (n - k) = n
      BY <1>2, <3>1
    <3> QED
      BY <1>2, <2>1, <3>2
  <2>2. DOMAIN s = 1 .. Len(s) /\ DOMAIN t = 1 .. Len(t)
    BY <1>2
  <2> QED
    BY <2>1, <2>2 DEF Solid
<1>4. \A n \in Solid(t) : k + n \in Solid(s)
  <2>1. ASSUME NEW n \in 1 .. Len(t), t[n] # Blank
        PROVE  k + n \in 1 .. Len(s) /\ s[k + n] # Blank
    BY <1>2, <2>1
  <2>2. DOMAIN s = 1 .. Len(s) /\ DOMAIN t = 1 .. Len(t)
    BY <1>2
  <2> QED
    BY <2>1, <2>2 DEF Solid
<1>5. CASE Solid(t) = {}
  <2>1. Solid(s) = {}
    BY <1>3, <1>5
  <2> QED
    BY <1>2, <1>5, <2>1, ShownBounds DEF s, b
<1>6. CASE Solid(t) # {}
  <2>1. \E lo, hi \in 1 .. Len(t) : Bounds(t, lo, hi)
    BY <1>6, HasBounds
  <2>2. PICK lo \in 1 .. Len(t) : \E hi \in 1 .. Len(t) : Bounds(t, lo, hi)
    BY <2>1
  <2>3. PICK hi \in 1 .. Len(t) : Bounds(t, lo, hi)
    BY <2>2
  <2>4. Bounds(s, k + lo, k + hi)
    <3>1. Solid(s) \subseteq Int /\ Solid(t) \subseteq Int
      BY <1>2 DEF Solid
    <3>2. \A n \in Solid(s) : k + lo <= n /\ n <= k + hi
      BY <1>3, <2>3, <3>1 DEF Bounds
    <3>3. k + lo \in Solid(s) /\ k + hi \in Solid(s)
      BY <1>4, <2>3 DEF Bounds
    <3> QED
      BY <3>2, <3>3 DEF Bounds
  <2>5. lo \in Nat /\ hi \in Nat /\ k + lo \in Nat /\ k + hi \in Nat
    OBVIOUS
  <2>6. Shown(s) = SubSeq(s, k + lo, k + hi) /\ Shown(t) = SubSeq(t, lo, hi)
    BY <1>2, <2>3, <2>4, <2>5, ShownBounds
  <2>7. SubSeq(s, k + lo, k + hi) = SubSeq(t, lo, hi)
    <3>1. \A n \in lo .. hi : t[n] \in Char
      BY <1>2
    <3>2. \A n \in k + lo .. k + hi : s[n] \in Char
      BY <1>2
    <3>3. /\ SubSeq(t, lo, hi) \in Seq(Char) /\ Len(SubSeq(t, lo, hi)) = (IF lo <= hi THEN hi - lo + 1 ELSE 0)
          /\ \A n \in 1 .. hi - lo + 1 : SubSeq(t, lo, hi)[n] = t[lo + n - 1]
      BY <3>1, SubSeqProperties
    <3> DEFINE l == k + lo
               h == k + hi
    <3>4. l \in Int /\ h \in Int /\ \A n \in l .. h : s[n] \in Char
      BY <3>2
    <3>5. l = k + lo /\ h = k + hi
      OBVIOUS
    <3> HIDE DEF l, h
    <3>6. /\ SubSeq(s, l, h) \in Seq(Char) /\ Len(SubSeq(s, l, h)) = (IF l <= h THEN h - l + 1 ELSE 0)
          /\ \A n \in 1 .. h - l + 1 : SubSeq(s, l, h)[n] = s[l + n - 1]
      BY <3>4, SubSeqProperties
    <3>7. lo <= hi /\ Len(SubSeq(t, lo, hi)) = hi - lo + 1 /\ Len(SubSeq(s, l, h)) = hi - lo + 1
      <4>1. lo <= hi
        BY <2>3 DEF Bounds
      <4> QED
        BY <3>3, <3>5, <3>6, <4>1
    <3>8. ASSUME NEW n \in 1 .. hi - lo + 1
          PROVE  SubSeq(s, l, h)[n] = SubSeq(t, lo, hi)[n]
      <4>1. n \in 1 .. h - l + 1 /\ l + n - 1 = k + (lo + n - 1) /\ lo + n - 1 \in 1 .. Len(t)
        BY <3>5
      <4>2. SubSeq(s, l, h)[n] = s[k + (lo + n - 1)]
        BY <3>6, <4>1
      <4> QED
        BY <1>2, <3>3, <4>1, <4>2
    <3>9. \A n \in 1 .. Len(SubSeq(s, l, h)) : SubSeq(s, l, h)[n] = SubSeq(t, lo, hi)[n]
      BY <3>7, <3>8
    <3> QED
      BY <3>3, <3>6, <3>7, <3>9, SeqEqual DEF l, h
  <2> QED
    BY <2>6, <2>7 DEF s, b
<1> QED
  BY <1>5, <1>6

\* Nor do blanks behind.
LEMMA BlanksBehind ==
  ASSUME NEW t \in Seq(Char), NEW k \in Nat
  PROVE  Shown(t \o Repeat(Blank, k)) = Shown(t)
<1> DEFINE b == Repeat(Blank, k)
           s == t \o b
<1>1. b \in Seq(Char) /\ Len(b) = k /\ \A n \in 1 .. k : b[n] = Blank
  BY OwnChars DEF Repeat
<1> HIDE DEF b
<1>2. /\ s \in Seq(Char) /\ Len(s) = Len(t) + k /\ Len(t) \in Nat
      /\ \A n \in 1 .. Len(t) : s[n] = t[n]
      /\ \A n \in Len(t) + 1 .. Len(t) + k : s[n] = Blank
  <2>1. s \in Seq(Char) /\ Len(s) = Len(t) + k /\ Len(t) \in Nat /\ \A n \in 1 .. Len(t) : s[n] = t[n]
    BY <1>1
  <2>2. ASSUME NEW n \in Len(t) + 1 .. Len(t) + k
        PROVE  s[n] = Blank
    <3>1. s[n] = b[n - Len(t)] /\ n - Len(t) \in 1 .. k
      BY <1>1
    <3> QED
      BY <1>1, <3>1
  <2> QED
    BY <2>1, <2>2
<1> HIDE DEF s
<1>3. Solid(s) = Solid(t)
  <2>1. \A n \in 1 .. Len(s) : s[n] # Blank <=> n \in 1 .. Len(t) /\ t[n] # Blank
    BY <1>2
  <2>2. DOMAIN s = 1 .. Len(s) /\ DOMAIN t = 1 .. Len(t) /\ 1 .. Len(t) \subseteq 1 .. Len(s)
    BY <1>2
  <2> QED
    BY <2>1, <2>2 DEF Solid
<1>4. CASE Solid(t) = {}
  BY <1>2, <1>3, <1>4, ShownBounds DEF s, b
<1>5. CASE Solid(t) # {}
  <2>1. \E lo, hi \in 1 .. Len(t) : Bounds(t, lo, hi)
    BY <1>5, HasBounds
  <2>2. PICK lo \in 1 .. Len(t) : \E hi \in 1 .. Len(t) : Bounds(t, lo, hi)
    BY <2>1
  <2>3. PICK hi \in 1 .. Len(t) : Bounds(t, lo, hi)
    BY <2>2
  <2>4. Bounds(s, lo, hi)
    BY <1>3, <2>3 DEF Bounds
  <2>5. lo \in Nat /\ hi \in Nat /\ lo \in Int /\ hi \in Int
    OBVIOUS
  <2>6. Shown(s) = SubSeq(s, lo, hi) /\ Shown(t) = SubSeq(t, lo, hi)
    BY <1>2, <2>3, <2>4, <2>5, ShownBounds
  <2>7. \A n \in lo .. hi : t[n] \in Char /\ s[n] = t[n]
    BY <1>2
  <2>8. SubSeq(s, lo, hi) = SubSeq(t, lo, hi)
    BY <2>5, <2>7
  <2> QED
    BY <2>6, <2>8 DEF s, b
<1> QED
  BY <1>4, <1>5

\* Padding with blanks does not change what is shown.
LEMMA ShownPadded ==
  ASSUME NEW t \in Seq(Char), NEW n \in Int, NEW side
  PROVE  Shown(padd(t, n, Blank, side)) = Shown(t)
<1>1. CASE n <= 0
  BY <1>1 DEF padd
<1>2. CASE ~(n <= 0)
  <2>1. n \in Nat
    BY <1>2
  <2> QED
    BY <1>2, <2>1, BlanksInFront, BlanksBehind DEF padd
<1> QED
  BY <1>1, <1>2

-----------------------------------------------------------------------------
\* What a number looks like: a sign or a prefix, zeros, its digits.
LEMMA NoDigits ==
  /\ HexChars \subseteq Char /\ "0" \in HexChars
  /\ Blank \notin HexChars /\ "-" \notin HexChars /\ "+" \notin HexChars
  /\ "x" \notin HexChars /\ "X" \notin HexChars
<1>1. HexChars = DigitChars \cup {"A", "B", "C", "D", "E", "F"}
  BY HexFacts
<1>2. Blank \notin HexChars
  <2>1. Blank \notin {"0", "1", "2", "3", "4", "5", "6", "7", "8", "9", "a", "b", "c", "d", "e", "f",
                      "A", "B", "C", "D", "E", "F"}
    BY Zenon DEF Blank
  <2> QED
    BY <1>1, <2>1 DEF DigitChars
<1> QED
  BY <1>1, <1>2, CharsAreNoMarks DEF DigitChars, Letters

Signs == {<<>>, <<"-">>, <<"+">>}

\* A sign is short, and not a blank.
LEMMA SignIs ==
  ASSUME NEW s \in Signs \cup {<<Blank>>}
  PROVE  s \in Seq(Char) /\ Len(s) \in 0 .. 1 /\ (s \in Signs => \A n \in 1 .. Len(s) : s[n] # Blank)
<1>1. s = <<>> \/ s = <<"-">> \/ s = <<"+">> \/ s = <<Blank>>
  BY Zenon DEF Signs
<1>2. s \in Seq(Char) /\ Len(s) \in 0 .. 1
  <2>1. CASE s = <<>>
    BY <2>1
  <2>2. ASSUME NEW c \in Char, s = <<c>>
        PROVE  s \in Seq(Char) /\ Len(s) \in 0 .. 1
    BY <2>2
  <2> QED
    BY <1>1, <2>1, <2>2, OwnChars
<1>3. ASSUME s \in Signs
      PROVE  \A n \in 1 .. Len(s) : s[n] # Blank
  <2>1. s = <<>> \/ s = <<"-">> \/ s = <<"+">>
    BY <1>3, Zenon DEF Signs
  <2> QED
    BY <2>1, NamedChars
<1> QED
  BY <1>2, <1>3

\* A sign in front is shown, but for a blank.
LEMMA SignShown ==
  ASSUME NEW y \in Seq(HexChars)
  PROVE  /\ \A s \in Signs : Shown(s \o y) = s \o y /\ s \o y \in Seq(Char)
         /\ Shown(<<Blank>> \o y) = y
<1>1. y \in Seq(Char) /\ Len(y) \in Nat /\ \A n \in 1 .. Len(y) : y[n] # Blank
  BY NoDigits
<1>2. ASSUME NEW s \in Signs
      PROVE  Shown(s \o y) = s \o y /\ s \o y \in Seq(Char)
  <2>1. s \in Seq(Char) /\ Len(s) \in 0 .. 1 /\ \A n \in 1 .. Len(s) : s[n] # Blank
    BY SignIs
  <2>2. s \o y \in Seq(Char) /\ Len(s \o y) = Len(s) + Len(y)
    BY <1>1, <2>1
  <2>3. ASSUME NEW n \in 1 .. Len(s) + Len(y)
        PROVE  (s \o y)[n] # Blank
    <3>1. CASE n <= Len(s)
      BY <1>1, <2>1, <3>1
    <3>2. CASE n > Len(s)
      <4>1. (s \o y)[n] = y[n - Len(s)] /\ n - Len(s) \in 1 .. Len(y)
        BY <1>1, <2>1, <3>2
      <4> QED
        BY <1>1, <4>1
    <3> QED
      BY <2>1, <3>1, <3>2
  <2> QED
    BY <2>2, <2>3, ShownSolid
<1>3. Shown(<<Blank>> \o y) = y
  <2>1. Repeat(Blank, 1) = <<Blank>>
    BY DEF Repeat
  <2>2. Shown(Repeat(Blank, 1) \o y) = Shown(y)
    BY <1>1, BlanksInFront
  <2> QED
    BY <1>1, <2>1, <2>2, ShownSolid
<1> QED
  BY <1>2, <1>3

\* Padding with zeros on the left puts some in front.
LEMMA PaddZeros ==
  ASSUME NEW t \in Seq(HexChars), NEW n \in Int
  PROVE  \E k \in Nat : padd(t, n, "0", "L") = Repeat("0", k) \o t /\ n <= k
<1>1. CASE n <= 0
  <2>1. Repeat("0", 0) = <<>>
    BY DEF Repeat
  <2>2. padd(t, n, "0", "L") = Repeat("0", 0) \o t
    BY <1>1, <2>1 DEF padd
  <2> QED
    BY <1>1, <2>2
<1>2. CASE ~(n <= 0)
  <2>1. n \in Nat /\ padd(t, n, "0", "L") = Repeat("0", n) \o t
    BY <1>2 DEF padd
  <2> QED
    BY <2>1
<1> QED
  BY <1>1, <1>2

\* ft_numeric shows a sign, zeros and the digits it was given.
LEMMA NumericShown ==
  ASSUME NEW d \in Directive, NEW s0 \in {<<>>, <<"-">>}, NEW b \in Seq(HexChars),
         d.spec = "u" => s0 = <<>>
  PROVE  \E s \in Signs, k \in Nat :
           /\ Shown(ft_numeric(d, s0 \o b)) = s \o (Repeat("0", k) \o b)
           /\ (s = <<"-">> <=> s0 = <<"-">>) /\ (d.spec = "u" => s = <<>>)
<1> DEFINE t    == s0 \o b
           put  == SignPut(d, t)
           all  == put \o t
           pad  == d.width - Len(all)
           sign == IF Negative(t) \/ put # <<>> THEN 1 ELSE 0
           side == IF "MINUS" \in d.flag THEN "R" ELSE "L"
           f    == put \o s0
<1>1. /\ b \in Seq(Char) /\ s0 \in Seq(Char) /\ t \in Seq(Char)
      /\ (Negative(t) <=> s0 = <<"-">>)
  <2>1. b \in Seq(Char) /\ s0 \in Seq(Char) /\ (b # <<>> => b[1] # "-")
    <3>1. b \in Seq(Char) /\ (b # <<>> => b[1] \in HexChars)
      BY NoDigits
    <3>2. s0 \in Signs \cup {<<Blank>>}
      BY Zenon DEF Signs
    <3> QED
      BY <3>1, <3>2, NoDigits, SignIs
  <2>2. CASE s0 = <<>>
    <3>1. t = b
      BY <2>1, <2>2
    <3> QED
      BY <2>1, <2>2, <3>1 DEF Negative
  <2>3. CASE s0 = <<"-">>
    <3>1. t \in Seq(Char) /\ Len(t) = 1 + Len(b) /\ t[1] = "-" /\ Len(b) \in Nat
      BY <2>1, <2>3
    <3>2. t # <<>>
      BY <3>1
    <3> QED
      BY <2>1, <2>3, <3>1, <3>2 DEF Negative
  <2> QED
    BY <2>2, <2>3
<1>2. /\ put \in {<<>>, <<"+">>, <<Blank>>} /\ (s0 = <<"-">> => put = <<>>)
      /\ (d.spec = "u" => put = <<>>)
  BY <1>1, Zenon DEF SignPut
<1>3. ft_numeric(d, t) = IF "ZERO" \in d.flag /\ all # NaN /\ all \notin Infs
                           THEN SubSeq(all, 1, sign) \o padd(Drop(all, sign), pad, "0", "L")
                         ELSE padd(all, pad, Blank, side)
  BY DEF ft_numeric
<1>4. /\ all = f \o b /\ f \in Signs \cup {<<Blank>>} /\ f \in Seq(Char) /\ sign = Len(f)
      /\ Len(f) \in 0 .. 1 /\ (f = <<"-">> <=> s0 = <<"-">>) /\ (d.spec = "u" => f = <<>>)
  <2>1. put = <<>> \/ put = <<"+">> \/ put = <<Blank>>
    BY <1>2, Zenon
  <2>2. s0 = <<>> \/ s0 = <<"-">>
    BY Zenon
  <2>3. put \in Seq(Char)
    <3>1. put \in Signs \cup {<<Blank>>}
      BY <2>1, Zenon DEF Signs
    <3> QED
      BY <3>1, SignIs
  <2> HIDE DEF put, t
  <2>4. /\ f = (IF put = <<>> THEN s0 ELSE put)
        /\ f \in Signs \cup {<<Blank>>} /\ sign = (IF f = <<>> THEN 0 ELSE 1)
        /\ (f = <<"-">> <=> s0 = <<"-">>) /\ (d.spec = "u" => f = <<>>)
    <3>1. CASE put = <<>>
      <4>1. f = s0
        BY <1>1, <3>1
      <4>2. Negative(t) <=> f # <<>>
        BY <1>1, <2>2, <4>1
      <4> HIDE DEF f
      <4>3. f \in Signs
        BY <2>2, <4>1, Zenon DEF Signs
      <4> QED
        BY <3>1, <4>1, <4>2, <4>3, Zenon
    <3>2. CASE put # <<>>
      <4>1. s0 = <<>>
        BY <1>2, <2>2, <3>2, Zenon
      <4>2. f = put
        BY <2>3, <4>1
      <4> HIDE DEF f
      <4>3. f \in Signs \cup {<<Blank>>}
        BY <2>1, <3>2, <4>2, Zenon DEF Signs
      <4>4. f # <<"-">>
        BY <2>1, <4>2, NamedChars, SMTT(30)
      <4>5. s0 # <<"-">>
        BY <4>1
      <4> QED
        BY <1>2, <3>2, <4>2, <4>3, <4>4, <4>5, Zenon
    <3> QED
      BY <3>1, <3>2
  <2>5. all = f \o b
    BY <1>1, <2>3, ConcatAssociative, SMTT(60) DEF t
  <2> HIDE DEF f, all, sign
  <2>6. f \in Seq(Char) /\ Len(f) \in 0 .. 1
    BY <2>4, SignIs
  <2>7. sign = Len(f)
    <3>1. f = <<>> => Len(f) = 0
      OBVIOUS
    <3>2. f # <<>> => Len(f) = 1
      BY <2>6
    <3> QED
      BY <2>4, <3>1, <3>2, Zenon
  <2> QED
    BY <2>4, <2>5, <2>6, <2>7, Zenon
<1>5. pad \in Int
  <2>1. all \in Seq(Char) /\ d.width \in Int
    <3> HIDE DEF all, f
    <3> QED
      BY <1>1, <1>4 DEF Directive
  <2> HIDE DEF all
  <2> QED
    BY <2>1
<1> HIDE DEF put, pad, side
<1> HIDE DEF all, f, sign, t
<1>6. \E k \in Nat : Shown(ft_numeric(d, t)) = Shown(f \o (Repeat("0", k) \o b))
  <2>1. CASE "ZERO" \in d.flag /\ all # NaN /\ all \notin Infs
    <3>1. SubSeq(all, 1, sign) = f
      BY <1>1, <1>4
    <3>2. Drop(all, sign) = b
      <4>1. Len(all) = Len(f) + Len(b) /\ Len(b) \in Nat
        BY <1>1, <1>4
      <4>2. SubSeq(f \o b, Len(f) + 1, Len(f) + Len(b)) = b
        BY <1>1, <1>4
      <4> QED
        BY <1>4, <4>1, <4>2 DEF Drop
    <3>3. PICK k \in Nat : padd(b, pad, "0", "L") = Repeat("0", k) \o b
      BY <1>5, PaddZeros
    <3>4. ft_numeric(d, t) = f \o (Repeat("0", k) \o b)
      BY <1>3, <2>1, <3>1, <3>2, <3>3
    <3> QED
      BY <3>4
  <2>2. CASE ~("ZERO" \in d.flag /\ all # NaN /\ all \notin Infs)
    <3>1. ft_numeric(d, t) = padd(f \o b, pad, Blank, side)
      BY <1>3, <1>4, <2>2
    <3>2. f \o b \in Seq(Char)
      BY <1>1, <1>4
    <3>3. Repeat("0", 0) \o b = b
      <4>1. Repeat("0", 0) = <<>>
        BY DEF Repeat
      <4> QED
        BY <4>1
    <3>4. Shown(ft_numeric(d, t)) = Shown(f \o (Repeat("0", 0) \o b))
      <4> DEFINE fb == f \o b
      <4>1. Shown(padd(fb, pad, Blank, side)) = Shown(fb)
        <5> HIDE DEF fb
        <5> QED
          BY <1>5, <3>2, ShownPadded DEF fb
      <4> QED
        BY <3>1, <3>3, <4>1
    <3> QED
      BY <3>4
  <2> QED
    BY <2>1, <2>2
<1>7. PICK k \in Nat : Shown(ft_numeric(d, t)) = Shown(f \o (Repeat("0", k) \o b))
  BY <1>6
<1> DEFINE y == Repeat("0", k) \o b
<1>8. y \in Seq(HexChars)
  <2>1. 10 \in 2 .. 16
    OBVIOUS
  <2> QED
    BY <2>1, ZerosInFront
<1>9. Shown(ft_numeric(d, t)) = Shown(f \o y)
  BY <1>7
<1> HIDE DEF y
<1>10. CASE f \in Signs
  <2>1. Shown(f \o y) = f \o y
    BY <1>8, <1>10, SignShown
  <2> QED
    BY <1>4, <1>9, <1>10, <2>1 DEF y, t
<1>11. CASE f = <<Blank>>
  <2>1. Shown(f \o y) = <<>> \o y /\ <<>> \in Signs
    BY <1>8, <1>11, SignShown DEF Signs
  <2>2. s0 # <<"-">>
    BY <1>4, <1>11, NamedChars
  <2> QED
    BY <1>9, <2>1, <2>2 DEF y, t
<1> QED
  BY <1>4, <1>10, <1>11

\* The digits that a conversion writes; what its prefix ends in is none of them.
Body(s) == IF s = "b" THEN {"0", "1"} ELSE HexChars
IsPrefix(s, pre) == pre = <<>> \/ \E x \in PrefixEnds[s] : pre = <<"0", x>>

\* The letters of a prefix are no digits of the base it stands for.
LEMMA BodyFacts ==
  ASSUME NEW s \in SpecsPOUBX
  PROVE  /\ Body(s) \subseteq HexChars /\ "0" \in Body(s)
         /\ \A x \in PrefixEnds[s] : x \in {"x", "X", "b"} /\ x \notin Body(s)
<1>1. "0" \in HexChars /\ "1" \in HexChars
  BY HexFacts DEF DigitChars
<1>2. /\ PrefixEnds["x"] = {"x"} /\ PrefixEnds["X"] = {"X"} /\ PrefixEnds["p"] = {"x"}
      /\ PrefixEnds["b"] = {"b"} /\ PrefixEnds["o"] = {} /\ PrefixEnds["u"] = {}
  BY DEF PrefixEnds
<1>3. Body(s) \subseteq HexChars /\ "0" \in Body(s)
  BY <1>1 DEF Body
<1>4. CASE s = "b"
  BY <1>2, <1>3, <1>4 DEF Body
<1>5. CASE s # "b"
  BY <1>2, <1>3, <1>5, NoDigits DEF Body, SpecsPOUBX
<1> QED
  BY <1>3, <1>4, <1>5

\* Zeros in front do not change the value of digits.
LEMMA ZeroPadded ==
  ASSUME NEW S \in SUBSET HexChars, "0" \in S, NEW t \in Seq(S), NEW n \in Int, NEW side,
         NEW base \in 2 .. 16
  PROVE  /\ padd(t, n, "0", side) \in Seq(S) /\ Len(padd(t, n, "0", side)) >= Len(t)
         /\ side # "R" => ValueOf(padd(t, n, "0", side), base) = ValueOf(t, base)
<1>1. t \in Seq(HexChars) /\ Len(t) \in Nat
  OBVIOUS
<1>2. CASE n <= 0
  BY <1>1, <1>2 DEF padd
<1>3. CASE ~(n <= 0)
  <2> DEFINE z == Repeat("0", n)
  <2>1. n \in Nat /\ z \in Seq(S) /\ Len(z) = n
    BY <1>3 DEF Repeat
  <2>2. padd(t, n, "0", side) = IF side = "R" THEN t \o z ELSE z \o t
    BY <1>3 DEF padd
  <2>3. ValueOf(z \o t, base) = ValueOf(t, base)
    BY <1>1, <2>1, ZerosInFront
  <2> HIDE DEF z
  <2>4. /\ t \o z \in Seq(S) /\ Len(t \o z) = Len(t) + n
        /\ z \o t \in Seq(S) /\ Len(z \o t) = Len(t) + n
    BY <1>1, <2>1
  <2>5. CASE side = "R"
    <3>1. padd(t, n, "0", side) = t \o z
      BY <2>2, <2>5
    <3>2. Len(t \o z) >= Len(t)
      BY <1>1, <2>1, <2>4
    <3> QED
      BY <2>4, <2>5, <3>1, <3>2, Zenon
  <2>6. CASE side # "R"
    <3>1. padd(t, n, "0", side) = z \o t
      BY <2>2, <2>6
    <3>2. Len(z \o t) >= Len(t)
      BY <1>1, <2>1, <2>4
    <3> QED
      BY <2>3, <2>4, <3>1, <3>2, Zenon
  <2> QED
    BY <2>5, <2>6
<1> QED
  BY <1>2, <1>3

\* The prefix is that of the specifier, or one zero, and there is none
\* without the flag.
LEMMA PrefixIs ==
  ASSUME NEW d \in Directive, d.spec \in SpecsPOUBX, NEW t, NEW u
  PROVE  /\ IsPrefix(d.spec, get_prefix(d, t, u)) \/ get_prefix(d, t, u) = <<"0">>
         /\ d.spec # "p" /\ "HASH" \notin d.flag => get_prefix(d, t, u) = <<>>
<1> DEFINE pre == get_prefix(d, t, u)
<1>1. CASE d.spec = "p"
  <2>1. pre = <<"0", "x">> /\ "x" \in PrefixEnds["p"]
    BY <1>1 DEF get_prefix, PrefixEnds
  <2> QED
    BY <1>1, <2>1 DEF IsPrefix
<1>2. CASE d.spec # "p" /\ "HASH" \notin d.flag
  BY <1>2 DEF get_prefix, IsPrefix
<1>3. CASE d.spec \in {"x", "X"} /\ "HASH" \in d.flag
  <2>1. (pre = <<>> \/ pre = <<"0", d.spec>>) /\ d.spec \in PrefixEnds[d.spec]
    BY <1>3 DEF get_prefix, PrefixEnds
  <2> QED
    BY <1>3, <2>1 DEF IsPrefix
<1>4. CASE d.spec = "o" /\ "HASH" \in d.flag
  BY <1>4, Zenon DEF get_prefix, IsPrefix
<1>5. CASE d.spec = "b" /\ "HASH" \in d.flag
  <2>1. pre = <<"0", "b">> /\ "b" \in PrefixEnds["b"]
    BY <1>5 DEF get_prefix, PrefixEnds
  <2> QED
    BY <1>5, <2>1 DEF IsPrefix
<1>6. CASE d.spec = "u" /\ "HASH" \in d.flag
  BY <1>6 DEF get_prefix, IsPrefix
<1> QED
  BY <1>1, <1>2, <1>3, <1>4, <1>5, <1>6 DEF SpecsPOUBX

\* A prefix and the digits behind it are shown as they are, and where the
\* prefix ends can be seen.
LEMMA PrefixShown ==
  ASSUME NEW s \in SpecsPOUBX, NEW y \in Seq(Body(s)), NEW pre, IsPrefix(s, pre)
  PROVE  /\ Shown(pre \o y) = pre \o y /\ pre \o y \in Seq(Char)
         /\ pre \o y # <<>> => (pre \o y)[1] \in HexChars
         /\ pre # <<>> => Len(pre) = 2 /\ Len(pre \o y) > 1 /\ (pre \o y)[2] \in PrefixEnds[s]
         /\ pre = <<>> /\ Len(y) > 1 => y[2] \notin PrefixEnds[s]
<1>1. /\ y \in Seq(HexChars) /\ y \in Seq(Char) /\ Len(y) \in Nat
      /\ \A n \in 1 .. Len(y) : y[n] \in Body(s) /\ y[n] \in HexChars /\ y[n] # Blank
  BY BodyFacts, NoDigits
<1>2. CASE pre = <<>>
  <2>1. pre \o y = y
    BY <1>1, <1>2
  <2>2. Shown(y) = y
    BY <1>1, ShownSolid
  <2>3. Len(y) > 1 => y[2] \notin PrefixEnds[s]
    BY <1>1, BodyFacts
  <2>4. y # <<>> => y[1] \in HexChars
    BY <1>1
  <2> QED
    BY <1>1, <1>2, <2>1, <2>2, <2>3, <2>4
<1>3. ASSUME NEW x \in PrefixEnds[s], pre = <<"0", x>>
      PROVE  /\ Shown(pre \o y) = pre \o y /\ pre \o y \in Seq(Char)
             /\ (pre \o y)[1] \in HexChars /\ pre # <<>>
             /\ Len(pre) = 2 /\ Len(pre \o y) > 1 /\ (pre \o y)[2] \in PrefixEnds[s]
  <2> DEFINE w == pre \o y
  <2>1. x \in Char /\ x # Blank /\ "0" \in Char /\ "0" # Blank /\ "0" \in HexChars
    <3>1. x \in {"x", "X", "b"}
      BY BodyFacts
    <3>2. Blank \notin {"x", "X", "b", "0"}
      BY Zenon DEF Blank
    <3> QED
      BY <3>1, <3>2, OwnChars, NoDigits
  <2>2. /\ pre \in Seq(Char) /\ Len(pre) = 2 /\ pre[1] = "0" /\ pre[2] = x
    BY <1>3, <2>1
  <2> HIDE <1>3
  <2>3. w \in Seq(Char) /\ Len(w) = 2 + Len(y) /\ w[1] = "0" /\ w[2] = x
    <3>1. /\ w \in Seq(Char) /\ Len(w) = Len(pre) + Len(y)
          /\ \A n \in 1 .. Len(pre) + Len(y) : w[n] = IF n <= Len(pre) THEN pre[n] ELSE y[n - Len(pre)]
      BY <1>1, <2>2, ConcatProperties
    <3> HIDE DEF w
    <3> QED
      BY <1>1, <2>2, <3>1
  <2>4. ASSUME NEW n \in 1 .. Len(w)
        PROVE  w[n] # Blank
    <3>1. CASE n \in 1 .. 2
      BY <2>1, <2>3, <3>1
    <3>2. CASE n \notin 1 .. 2
      <4>1. w[n] = y[n - 2] /\ n - 2 \in 1 .. Len(y)
        BY <1>1, <2>2, <2>3, <3>2
      <4> QED
        BY <1>1, <4>1
    <3> QED
      BY <3>1, <3>2
  <2> HIDE DEF w
  <2>5. Shown(w) = w
    BY <2>3, <2>4, ShownSolid
  <2>6. pre # <<>> /\ Len(w) > 1
    BY <1>1, <2>2, <2>3
  <2> QED
    BY <2>1, <2>2, <2>3, <2>5, <2>6 DEF w
<1>4. pre = <<>> \/ \E x \in PrefixEnds[s] : pre = <<"0", x>>
  BY DEF IsPrefix
<1>5. CASE pre # <<>>
  <2>1. PICK x \in PrefixEnds[s] : pre = <<"0", x>>
    BY <1>4, <1>5
  <2> QED
    BY <1>3, <2>1
<1> QED
  BY <1>2, <1>5

\* A text shows a prefix at most and then n digits or more, which denote v unless
\* zeros were put behind them.
ShowsPrefixed(d, text, n, v, base) ==
  \E y \in Seq(Body(d.spec)), pre \in Seq(Char) :
    /\ IsPrefix(d.spec, pre) /\ Shown(text) = pre \o y
    /\ Len(y) >= n
    /\ ~({"MINUS", "ZERO"} \subseteq d.flag) => ValueOf(y, base) = v

\* ft_alternate shows a prefix, zeros and the digits it was given.
LEMMA AlternateShown ==
  ASSUME NEW d \in Directive, d.spec \in SpecsPOUBX, NEW t \in Seq(Body(d.spec)), NEW u,
         NEW base \in 2 .. 16
  PROVE  ShowsPrefixed(d, ft_alternate(d, t, u), Len(t), ValueOf(t, base), base)
<1> SUFFICES \E y \in Seq(Body(d.spec)), pre \in Seq(Char) :
               /\ IsPrefix(d.spec, pre) /\ Shown(ft_alternate(d, t, u)) = pre \o y
               /\ Len(y) >= Len(t)
               /\ ~({"MINUS", "ZERO"} \subseteq d.flag) => ValueOf(y, base) = ValueOf(t, base)
  BY DEF ShowsPrefixed
<1> DEFINE S    == Body(d.spec)
           own  == get_prefix(d, t, u)
           pad  == d.width - (Len(t) + Len(own))
           side == IF "MINUS" \in d.flag THEN "R" ELSE "L"
           Same(z) == ~({"MINUS", "ZERO"} \subseteq d.flag) => ValueOf(z, base) = ValueOf(t, base)
<1>1. /\ S \in SUBSET HexChars /\ "0" \in S /\ Seq(S) \subseteq Seq(HexChars) /\ Seq(S) \subseteq Seq(Char)
      /\ own \in Seq(Char) /\ Len(t) \in Nat /\ pad \in Int /\ t \in Seq(Char)
  <2>1. S \in SUBSET HexChars /\ "0" \in S /\ S \subseteq Char
    BY BodyFacts, NoDigits
  <2>2. own \in Seq(Char) /\ Len(own) \in Nat /\ d.width \in Int /\ Len(t) \in Nat
    BY PrefixType, <2>1 DEF Directive
  <2> HIDE DEF S, own
  <2> QED
    BY <2>1, <2>2 DEF S
<1>2. ft_alternate(d, t, u) = IF "ZERO" \in d.flag THEN own \o padd(t, pad, "0", side)
                              ELSE padd(own \o t, pad, Blank, side)
  BY DEF ft_alternate
<1>3. IsPrefix(d.spec, own) \/ own = <<"0">>
  BY PrefixIs
<1> HIDE DEF own, pad, S
<1>4. \E z \in Seq(S) : /\ Shown(ft_alternate(d, t, u)) = Shown(own \o z)
                        /\ Len(z) >= Len(t) /\ Same(z)
  <2>1. CASE "ZERO" \in d.flag
    <3> DEFINE z == padd(t, pad, "0", side)
    <3>1. z \in Seq(S) /\ Len(z) >= Len(t) /\ (side # "R" => ValueOf(z, base) = ValueOf(t, base))
      <4> HIDE DEF side
      <4> QED
        BY <1>1, ZeroPadded, SMTT(30) DEF S
    <3>2. ft_alternate(d, t, u) = own \o z
      BY <1>2, <2>1
    <3>3. ~({"MINUS", "ZERO"} \subseteq d.flag) => side # "R"
      BY <2>1
    <3> HIDE DEF z
    <3> QED
      BY <3>1, <3>2, <3>3
  <2>2. CASE "ZERO" \notin d.flag
    <3>1. own \o t \in Seq(Char)
      BY <1>1
    <3> DEFINE w == own \o t
    <3>2. Shown(padd(w, pad, Blank, side)) = Shown(w)
      <4> HIDE DEF w, side
      <4> QED
        BY <1>1, <3>1, ShownPadded DEF w
    <3>3. Shown(ft_alternate(d, t, u)) = Shown(own \o t)
      BY <1>2, <2>2, <3>2
    <3> QED
      BY <1>1, <3>3 DEF S
  <2> QED
    BY <2>1, <2>2
<1>5. PICK z \in Seq(S) : /\ Shown(ft_alternate(d, t, u)) = Shown(own \o z)
                          /\ Len(z) >= Len(t) /\ Same(z)
  BY <1>4
<1>6. CASE IsPrefix(d.spec, own)
  <2>1. Shown(own \o z) = own \o z
    BY <1>6, PrefixShown DEF S
  <2> QED
    BY <1>1, <1>5, <1>6, <2>1 DEF S
<1>7. CASE own = <<"0">>
  <2> DEFINE y == Repeat("0", 1) \o z
             none == <<>>
  <2>1. z \in Seq(HexChars)
    BY <1>1
  <2>2. Len(y) = 1 + Len(z) /\ ValueOf(y, base) = ValueOf(z, base)
    BY <2>1, ZerosInFront
  <2>3. Repeat("0", 1) = <<"0">> /\ Repeat("0", 1) \in Seq(S)
    BY <1>1 DEF Repeat
  <2>4. y \in Seq(S) /\ own \o z = y
    <3>1. own \o z = y
      BY <1>7, <2>3
    <3>2. y \in Seq(S)
      <4> DEFINE zero == Repeat("0", 1)
      <4> HIDE DEF zero
      <4> QED
        BY <2>3, ConcatProperties DEF zero
    <3> QED
      BY <3>1, <3>2
  <2>5. none \in Seq(Char) /\ IsPrefix(d.spec, none)
    BY DEF IsPrefix
  <2>6. none \o y = y
    <3> HIDE DEF y
    <3> QED
      BY <2>4
  <2> HIDE DEF y, none
  <2>7. Shown(own \o z) = none \o y
    BY <2>4, <2>5, <2>6, PrefixShown DEF S
  <2>8. Len(y) >= Len(t)
    <3>1. Len(z) \in Nat
      OBVIOUS
    <3> QED
      BY <1>1, <1>5, <2>2, <3>1
  <2>9. Same(y)
    BY <1>5, <2>2
  <2> QED
    BY <1>5, <2>4, <2>5, <2>7, <2>8, <2>9 DEF S
<1> QED
  BY <1>3, <1>6, <1>7

\* The digits of ft_ltoa_base denote its argument.
LEMMA BaseValue ==
  ASSUME NEW d \in Directive, d.spec \in SpecsPOUBX, NEW n \in Nat
  PROVE  /\ ft_base(d, n) \in Seq(Body(d.spec)) /\ Base[d.spec] \in 2 .. 16
         /\ ValueOf(ft_base(d, n), Base[d.spec]) = n
<1>1. /\ Base["x"] = 16 /\ Base["X"] = 16 /\ Base["p"] = 16
      /\ Base["b"] = 2 /\ Base["o"] = 8 /\ Base["u"] = 10
  BY DEF Base
<1>2. Base[d.spec] \in 2 .. 16 /\ 16 \in 2 .. 16 /\ (d.spec = "b" <=> Base[d.spec] = 2)
  BY <1>1 DEF SpecsPOUBX
<1>3. CASE d.spec = "X"
  <2>1. ft_base(d, n) = ft_strupper(Numeral(n, 16))
    BY <1>3 DEF ft_base
  <2>2. Numeral(n, 16) \in Seq(DigitChars) /\ ValueOf(Numeral(n, 16), 16) = n
    BY <1>2, NumeralType, NumeralValue
  <2>3. ft_base(d, n) \in Seq(HexChars) /\ ValueOf(ft_base(d, n), 16) = n
    BY <1>2, <2>1, <2>2, UpperValue
  <2> QED
    BY <1>1, <1>2, <1>3, <2>3 DEF Body
<1>4. CASE d.spec # "X"
  <2> DEFINE base == Base[d.spec]
  <2>1. ft_base(d, n) = Numeral(n, base)
    BY <1>4 DEF ft_base
  <2> HIDE DEF base
  <2>2. base \in 2 .. 16 /\ (d.spec = "b" <=> base = 2)
    BY <1>2 DEF base
  <2>3. /\ Numeral(n, base) \in Seq(HexChars) /\ ValueOf(Numeral(n, base), base) = n
        /\ base = 2 => Numeral(n, base) \in Seq({"0", "1"})
    BY <2>2, NumeralValue
  <2>4. Numeral(n, base) \in Seq(Body(d.spec))
    BY <2>2, <2>3 DEF Body
  <2> QED
    BY <2>1, <2>2, <2>3, <2>4 DEF base
<1> QED
  BY <1>3, <1>4

\* The precision puts zeros in front until there are enough digits.
LEMMA PreciseDigits ==
  ASSUME NEW S \in SUBSET HexChars, "0" \in S, NEW t \in Seq(S), NEW p \in Int, NEW base \in 2 .. 16
  PROVE  LET y == padd(t, p - Len(t), "0", "L")
         IN y \in Seq(S) /\ Len(y) >= p /\ ValueOf(y, base) = ValueOf(t, base)
<1> DEFINE n == p - Len(t)
<1>1. Len(t) \in Nat /\ n \in Int /\ t \in Seq(Char) /\ "0" \in Char /\ n + Len(t) = p
  BY NoDigits
<1> HIDE DEF n
<1> DEFINE y == padd(t, n, "0", "L")
<1>2. y \in Seq(S) /\ ValueOf(y, base) = ValueOf(t, base)
  BY <1>1, ZeroPadded, SMTT(30)
<1>3. Len(y) = Len(t) + (IF n <= 0 THEN 0 ELSE n)
  BY <1>1, PaddType
<1>4. Len(y) >= p
  BY <1>1, <1>3
<1> QED
  BY <1>2, <1>4 DEF n

\* No digits at all denote 0 in every base.
LEMMA NoneDenotesZero ==
  ASSUME NEW S
  PROVE  <<>> \in Seq(S) /\ Len(<<>>) = 0 /\ \A base \in 2 .. 16 : ValueOf(<<>>, base) = 0
BY ValueOfNone

\* The text of an unsigned number before it gets its width.
LEMMA UnsignedText ==
  ASSUME NEW d \in Directive, d.spec \in SpecsPOUBX, NEW u \in Nat
  PROVE  LET t == ft_precision(d, IF u = 0 /\ d.precision = 0 THEN <<>> ELSE ft_base(d, u))
         IN /\ t \in Seq(Body(d.spec)) /\ Len(t) >= d.precision
            /\ ValueOf(t, Base[d.spec]) = u /\ Base[d.spec] \in 2 .. 16
<1> DEFINE t0   == IF u = 0 /\ d.precision = 0 THEN <<>> ELSE ft_base(d, u)
           S    == Body(d.spec)
           base == Base[d.spec]
<1>1. base \in 2 .. 16 /\ S \in SUBSET HexChars /\ "0" \in S /\ d.precision \in Int
  BY BaseValue, BodyFacts DEF Directive
<1>2. t0 \in Seq(S) /\ ValueOf(t0, base) = u
  <2>1. CASE u = 0 /\ d.precision = 0
    BY <1>1, <2>1, NoneDenotesZero
  <2>2. CASE ~(u = 0 /\ d.precision = 0)
    BY <2>2, BaseValue
  <2> QED
    BY <2>1, <2>2
<1> HIDE DEF t0, S, base
<1>3. ft_precision(d, t0) = padd(t0, d.precision - Len(t0), "0", "L")
  <2>1. d.spec # "s"
    BY DEF SpecsPOUBX
  <2> QED
    BY <2>1 DEF ft_precision
<1> DEFINE y == padd(t0, d.precision - Len(t0), "0", "L")
<1>4. y \in Seq(S) /\ Len(y) >= d.precision /\ ValueOf(y, base) = ValueOf(t0, base)
  BY <1>1, <1>2, PreciseDigits
<1> QED
  BY <1>1, <1>2, <1>3, <1>4 DEF t0, S, base

\* ft_print_poubx shows digits that denote the argument.
LEMMA UnsignedShown ==
  ASSUME NEW d \in Directive, d.spec \in SpecsPOUBX, NEW u \in Nat
  PROVE  ShowsPrefixed(d, ft_print_poubx(d, u), d.precision, u, Base[d.spec])
<1> SUFFICES \E y \in Seq(Body(d.spec)), pre \in Seq(Char) :
               /\ IsPrefix(d.spec, pre) /\ Shown(ft_print_poubx(d, u)) = pre \o y
               /\ Len(y) >= d.precision
               /\ ~({"MINUS", "ZERO"} \subseteq d.flag) => ValueOf(y, Base[d.spec]) = u
  BY DEF ShowsPrefixed
<1> DEFINE t    == ft_precision(d, IF u = 0 /\ d.precision = 0 THEN <<>> ELSE ft_base(d, u))
           base == Base[d.spec]
<1>1. /\ t \in Seq(Body(d.spec)) /\ Len(t) >= d.precision /\ ValueOf(t, base) = u /\ base \in 2 .. 16
  BY UnsignedText
<1>2. ft_print_poubx(d, u) = ft_width(d, t, u) /\ d.precision \in Int
  BY DEF ft_print_poubx, Directive
<1> HIDE DEF t, base
<1>3. Len(t) \in Nat
  BY <1>1
<1>4. CASE d.spec = "u"
  <2>1. ft_print_poubx(d, u) = ft_numeric(d, t) /\ Body(d.spec) = HexChars
    BY <1>2, <1>4 DEF ft_width, Body
  <2> DEFINE none == <<>>
  <2>2. none \in Seq(Char) /\ IsPrefix(d.spec, none) /\ none \in {<<>>, <<"-">>}
    BY DEF IsPrefix
  <2>3. none \o t = t
    BY <1>1
  <2> HIDE DEF none
  <2>4. t \in Seq(HexChars) /\ (d.spec = "u" => none = <<>>)
    BY <1>1, <2>1 DEF none
  <2>5. \E s \in Signs, k \in Nat :
          /\ Shown(ft_numeric(d, none \o t)) = s \o (Repeat("0", k) \o t)
          /\ (d.spec = "u" => s = <<>>)
    BY <2>2, <2>4, NumericShown, ZenonT(60)
  <2>6. PICK k \in Nat : Shown(ft_numeric(d, none \o t)) = none \o (Repeat("0", k) \o t)
    BY <1>4, <2>5 DEF none
  <2> DEFINE y == Repeat("0", k) \o t
  <2>7. y \in Seq(HexChars) /\ Len(y) = k + Len(t) /\ ValueOf(y, base) = ValueOf(t, base)
    BY <1>1, <2>4, ZerosInFront
  <2>8. Shown(ft_print_poubx(d, u)) = none \o y
    BY <2>1, <2>3, <2>6
  <2> HIDE DEF y
  <2>9. Len(y) >= d.precision
    BY <1>1, <1>2, <1>3, <2>7
  <2> QED
    BY <1>1, <2>1, <2>2, <2>7, <2>8, <2>9 DEF base
<1>5. CASE d.spec # "u"
  <2>1. ft_print_poubx(d, u) = ft_alternate(d, t, u)
    BY <1>2, <1>5 DEF ft_width, SpecsPOUBX
  <2>2. ShowsPrefixed(d, ft_alternate(d, t, u), Len(t), ValueOf(t, base), base)
    BY <1>1, AlternateShown
  <2>3. PICK y \in Seq(Body(d.spec)) : \E pre \in Seq(Char) :
          /\ IsPrefix(d.spec, pre) /\ Shown(ft_alternate(d, t, u)) = pre \o y
          /\ Len(y) >= Len(t)
          /\ ~({"MINUS", "ZERO"} \subseteq d.flag) => ValueOf(y, base) = ValueOf(t, base)
    BY <2>2 DEF ShowsPrefixed
  <2>4. Len(y) \in Nat
    OBVIOUS
  <2>5. Len(y) >= d.precision
    BY <1>1, <1>2, <1>3, <2>3, <2>4
  <2> QED
    BY <1>1, <2>1, <2>3, <2>5 DEF base
<1> QED
  BY <1>4, <1>5

\* The text of a signed number before it gets its width: its sign if it is
\* negative, and digits.
LEMMA SignedText ==
  ASSUME NEW d \in Directive, d.spec \in SpecsDI, NEW x \in Int
  PROVE  \E s \in {<<>>, <<"-">>}, b \in Seq(HexChars) :
           /\ (IF d.precision = 0 /\ x = 0 THEN <<>> ELSE ft_precision(d, ft_ltoa(x))) = s \o b
           /\ Len(b) >= d.precision /\ (s = <<"-">> <=> x < 0)
           /\ ValueOf(b, 10) = IF x < 0 THEN -x ELSE x
<1> DEFINE t == IF d.precision = 0 /\ x = 0 THEN <<>> ELSE ft_precision(d, ft_ltoa(x))
           m == IF x < 0 THEN -x ELSE x
           w == Numeral(m, 10)
           b == padd(w, d.precision - Len(w), "0", "L")
<1>1. d.precision \in Int /\ m \in Nat /\ 10 \in 2 .. 16 /\ HexChars \in SUBSET HexChars /\ "0" \in HexChars
  BY NoDigits DEF Directive
<1>2. w \in Seq(HexChars) /\ ValueOf(w, 10) = m /\ Len(w) \in Nat
  <2> HIDE DEF m
  <2>1. w \in Seq(HexChars) /\ ValueOf(w, 10) = m
    BY <1>1, NumeralValue
  <2> HIDE DEF w
  <2> QED
    BY <2>1
<1>3. ft_ltoa(x) = IF x < 0 THEN <<"-">> \o w ELSE w
  BY DEF ft_ltoa
<1> HIDE DEF m, w
<1>4. b \in Seq(HexChars) /\ Len(b) >= d.precision /\ ValueOf(b, 10) = m
  BY <1>1, <1>2, PreciseDigits
<1>5. d.spec # "s" /\ d.spec \notin SpecsPOUBX
  BY DEF SpecsDI, SpecsPOUBX
<1> HIDE DEF b
<1>6. CASE d.precision = 0 /\ x = 0
  <2> DEFINE none == <<>>
  <2>1. none \in Seq(HexChars) /\ Len(none) = 0 /\ ValueOf(none, 10) = 0
    BY <1>1, NoneDenotesZero
  <2>2. t = none \o none /\ none # <<"-">> /\ none \in {<<>>, <<"-">>}
    BY <1>6
  <2> HIDE DEF none, t
  <2>3. /\ t = none \o none /\ Len(none) >= d.precision /\ (none = <<"-">> <=> x < 0)
        /\ ValueOf(none, 10) = IF x < 0 THEN -x ELSE x
    BY <1>6, <2>1, <2>2
  <2> QED
    BY <2>1, <2>2, <2>3 DEF t
<1>7. CASE x < 0
  <2>1. /\ "-" \in Char /\ <<"-">> \o w \in Seq(Char) /\ Len(<<"-">> \o w) = 1 + Len(w)
        /\ (<<"-">> \o w)[1] = "-" /\ SubSeq(<<"-">> \o w, 2, 1 + Len(w)) = w
    <3>1. w \in Seq(Char) /\ "-" \in Char
      BY <1>2, NoDigits, OwnChars
    <3> QED
      BY <1>2, <3>1
  <2> DEFINE l == <<"-">> \o w
  <2>2. ft_ltoa(x) = l
    BY <1>3, <1>7
  <2> HIDE DEF l
  <2>3. l \in Seq(Char) /\ Len(l) = 1 + Len(w) /\ l[1] = "-" /\ SubSeq(l, 2, 1 + Len(w)) = w
    BY <2>1 DEF l
  <2>4. Negative(l) /\ Len(l) - 1 = Len(w) /\ Drop(l, 1) = w
    BY <1>2, <2>3 DEF Negative, Drop
  <2>5. ft_precision(d, l) = <<"-">> \o padd(Drop(l, 1), d.precision - (Len(l) - 1), "0", "L")
    BY <1>5, <2>4 DEF ft_precision
  <2>6. t = ft_precision(d, l)
    BY <1>7, <2>2
  <2>7. d.precision - (Len(l) - 1) = d.precision - Len(w)
    BY <1>1, <2>4
  <2>8. t = <<"-">> \o b
    BY <2>4, <2>5, <2>6, <2>7, Zenon DEF b
  <2> QED
    BY <1>4, <1>7, <2>8 DEF m
<1>8. CASE x >= 0 /\ ~(d.precision = 0 /\ x = 0)
  <2>1. ~Negative(w)
    BY <1>2, NoDigits DEF Negative
  <2>2. ft_ltoa(x) = w
    BY <1>3, <1>8
  <2>3. ft_precision(d, w) = padd(w, d.precision - Len(w), "0", "L")
    BY <1>5, <2>1 DEF ft_precision
  <2>4. t = <<>> \o b
    <3>1. t = b
      BY <1>8, <2>2, <2>3 DEF b
    <3> QED
      BY <1>4, <3>1
  <2> QED
    BY <1>4, <1>8, <2>4 DEF m
<1> QED
  BY <1>6, <1>7, <1>8

\* A text shows a sign at most and then n digits or more, which denote x.
ShowsSigned(text, n, x) ==
  \E s \in Signs, y \in Seq(HexChars) :
    /\ Shown(text) = s \o y
    /\ Len(y) >= n /\ (s = <<"-">> <=> x < 0)
    /\ ValueOf(y, 10) = IF x < 0 THEN -x ELSE x

\* ft_print_d shows a sign and digits that denote the argument.
LEMMA SignedShown ==
  ASSUME NEW d \in Directive, d.spec \in SpecsDI, NEW x \in Int
  PROVE  ShowsSigned(ft_print_d(d, x), d.precision, x)
<1> DEFINE t == IF d.precision = 0 /\ x = 0 THEN <<>> ELSE ft_precision(d, ft_ltoa(x))
           m == IF x < 0 THEN -x ELSE x
<1>1. ft_print_d(d, x) = ft_numeric(d, t) /\ d.spec # "u" /\ d.precision \in Int /\ 10 \in 2 .. 16
  BY DEF ft_print_d, ft_width, SpecsDI, Directive
<1>2. \E s \in {<<>>, <<"-">>}, b \in Seq(HexChars) :
        t = s \o b /\ Len(b) >= d.precision /\ (s = <<"-">> <=> x < 0) /\ ValueOf(b, 10) = m
  BY SignedText
<1> HIDE DEF t, m
<1>3. PICK s0 \in {<<>>, <<"-">>} : \E b \in Seq(HexChars) :
        t = s0 \o b /\ Len(b) >= d.precision /\ (s0 = <<"-">> <=> x < 0) /\ ValueOf(b, 10) = m
  BY <1>2
<1>4. PICK b \in Seq(HexChars) :
        t = s0 \o b /\ Len(b) >= d.precision /\ (s0 = <<"-">> <=> x < 0) /\ ValueOf(b, 10) = m
  BY <1>3
<1>5. \E s \in Signs, k \in Nat :
        /\ Shown(ft_numeric(d, s0 \o b)) = s \o (Repeat("0", k) \o b)
        /\ (s = <<"-">> <=> s0 = <<"-">>)
  BY <1>1, NumericShown
<1>6. PICK s \in Signs : \E k \in Nat :
        /\ Shown(ft_numeric(d, s0 \o b)) = s \o (Repeat("0", k) \o b)
        /\ (s = <<"-">> <=> s0 = <<"-">>)
  BY <1>5
<1>7. PICK k \in Nat : Shown(ft_numeric(d, s0 \o b)) = s \o (Repeat("0", k) \o b)
  BY <1>6
<1> DEFINE y == Repeat("0", k) \o b
<1>8. y \in Seq(HexChars) /\ Len(y) = k + Len(b) /\ ValueOf(y, 10) = ValueOf(b, 10)
  BY <1>1, ZerosInFront
<1>9. Shown(ft_print_d(d, x)) = s \o y
  BY <1>1, <1>4, <1>7
<1> HIDE DEF y
<1>10. Len(y) >= d.precision
  <2>1. Len(b) \in Nat /\ Len(b) >= d.precision
    BY <1>4
  <2> QED
    BY <1>1, <1>8, <2>1
<1>11. s = <<"-">> <=> x < 0
  BY <1>4, <1>6
<1> QED
  BY <1>4, <1>8, <1>9, <1>10, <1>11 DEF ShowsSigned, m

-----------------------------------------------------------------------------
\* The reader of the output finds the digits again, and what they denote.
Reads(c, y, negative) ==
  /\ DigitsShown(c) = y /\ (Negative(Shown(c.text)) <=> negative)

\* Taking a text off in front leaves the other one.
LEMMA DropFacts ==
  ASSUME NEW s \in Seq(Char), NEW y \in Seq(Char)
  PROVE  Drop(s \o y, Len(s)) = y /\ Drop(y, 0) = y
<1>1. Len(s) \in Nat /\ Len(y) \in Nat /\ Len(s \o y) = Len(s) + Len(y)
  OBVIOUS
<1>2. SubSeq(s \o y, Len(s) + 1, Len(s) + Len(y)) = y
  OBVIOUS
<1>3. SubSeq(y, 1, Len(y)) = y
  BY SubSeqFull
<1>4. 0 + 1 = 1
  OBVIOUS
<1> QED
  BY <1>1, <1>2, <1>3, <1>4 DEF Drop

\* Reading back a field of d or i takes off its sign.
LEMMA ReadSigned ==
  ASSUME NEW c, c.args.spec \in SpecsDI, NEW s \in Signs, NEW y \in Seq(HexChars),
         Shown(c.text) = s \o y
  PROVE  Reads(c, y, s = <<"-">>)
<1> DEFINE w == s \o y
           ends == PrefixEnds[c.args.spec]
<1>1. y \in Seq(Char) /\ Len(y) \in Nat /\ (y # <<>> => y[1] \notin {"-", "+"})
  BY NoDigits
<1>2. s \in Seq(Char)
  BY SignIs
<1>3. s = <<>> \/ s = <<"-">> \/ s = <<"+">>
  BY Zenon DEF Signs
<1>4. ends = {}
  BY DEF SpecsDI, PrefixEnds
<1>5. SignLength(w) = Len(s) /\ (Negative(w) <=> s = <<"-">>)
  <2>1. CASE s = <<>>
    <3>1. w = y /\ Len(s) = 0 /\ s # <<"-">>
      BY <1>1, <2>1
    <3> HIDE DEF w
    <3> QED
      BY <1>1, <3>1 DEF SignLength, Negative
  <2>2. ASSUME NEW x \in {"-", "+"}, s = <<x>>
        PROVE  SignLength(w) = Len(s) /\ (Negative(w) <=> x = "-")
    <3>1. x \in Char
      BY OwnChars
    <3>2. Len(w) = 1 + Len(y) /\ w[1] = x /\ Len(s) = 1
      BY <1>1, <2>2, <3>1
    <3> HIDE DEF w
    <3>3. w # <<>>
      BY <1>1, <3>2
    <3> QED
      BY <3>2, <3>3 DEF SignLength, Negative
  <2>3. CASE s = <<"-">>
    BY <2>2, <2>3
  <2>4. CASE s = <<"+">>
    <3>1. s # <<"-">>
      BY <2>4
    <3> QED
      BY <2>2, <2>4, <3>1
  <2> QED
    BY <1>3, <2>1, <2>3, <2>4
<1>6. Drop(w, SignLength(w)) = y
  BY <1>1, <1>2, <1>5, DropFacts
<1> HIDE DEF w, ends
<1>7. Shown(c.text) = w
  BY DEF w
<1>8. DigitsShown(c) = IF Len(y) > 1 /\ y[2] \in ends THEN Drop(y, 2) ELSE y
  BY <1>6, <1>7 DEF DigitsShown, ends
<1> QED
  BY <1>4, <1>5, <1>7, <1>8 DEF Reads

\* Reading back a field of p, o, u, b or x takes off its prefix.
LEMMA ReadPrefixed ==
  ASSUME NEW c, c.args.spec \in SpecsPOUBX, NEW y \in Seq(Body(c.args.spec)), NEW pre \in Seq(Char),
         IsPrefix(c.args.spec, pre), Shown(c.text) = pre \o y
  PROVE  Reads(c, y, FALSE)
<1> DEFINE w == pre \o y
           ends == PrefixEnds[c.args.spec]
<1>1. /\ w \in Seq(Char) /\ (w # <<>> => w[1] \in HexChars)
      /\ (pre # <<>> => Len(pre) = 2 /\ Len(w) > 1 /\ w[2] \in ends)
      /\ (pre = <<>> /\ Len(y) > 1 => y[2] \notin ends)
  BY PrefixShown
<1>2. y \in Seq(Char)
  BY BodyFacts, NoDigits
<1>3. Drop(w, Len(pre)) = y
  BY <1>2, DropFacts
<1>4. pre = <<>> => w = y
  BY <1>2
<1> HIDE DEF w, ends
<1>5. Shown(c.text) = w
  BY DEF w
<1>6. SignLength(w) = 0 /\ ~Negative(w)
  BY <1>1, NoDigits DEF SignLength, Negative
<1>7. Drop(w, 0) = w
  BY <1>1, DropFacts
<1>8. DigitsShown(c) = IF Len(w) > 1 /\ w[2] \in ends THEN Drop(w, 2) ELSE w
  BY <1>5, <1>6, <1>7 DEF DigitsShown, ends
<1>9. DigitsShown(c) = y
  <2>1. CASE pre = <<>>
    <3>1. w = y
      BY <1>4, <2>1
    <3>2. ~(Len(w) > 1 /\ w[2] \in ends)
      BY <1>1, <2>1, <3>1, Zenon
    <3> QED
      BY <1>8, <3>1, <3>2, Zenon
  <2>2. CASE pre # <<>>
    <3>1. Drop(w, 2) = y
      BY <1>1, <1>3, <2>2
    <3> QED
      BY <1>1, <1>8, <2>2, <3>1, Zenon
  <2> QED
    BY <2>1, <2>2
<1> QED
  BY <1>5, <1>6, <1>9 DEF Reads

-----------------------------------------------------------------------------
\* A field that is longer than its width is not filled.
LEMMA NothingFilled ==
  ASSUME NEW d \in Directive, NEW t \in Seq(Char), NEW u
  PROVE  /\ Len(ft_numeric(d, t)) > d.width => ft_numeric(d, t) = SignPut(d, t) \o t
         /\ Len(ft_string(d, t)) > d.width => ft_string(d, t) = t
         /\ Len(ft_alternate(d, t, u)) > d.width => ft_alternate(d, t, u) = get_prefix(d, t, u) \o t
<1>1. /\ d.width \in Int /\ Len(t) \in Nat
      /\ SignPut(d, t) \in Seq(Char) /\ Len(SignPut(d, t)) \in Nat
      /\ get_prefix(d, t, u) \in Seq(Char) /\ Len(get_prefix(d, t, u)) \in Nat
  BY SignFacts, PrefixType DEF Directive
<1>2. \A m \in Nat : Wider(m, d.width) > d.width => d.width - m <= 0
  BY <1>1 DEF Wider
<1>3. ASSUME NEW s, NEW n, NEW c, NEW side, n <= 0
      PROVE  padd(s, n, c, side) = s
  BY <1>3 DEF padd
<1>4. ASSUME Len(ft_string(d, t)) > d.width
      PROVE  ft_string(d, t) = t
  <2>1. d.width - Len(t) <= 0
    BY <1>1, <1>2, <1>4, StringField
  <2> QED
    BY <1>3, <2>1 DEF ft_string
<1>5. ASSUME Len(ft_alternate(d, t, u)) > d.width
      PROVE  ft_alternate(d, t, u) = get_prefix(d, t, u) \o t
  <2>1. d.width - (Len(t) + Len(get_prefix(d, t, u))) <= 0
    <3>1. Len(t) + Len(get_prefix(d, t, u)) \in Nat
      BY <1>1
    <3> QED
      BY <1>2, <1>5, <3>1, AlternateField
  <2> QED
    BY <1>3, <2>1 DEF ft_alternate
<1>6. ASSUME Len(ft_numeric(d, t)) > d.width
      PROVE  ft_numeric(d, t) = SignPut(d, t) \o t
  <2> DEFINE put  == SignPut(d, t)
             all  == put \o t
             pad  == d.width - Len(all)
             sign == IF Negative(t) \/ put # <<>> THEN 1 ELSE 0
             side == IF "MINUS" \in d.flag THEN "R" ELSE "L"
  <2>1. all \in Seq(Char) /\ Len(all) = Len(put) + Len(t) /\ Len(all) \in Nat
    BY <1>1
  <2>2. pad <= 0
    <3>1. Len(put) + Len(t) \in Nat
      BY <1>1
    <3>2. Wider(Len(put) + Len(t), d.width) > d.width
      BY <1>6, NumericField
    <3> HIDE DEF all, put
    <3> QED
      BY <1>2, <2>1, <3>1, <3>2
  <2>3. sign \in 0 .. Len(all)
    BY <1>1, <2>1, SignFacts
  <2>4. ft_numeric(d, t) = IF "ZERO" \in d.flag /\ all # NaN /\ all \notin Infs
                             THEN SubSeq(all, 1, sign) \o padd(Drop(all, sign), pad, "0", "L")
                           ELSE padd(all, pad, Blank, side)
    BY DEF ft_numeric
  <2> HIDE DEF all, sign, pad, side
  <2>5. SubSeq(all, 1, sign) \o Drop(all, sign) = all
    <3>1. SubSeq(all, 1, sign) \o SubSeq(all, sign + 1, Len(all)) = SubSeq(all, 1, Len(all))
      <4>1. 1 \in 1 .. Len(all) + 1 /\ sign \in 1 - 1 .. Len(all) /\ Len(all) \in sign .. Len(all)
        BY <2>1, <2>3
      <4> QED
        BY <2>1, <4>1, ConcatAdjacentSubSeq
    <3>2. SubSeq(all, 1, Len(all)) = all
      BY <2>1, SubSeqFull
    <3> QED
      BY <3>1, <3>2 DEF Drop
  <2>6. padd(Drop(all, sign), pad, "0", "L") = Drop(all, sign) /\ padd(all, pad, Blank, side) = all
    BY <1>3, <2>2
  <2>7. ft_numeric(d, t) = all
    BY <2>4, <2>5, <2>6
  <2> QED
    BY <2>7 DEF all
<1> QED
  BY <1>4, <1>5, <1>6

\* Blanks in a field fill it up, or are the flag's at the first place, or belong
\* to the argument (own).
Fills(d, text, own) ==
  Len(text) > d.width =>
    \A n \in DOMAIN text \ Solid(text) : (n = 1 /\ "SPACE" \in d.flag) \/ own

\* Two texts without blanks have none together.
LEMMA NoBlanks ==
  ASSUME NEW s \in Seq(Char), NEW t \in Seq(Char), \A n \in 1 .. Len(s) : s[n] # Blank,
         \A n \in 1 .. Len(t) : t[n] # Blank
  PROVE  s \o t \in Seq(Char) /\ \A n \in 1 .. Len(s \o t) : (s \o t)[n] # Blank
<1>1. s \o t \in Seq(Char) /\ Len(s \o t) = Len(s) + Len(t) /\ Len(s) \in Nat /\ Len(t) \in Nat
  OBVIOUS
<1>2. ASSUME NEW n \in 1 .. Len(s) + Len(t)
      PROVE  (s \o t)[n] # Blank
  <2>1. CASE n <= Len(s)
    <3>1. (s \o t)[n] = s[n] /\ n \in 1 .. Len(s)
      BY <1>1, <2>1
    <3> QED
      BY <3>1
  <2>2. CASE n > Len(s)
    <3>1. (s \o t)[n] = t[n - Len(s)] /\ n - Len(s) \in 1 .. Len(t)
      BY <1>1, <2>2
    <3> QED
      BY <3>1
  <2> QED
    BY <1>1, <2>1, <2>2
<1> QED
  BY <1>1, <1>2

\* ft_numeric fills a field up to its width only.
LEMMA NumericFills ==
  ASSUME NEW d \in Directive, NEW t \in Seq(Char), NEW own,
         (\A n \in 1 .. Len(t) : t[n] # Blank) \/ own
  PROVE  Fills(d, ft_numeric(d, t), own)
<1> DEFINE put == SignPut(d, t)
           all == put \o t
<1>1. put \in Seq(Char) /\ Len(put) \in 0 .. 1
  BY SignFacts
<1>2. \A n \in 1 .. Len(put) : n = 1 /\ (put[n] = Blank => "SPACE" \in d.flag)
  <2>1. put = <<>> \/ put = <<"+">> \/ (put = <<Blank>> /\ "SPACE" \in d.flag)
    BY Zenon DEF SignPut
  <2> HIDE DEF put
  <2>2. <<"+">>[1] # Blank
    BY NamedChars
  <2>3. \A n \in 1 .. Len(put) : n = 1
    <3> DEFINE m == Len(put)
    <3>1. m \in 0 .. 1
      BY <1>1
    <3> HIDE DEF m
    <3>2. \A n \in 1 .. m : n = 1
      BY <3>1
    <3> QED
      BY <3>2 DEF m
  <2>4. CASE put = <<>>
    BY <2>4
  <2>5. CASE put = <<"+">>
    BY <2>2, <2>3, <2>5
  <2>6. CASE put = <<Blank>> /\ "SPACE" \in d.flag
    BY <2>3, <2>6
  <2> QED
    BY <2>1, <2>4, <2>5, <2>6
<1> HIDE DEF put
<1>3. ASSUME NEW n \in 1 .. Len(all), all[n] = Blank
      PROVE  (n = 1 /\ "SPACE" \in d.flag) \/ own
  <2>1. Len(all) = Len(put) + Len(t) /\ Len(t) \in Nat /\ Len(put) \in Nat
    BY <1>1
  <2>2. CASE n <= Len(put)
    <3>1. n \in 1 .. Len(put) /\ all[n] = put[n]
      BY <1>1, <2>1, <2>2
    <3> HIDE DEF all
    <3> QED
      BY <1>2, <1>3, <3>1
  <2>3. CASE n > Len(put)
    <3>1. n - Len(put) \in 1 .. Len(t) /\ all[n] = t[n - Len(put)]
      BY <1>1, <2>1, <2>3
    <3> HIDE DEF all
    <3> QED
      BY <1>3, <3>1
  <2> QED
    BY <2>1, <2>2, <2>3
<1>4. Len(ft_numeric(d, t)) > d.width => ft_numeric(d, t) = all
  BY NothingFilled DEF put
<1>5. all \in Seq(Char)
  BY <1>1
<1> HIDE DEF all
<1>6. DOMAIN all = 1 .. Len(all)
  BY <1>5
<1>7. \A n \in DOMAIN all \ Solid(all) : (n = 1 /\ "SPACE" \in d.flag) \/ own
  BY <1>3, <1>6 DEF Solid
<1> QED
  BY <1>4, <1>7 DEF Fills

\* A text without blanks of its own.
LEMMA SolidFills ==
  ASSUME NEW d, NEW text, NEW all \in Seq(Char), NEW own,
         Len(text) > d.width => text = all, \A n \in 1 .. Len(all) : all[n] # Blank
  PROVE  Fills(d, text, own)
<1>1. DOMAIN all \ Solid(all) = {}
  BY DEF Solid
<1> QED
  BY <1>1 DEF Fills

-----------------------------------------------------------------------------
\* A conversion as FieldKept and ValueKept want it.
Fitting(c) ==
  /\ Len(c.text) >= c.args.width
  /\ Fills(c.args, c.text, OwnBlank(c))
  /\ Integral(c) => Len(DigitsShown(c)) >= c.args.precision
Denoting(c) ==
  Integral(c) /\ ~({"MINUS", "ZERO"} \subseteq c.args.flag) =>
    /\ {DigitsShown(c)[n] : n \in DOMAIN DigitsShown(c)} \subseteq DOMAIN HexValue
    /\ ValueShown(c) = c.value
Right(c) == Fitting(c) /\ Denoting(c)

\* A field that ft_print_d makes is as promised.
LEMMA RightSigned ==
  ASSUME NEW c, c.args \in Directive, c.args.spec \in SpecsDI, c.value \in Int,
         c.text = ft_print_d(c.args, c.value)
  PROVE  Right(c)
<1> DEFINE d == c.args
           x == c.value
           t == IF d.precision = 0 /\ x = 0 THEN <<>> ELSE ft_precision(d, ft_ltoa(x))
<1>1. Len(c.text) >= d.width
  BY PrintedType
<1>2. Fills(d, c.text, OwnBlank(c))
  <2>1. c.text = ft_numeric(d, t)
    BY DEF ft_print_d, ft_width, SpecsDI
  <2>2. \E s \in {<<>>, <<"-">>}, b \in Seq(HexChars) : t = s \o b
    BY SignedText
  <2> HIDE DEF t, d
  <2>3. PICK s \in {<<>>, <<"-">>} : \E b \in Seq(HexChars) : t = s \o b
    BY <2>2
  <2>4. PICK b \in Seq(HexChars) : t = s \o b
    BY <2>3
  <2>5. b \in Seq(Char) /\ \A n \in 1 .. Len(b) : b[n] # Blank
    BY NoDigits
  <2>6. s \in Seq(Char) /\ \A n \in 1 .. Len(s) : s[n] # Blank
    <3>1. s \in Signs
      BY Zenon DEF Signs
    <3> QED
      BY <3>1, SignIs
  <2>7. t \in Seq(Char) /\ \A n \in 1 .. Len(t) : t[n] # Blank
    BY <2>4, <2>5, <2>6, NoBlanks
  <2> QED
    BY <2>1, <2>7, NumericFills DEF d
<1>3. PICK s \in Signs : \E y \in Seq(HexChars) :
        /\ Shown(c.text) = s \o y
        /\ Len(y) >= d.precision /\ (s = <<"-">> <=> x < 0)
        /\ ValueOf(y, 10) = IF x < 0 THEN -x ELSE x
  <2>1. ShowsSigned(c.text, d.precision, x)
    BY SignedShown
  <2> QED
    BY <2>1 DEF ShowsSigned
<1>4. PICK y \in Seq(HexChars) :
        /\ Shown(c.text) = s \o y
        /\ Len(y) >= d.precision /\ (s = <<"-">> <=> x < 0)
        /\ ValueOf(y, 10) = IF x < 0 THEN -x ELSE x
  BY <1>3
<1>5. DigitsShown(c) = y /\ (Negative(Shown(c.text)) <=> x < 0)
  BY <1>4, ReadSigned DEF Reads
<1>6. NumericBase(c) = 10
  BY DEF NumericBase
<1>7. ValueShown(c) = x
  <2>1. ValueShown(c) = IF Negative(Shown(c.text)) THEN -ValueOf(DigitsShown(c), NumericBase(c))
                        ELSE ValueOf(DigitsShown(c), NumericBase(c))
    BY ValueShownIs
  <2> DEFINE v == ValueOf(y, 10)
  <2>2. ValueShown(c) = IF x < 0 THEN -v ELSE v
    BY <1>5, <1>6, <2>1
  <2>3. v = IF x < 0 THEN -x ELSE x
    BY <1>4
  <2> HIDE DEF v
  <2>4. x \in Int
    OBVIOUS
  <2> HIDE DEF x
  <2> QED
    BY <2>2, <2>3, <2>4
<1>8. {y[n] : n \in DOMAIN y} \subseteq DOMAIN HexValue
  BY DEF HexChars
<1>9. Fitting(c)
  BY <1>1, <1>2, <1>4, <1>5 DEF Fitting
<1>10. Denoting(c)
  BY <1>5, <1>7, <1>8 DEF Denoting
<1> QED
  BY <1>9, <1>10 DEF Right

\* So is one of ft_print_poubx,
LEMMA RightUnsigned ==
  ASSUME NEW c, c.args \in Directive, c.args.spec \in SpecsPOUBX, c.value \in Nat,
         c.text = ft_print_poubx(c.args, c.value)
  PROVE  Right(c)
<1> DEFINE d == c.args
           u == c.value
           t == ft_precision(d, IF u = 0 /\ d.precision = 0 THEN <<>> ELSE ft_base(d, u))
           pre0 == get_prefix(d, t, u)
           Clear == ~({"MINUS", "ZERO"} \subseteq d.flag)
<1>1. Len(c.text) >= d.width
  BY PrintedType
<1>2. Fills(d, c.text, OwnBlank(c))
  <2>1. c.text = ft_width(d, t, u) /\ d.spec \in SpecsPOUBX /\ d \in Directive
    BY DEF ft_print_poubx
  <2>2. t \in Seq(Body(d.spec))
    BY UnsignedText
  <2> HIDE DEF t, d
  <2>3. t \in Seq(Char) /\ \A n \in 1 .. Len(t) : t[n] # Blank
    BY <2>1, <2>2, BodyFacts, NoDigits
  <2>4. CASE d.spec = "u"
    <3>1. c.text = ft_numeric(d, t)
      BY <2>1, <2>4 DEF ft_width
    <3> QED
      BY <2>1, <2>3, <3>1, NumericFills
  <2>5. CASE d.spec # "u"
    <3>1. c.text = ft_alternate(d, t, u)
      BY <2>1, <2>5 DEF ft_width, SpecsPOUBX
    <3>2. pre0 \in Seq(Char) /\ \A n \in 1 .. Len(pre0) : pre0[n] # Blank
      <4>1. pre0 \in Seq(Char)
        BY <2>1, PrefixType
      <4>2. IsPrefix(d.spec, pre0) \/ pre0 = <<"0">>
        BY <2>1, PrefixIs
      <4> HIDE DEF pre0
      <4>3. "0" # Blank /\ "0" \in Char
        BY OwnChars, NamedChars
      <4>4. CASE pre0 = <<"0">>
        BY <4>1, <4>3, <4>4
      <4>5. CASE pre0 = <<>>
        BY <4>5
      <4>6. ASSUME NEW x \in PrefixEnds[d.spec], pre0 = <<"0", x>>
            PROVE  \A n \in 1 .. Len(pre0) : pre0[n] # Blank
        <5>1. x \in {"x", "X", "b"}
          BY <2>1, BodyFacts
        <5>2. Blank \notin {"x", "X", "b"}
          BY Zenon DEF Blank
        <5>3. Len(pre0) = 2 /\ pre0[1] = "0" /\ pre0[2] = x
          BY <4>6
        <5> QED
          BY <4>3, <5>1, <5>2, <5>3
      <4> QED
        BY <4>1, <4>2, <4>4, <4>5, <4>6 DEF IsPrefix
    <3>3. Len(c.text) > d.width => c.text = pre0 \o t
      BY <2>1, <2>3, <3>1, NothingFilled
    <3> DEFINE all == pre0 \o t
    <3> HIDE DEF pre0
    <3>4. all \in Seq(Char) /\ \A n \in 1 .. Len(all) : all[n] # Blank
      BY <2>3, <3>2, NoBlanks
    <3>5. Len(c.text) > d.width => c.text = all
      BY <3>3
    <3> HIDE DEF all
    <3> QED
      BY <3>4, <3>5, SolidFills
  <2> QED
    BY <2>4, <2>5 DEF d
<1> HIDE DEF t, pre0
<1>3. PICK y \in Seq(Body(d.spec)) : \E pre \in Seq(Char) :
        /\ IsPrefix(d.spec, pre) /\ Shown(c.text) = pre \o y
        /\ Len(y) >= d.precision /\ (Clear => ValueOf(y, Base[d.spec]) = u)
  <2>1. ShowsPrefixed(d, c.text, d.precision, u, Base[d.spec])
    BY UnsignedShown
  <2> QED
    BY <2>1 DEF ShowsPrefixed
<1>4. PICK pre \in Seq(Char) :
        /\ IsPrefix(d.spec, pre) /\ Shown(c.text) = pre \o y
        /\ Len(y) >= d.precision /\ (Clear => ValueOf(y, Base[d.spec]) = u)
  BY <1>3
<1>5. DigitsShown(c) = y /\ ~Negative(Shown(c.text))
  BY <1>4, ReadPrefixed DEF Reads
<1>6. NumericBase(c) = Base[d.spec]
  BY DEF NumericBase, SpecsDI, SpecsPOUBX
<1>7. Clear => ValueShown(c) = u
  BY <1>4, <1>5, <1>6, ValueShownIs
<1>8. {y[n] : n \in DOMAIN y} \subseteq DOMAIN HexValue
  <2>1. y \in Seq(HexChars)
    BY BodyFacts
  <2> QED
    BY <2>1 DEF HexChars
<1>9. Fitting(c)
  BY <1>1, <1>2, <1>4, <1>5 DEF Fitting
<1>10. Denoting(c)
  BY <1>5, <1>7, <1>8 DEF Denoting
<1> QED
  BY <1>9, <1>10 DEF Right

\* one of ft_print_s,
LEMMA RightString ==
  ASSUME NEW c, c.args \in Directive, c.args.spec = "s", c.value \in Strings \cup {Null},
         c.text = ft_print_s(c.args, c.value)
  PROVE  Right(c)
<1> DEFINE d == c.args
           s == c.value
           t == ft_precision(d, s)
<1>1. s \in Seq(Char)
  <2>1. Null \in Seq(Char)
    BY CharsAreNoMarks DEF Null, Letters
  <2> QED
    BY <2>1, GivenTexts
<1>2. t \in Seq(Char) /\ (t = s \/ \E p \in 0 .. Len(s) : t = SubSeq(s, 1, p))
  BY <1>1, PrecisionType DEF ft_precision
<1>3. c.text = ft_string(d, t)
  BY DEF ft_print_s, ft_width
<1> HIDE DEF t
<1>4. Fills(d, c.text, OwnBlank(c))
  <2>1. CASE OwnBlank(c)
    BY <2>1 DEF Fills
  <2>2. CASE ~OwnBlank(c)
    <3>1. \A n \in 1 .. Len(s) : s[n] # Blank
      BY <1>1, <2>2 DEF OwnBlank, Solid
    <3>2. \A n \in 1 .. Len(t) : t[n] # Blank
      BY <1>1, <1>2, <3>1
    <3>3. Len(c.text) > d.width => c.text = t
      BY <1>2, <1>3, NothingFilled
    <3> QED
      BY <1>2, <3>2, <3>3, SolidFills
  <2> QED
    BY <2>1, <2>2
<1>5. Len(c.text) >= d.width
  BY PrintedType
<1>6. ~Integral(c)
  BY DEF Integral, SpecsDI, SpecsPOUBX
<1> QED
  BY <1>4, <1>5, <1>6 DEF Right, Fitting, Denoting

\* one of ft_print_f, given the digits,
LEMMA RightFloat ==
  ASSUME NEW c, c.args \in Directive, c.args.spec = "f", c.value \in FloatTexts,
         c.text = ft_width(c.args, c.value, 0)
  PROVE  Right(c)
<1> DEFINE s == c.value
<1>1. s \in Seq(Char) /\ c.text = ft_numeric(c.args, s)
  BY GivenTexts DEF ft_width
<1>2. (\A n \in 1 .. Len(s) : s[n] # Blank) \/ OwnBlank(c)
  BY <1>1 DEF OwnBlank, Solid
<1>3. Fills(c.args, c.text, OwnBlank(c))
  BY <1>1, <1>2, NumericFills
<1>4. Len(c.text) >= c.args.width
  BY PrintedType
<1>5. ~Integral(c)
  BY DEF Integral, SpecsDI, SpecsPOUBX
<1> QED
  BY <1>3, <1>4, <1>5 DEF Right, Fitting, Denoting

\* and one of ft_print_c.
LEMMA RightCharacter ==
  ASSUME NEW c, c.args \in Directive, c.args.spec \notin SpecsDI \cup SpecsPOUBX \cup {"s", "f"},
         NEW x \in Char, x # Blank, c.text = ft_print_c(c.args, x)
  PROVE  Right(c)
<1> DEFINE d == c.args
           fill == IF "ZERO" \in d.flag THEN "0" ELSE Blank
           side == IF "MINUS" \in d.flag THEN "R" ELSE "L"
<1>1. d.width \in Int /\ Len(c.text) = Wider(1, d.width)
  BY PrintedType DEF Directive
<1>2. Len(c.text) >= d.width
  BY <1>1 DEF Wider
<1>3. Len(c.text) > d.width => c.text = <<x>>
  <2>1. c.text = padd(<<x>>, d.width - 1, fill, side)
    BY DEF ft_print_c
  <2> HIDE DEF fill, side
  <2>2. Wider(1, d.width) > d.width => d.width - 1 <= 0
    BY <1>1 DEF Wider
  <2> QED
    BY <1>1, <2>1, <2>2 DEF padd
<1>4. Fills(d, c.text, OwnBlank(c))
  <2> DEFINE one == <<x>>
  <2>1. one \in Seq(Char) /\ \A n \in 1 .. Len(one) : one[n] # Blank
    OBVIOUS
  <2>2. Len(c.text) > d.width => c.text = one
    BY <1>3
  <2> HIDE DEF one
  <2> QED
    BY <2>1, <2>2, SolidFills
<1>5. ~Integral(c)
  BY DEF Integral
<1> QED
  BY <1>2, <1>4, <1>5 DEF Right, Fitting, Denoting

-----------------------------------------------------------------------------
\* Every conversion so far is right: only the printers add one, and none is
\* changed afterwards.
ConvInv == conv \in Seq({c \in Converted : Right(c)})

\* Writing a field as promised keeps all of them as promised.
LEMMA EmitKeeps ==
  ASSUME ConvInv, NEW t, NEW n, NEW v, Emit(t, n, v),
         Right([args |-> args, from |-> i, text |-> t, value |-> v])
  PROVE  ConvInv'
<1> DEFINE c == [args |-> args, from |-> i, text |-> t, value |-> v]
           S == {r \in Converted : Right(r)}
<1>1. conv' = Append(conv, c) /\ Right(c) /\ conv \in Seq(S)
  BY DEF Emit, ConvInv
<1> HIDE DEF c
<1>2. \A r \in S \cup {c} : Right(r)
  BY <1>1
<1> HIDE DEF S
<1>3. conv' \in Seq(S \cup {c})
  BY <1>1
<1>4. Converted' = {conv'[k] : k \in DOMAIN conv'}
  BY DEF Converted
<1>5. \A k \in DOMAIN conv' : Right(conv'[k])
  BY <1>2, <1>3
<1>6. conv' \in Seq({r \in {conv'[k] : k \in DOMAIN conv'} : Right(r)})
  BY <1>3, <1>5
<1> QED
  BY <1>4, <1>6 DEF ConvInv

\* A step that writes no field keeps them too.
LEMMA ConvSame == ConvInv /\ UNCHANGED conv => ConvInv'
BY DEF ConvInv, Converted

\* The specifier that is printed is no blank.
LEMMA SpecifierIsSolid ==
  ASSUME IInv, pc = "print"
  PROVE  args \in Directive /\ args.spec \in Char /\ args.spec # Blank
<1>1. /\ str \in Formats /\ Len(str) \in Nat /\ args.specIndex \in 0 .. Len(str) - 1
      /\ Ch(args.specIndex) = args.spec /\ args.spec \notin Skipped /\ args \in Directive
  BY ParserStarts
<1>2. args.specIndex \in Int /\ args.specIndex < Len(str) /\ args.specIndex >= 0
  BY <1>1
<1>3. args.spec \in Char
  BY <1>1, <1>2, FormatFacts
<1>4. Blank \in Skipped
  BY Zenon DEF Skipped, FlagSet
<1> QED
  BY <1>1, <1>3, <1>4

\* Every printer writes a field as promised.
LEMMA ConvPrint ==
  ASSUME IInv, ConvInv, PrintD \/ PrintPoubx \/ PrintS \/ PrintF \/ PrintC
  PROVE  ConvInv'
<1> DEFINE made(t, v) == [args |-> args, from |-> i, text |-> t, value |-> v]
<1>1. pc = "print"
  BY DEF PrintD, PrintPoubx, PrintS, PrintF, PrintC
<1>2. args \in Directive /\ args.spec \in Char /\ args.spec # Blank
  BY <1>1, SpecifierIsSolid
<1>3. \A t, v : made(t, v).args = args /\ made(t, v).text = t /\ made(t, v).value = v
  OBVIOUS
<1> HIDE DEF made
<1>4. ASSUME NEW t, NEW n, NEW v, Emit(t, n, v), Right(made(t, v))
      PROVE  ConvInv'
  BY <1>4, EmitKeeps DEF made
<1>5. CASE PrintD
  <2>1. PICK v \in Slots :
          Emit(ft_print_d(args, ft_signed(args, v)), Len(ft_print_d(args, ft_signed(args, v))),
               ft_signed(args, v))
    BY <1>5 DEF PrintD
  <2> DEFINE x == ft_signed(args, v)
             c == made(ft_print_d(args, x), x)
  <2>2. x \in Int /\ args.spec \in SpecsDI
    BY <1>2, <1>5, SlotTypes, ValueTypes DEF PrintD
  <2>3. Emit(ft_print_d(args, x), Len(ft_print_d(args, x)), x)
    BY <2>1
  <2> HIDE DEF x
  <2>4. c.args = args /\ c.text = ft_print_d(args, x) /\ c.value = x
    BY <1>3
  <2> HIDE DEF c
  <2>5. Right(c)
    BY <1>2, <2>2, <2>4, RightSigned
  <2> QED
    BY <1>4, <2>3, <2>5 DEF c
<1>6. CASE PrintPoubx
  <2>1. PICK v \in Slots :
          Emit(ft_print_poubx(args, ft_unsigned(args, v)),
               Len(ft_print_poubx(args, ft_unsigned(args, v))), ft_unsigned(args, v))
    BY <1>6 DEF PrintPoubx
  <2> DEFINE x == ft_unsigned(args, v)
             c == made(ft_print_poubx(args, x), x)
  <2>2. x \in Nat /\ args.spec \in SpecsPOUBX
    BY <1>2, <1>6, SlotTypes, ValueTypes DEF PrintPoubx
  <2>3. Emit(ft_print_poubx(args, x), Len(ft_print_poubx(args, x)), x)
    BY <2>1
  <2> HIDE DEF x
  <2>4. c.args = args /\ c.text = ft_print_poubx(args, x) /\ c.value = x
    BY <1>3
  <2> HIDE DEF c
  <2>5. Right(c)
    BY <1>2, <2>2, <2>4, RightUnsigned
  <2> QED
    BY <1>4, <2>3, <2>5 DEF c
<1>7. CASE PrintS
  <2>1. PICK s \in Strings \cup {Null} : Emit(ft_print_s(args, s), Len(ft_print_s(args, s)), s)
    BY <1>7 DEF PrintS
  <2> DEFINE c == made(ft_print_s(args, s), s)
  <2>2. c.args = args /\ c.text = ft_print_s(args, s) /\ c.value = s
    BY <1>3
  <2> HIDE DEF c
  <2>3. Right(c)
    BY <1>2, <1>7, <2>2, RightString DEF PrintS
  <2> QED
    BY <1>4, <2>1, <2>3 DEF c
<1>8. CASE PrintF
  <2>1. PICK s \in FloatTexts : Emit(ft_width(args, s, 0), Len(ft_width(args, s, 0)), s)
    BY <1>8 DEF PrintF
  <2> DEFINE c == made(ft_width(args, s, 0), s)
  <2>2. c.args = args /\ c.text = ft_width(args, s, 0) /\ c.value = s
    BY <1>3
  <2> HIDE DEF c
  <2>3. Right(c)
    BY <1>2, <1>8, <2>2, RightFloat DEF PrintF
  <2> QED
    BY <1>4, <2>1, <2>3 DEF c
<1>9. CASE PrintC
  <2>1. PICK x \in IF args.spec = "c" THEN {"a", "0"} ELSE {args.spec} :
          Emit(ft_print_c(args, x), CharCounts, 0)
    BY <1>9 DEF PrintC
  <2> DEFINE c == made(ft_print_c(args, x), 0)
  <2>2. x \in Char /\ x # Blank
    BY <1>2, <2>1, OwnChars, Zenon DEF Blank
  <2>3. c.args = args /\ c.text = ft_print_c(args, x)
    BY <1>3
  <2> HIDE DEF c
  <2>4. Right(c)
    BY <1>2, <1>9, <2>2, <2>3, RightCharacter DEF PrintC
  <2> QED
    BY <1>4, <2>1, <2>4 DEF c
<1> QED
  BY <1>5, <1>6, <1>7, <1>8, <1>9

\* Every step of ft_printf keeps all fields as promised.
LEMMA ConvNext == IInv /\ ConvInv /\ [Next]_vars => ConvInv'
<1> SUFFICES ASSUME IInv, ConvInv, [Next]_vars
             PROVE  ConvInv'
  OBVIOUS
<1>1. CASE PrintD \/ PrintPoubx \/ PrintS \/ PrintF \/ PrintC
  BY <1>1, ConvPrint
<1>2. CASE EndOfFormat \/ ReadPastEnd \/ StartDirective \/ PlainChar \/ OpenBrace \/ get_specifier
  BY <1>2, ConvSame DEF EndOfFormat, ReadPastEnd, StartDirective, PlainChar, OpenBrace, get_specifier
<1>3. CASE get_flags \/ WidthDigits \/ WidthStar \/ WidthDone \/ get_modifier
  BY <1>3, ConvSame DEF get_flags, WidthDigits, WidthStar, WidthDone, get_modifier
<1>4. CASE NoPrecision \/ StarPrecision \/ LiteralPrecision
  BY <1>4, ConvSame DEF NoPrecision, StarPrecision, LiteralPrecision
<1>5. CASE UNCHANGED vars
  BY <1>5, ConvSame DEF vars
<1> QED
  BY <1>1, <1>2, <1>3, <1>4, <1>5 DEF Next

\* All fields are as promised, at any time.
LEMMA ConvInvariance == Spec => []ConvInv
<1>1. Init => ConvInv
  BY DEF Init, ConvInv
<1> QED
  BY <1>1, ConvNext, Invariance, PTL DEF Spec

-----------------------------------------------------------------------------
\* The width that the parsers leave is the one that the format asks for.

\* The number behind the flags, as the int it is stored in, and whether an
\* argument takes its place.
WidthRead == Signed(ft_atoll(WidthStart(i)), IntBits)
WidthTaken == Ch(WidthEnd(i)) = "*"

WidthInv ==
  /\ pc = "spec" => args.width = 0
  /\ pc = "flags" => args.width = 0 /\ \A k \in i + 1 .. j - 1 : Ch(k) \in FlagSet
  /\ pc = "width" => \/ WidthTaken
                     \/ j = WidthStart(i) /\ args.width = 0
                     \/ j = WidthEnd(i) /\ args.width = WidthRead
  /\ pc = "precision" => \/ WidthTaken
                         \/ j = WidthEnd(i) /\ args.width = WidthRead
  /\ pc \in {"modifier", "print"} => WidthAsked(i, args) = args.width

\* The first position outside of a set is found by looking at those before it.
LEMMA OutsideIs ==
  ASSUME str \in Formats, NEW S, NUL \notin S, NEW n \in 0 .. Len(str), NEW m \in n .. Len(str),
         Ch(m) \notin S, \A k \in n .. m - 1 : Ch(k) \in S
  PROVE  Outside(n, S) = m
<1>1. /\ Outside(n, S) \in n .. Len(str) /\ Ch(Outside(n, S)) \notin S
      /\ \A k \in n .. Outside(n, S) - 1 : Ch(k) \in S
  BY OutsideFacts
<1>2. Len(str) \in Nat
  BY FormatFacts
<1>3. ~(Outside(n, S) < m) /\ ~(m < Outside(n, S))
  BY <1>1, <1>2
<1> QED
  BY <1>1, <1>2, <1>3

\* No digits are the number 0.
LEMMA NoDigitsAreZero ==
  ASSUME str \in Formats, NEW n \in 0 .. Len(str), DigitsEnd(n) = n
  PROVE  ft_atoll(n) = 0
<1> DEFINE v0 == [m \in n .. n |-> 0]
<1>1. n \in Int /\ n .. n = {n}
  OBVIOUS
<1>2. AtollTo(n, v0)
  BY <1>1 DEF AtollTo
<1>3. AtollTo(n, AtollFor(n))
  BY <1>2, Zenon DEF AtollFor
<1>4. AtollFor(n)[n] = 0
  BY <1>1, <1>3 DEF AtollTo
<1> QED
  BY <1>4, AtollIsLast

\* Zero is itself in every integer type.
LEMMA SignedZero == Signed(0, IntBits) = 0
<1> DEFINE m == 2^IntBits
           h == 2^(IntBits - 1)
<1>1. m \in Nat \ {0} /\ h \in Nat \ {0}
  <2>1. IntBits \in Nat /\ IntBits - 1 \in Nat
    BY BitsAssumption
  <2> QED
    BY <2>1, PowerOfTwo
<1> HIDE DEF m, h
<1>2. 0 % m = 0
  BY <1>1
<1>3. (IF 0 % m >= h THEN (0 % m) - m ELSE 0 % m) = 0
  BY <1>1, <1>2
<1> QED
  BY <1>3 DEF Signed, m, h

\* What is read from the format does not change while the format and the place
\* of the directive in it do not.
LEMMA WidthSame ==
  ASSUME UNCHANGED <<str, i>>
  PROVE  /\ \A n : Ch(n)' = Ch(n)
         /\ WidthStart(i)' = WidthStart(i) /\ WidthEnd(i)' = WidthEnd(i)
         /\ WidthRead' = WidthRead /\ WidthTaken' = WidthTaken
<1>1. \A n : Ch(n)' = Ch(n)
  BY Zenon DEF Ch
<1>2. \A n : DigitsEnd(n)' = DigitsEnd(n)
  BY Zenon DEF DigitsEnd, FirstFrom, Ch
<1>3. \A n : ft_atoll(n)' = ft_atoll(n)
  BY DEF ft_atoll, DigitsEnd, FirstFrom, Ch
<1>4. WidthStart(i)' = WidthStart(i)
  BY Zenon DEF WidthStart, FirstFrom, Ch
<1>5. WidthEnd(i)' = WidthEnd(i)
  BY <1>2, <1>4, Zenon DEF WidthEnd, WidthStart, DigitsEnd, FirstFrom, Ch
<1> QED
  BY <1>1, <1>2, <1>3, <1>4, <1>5 DEF WidthRead, WidthTaken

\* Where the width starts and ends.
LEMMA WidthPlaces ==
  ASSUME IInv, pc \in Reading
  PROVE  /\ WidthStart(i) = Outside(i + 1, FlagSet) /\ WidthStart(i) \in i + 1 .. Len(str)
         /\ WidthStart(i) \in 0 .. Len(str) /\ Ch(WidthStart(i)) \notin FlagSet
         /\ WidthEnd(i) \in WidthStart(i) .. Len(str) /\ Ch(WidthEnd(i)) \notin DigitSet
<1>1. /\ str \in Formats /\ Len(str) \in Nat /\ i \in -1 .. Len(str) /\ i + 1 \in 0 .. Len(str)
  BY ParserStarts DEF Reading
<1>2. WidthStart(i) = Outside(i + 1, FlagSet)
  BY DEF WidthStart, FirstFrom, Outside
<1>3. NUL \notin FlagSet
  BY SkippedFacts
<1>4. WidthStart(i) \in i + 1 .. Len(str) /\ Ch(WidthStart(i)) \notin FlagSet
  BY <1>1, <1>2, <1>3, OutsideFacts
<1>5. WidthStart(i) \in 0 .. Len(str)
  BY <1>1, <1>4
<1>6. WidthEnd(i) = Outside(WidthStart(i), DigitSet)
  BY DEF WidthEnd, DigitsEnd, FirstFrom, Outside
<1>7. WidthEnd(i) \in WidthStart(i) .. Len(str) /\ Ch(WidthEnd(i)) \notin DigitSet
  BY <1>1, <1>5, <1>6, OutsideFacts, SkippedFacts
<1> QED
  BY <1>2, <1>4, <1>5, <1>7

\* The steps of the parsers leave the width that the format asks for, or one of
\* an argument.
LEMMA WidthParse ==
  ASSUME IInv, WidthInv, get_flags \/ WidthDigits \/ WidthStar \/ WidthDone
  PROVE  WidthInv'
<1>1. pc \in Reading /\ UNCHANGED <<str, i>>
  BY DEF Reading, get_flags, WidthDigits, WidthStar, WidthDone
<1>2. /\ str \in Formats /\ Len(str) \in Nat /\ i \in -1 .. Len(str) /\ args \in Directive
      /\ j \in 0 .. Len(str) - 1 /\ i < j
  BY <1>1, ParserStarts DEF Reading
<1>3. /\ WidthStart(i) = Outside(i + 1, FlagSet) /\ WidthStart(i) \in i + 1 .. Len(str)
      /\ WidthStart(i) \in 0 .. Len(str) /\ Ch(WidthEnd(i)) \notin DigitSet
  BY <1>1, WidthPlaces
<1>4. /\ \A n : Ch(n)' = Ch(n)
      /\ WidthStart(i)' = WidthStart(i) /\ WidthEnd(i)' = WidthEnd(i)
      /\ WidthRead' = WidthRead /\ WidthTaken' = WidthTaken
  BY <1>1, WidthSame
<1>5. CASE get_flags
  <2>1. pc = "flags" /\ args.width = 0 /\ \A k \in i + 1 .. j - 1 : Ch(k) \in FlagSet
    BY <1>5 DEF get_flags, WidthInv
  <2>2. CASE Ch(j) \in FlagSet
    <3>1. /\ args' = [args EXCEPT !.flag = WithFlag(args.flag, Ch(j))] /\ j' = j + 1 /\ pc' = "flags"
      BY <1>5, <2>1, <2>2 DEF get_flags
    <3>2. args'.width = 0
      BY <1>2, <2>1, <3>1 DEF Directive
    <3>3. \A k \in i + 1 .. j' - 1 : Ch(k) \in FlagSet
      BY <1>2, <2>1, <2>2, <3>1
    <3>4. \A k \in i' + 1 .. j' - 1 : Ch(k)' \in FlagSet
      BY <1>1, <1>4, <3>3
    <3> QED
      BY <3>1, <3>2, <3>4 DEF WidthInv, FlagSet
  <2>3. CASE Ch(j) \notin FlagSet
    <3>1. pc' = "width" /\ args' = args /\ j' = j
      BY <1>5, <2>3 DEF get_flags
    <3>2. i + 1 \in 0 .. Len(str) /\ j \in i + 1 .. Len(str)
      BY <1>2
    <3>3. j = WidthStart(i)
      BY <1>2, <1>3, <2>1, <2>3, <3>2, OutsideIs, SkippedFacts
    <3> QED
      BY <1>4, <2>1, <3>1, <3>3 DEF WidthInv
  <2> QED
    BY <2>2, <2>3
<1>6. CASE WidthDigits
  <2>1. /\ pc = "width" /\ pc' = "width" /\ Ch(j) \in DigitSet
        /\ args' = [args EXCEPT !.width = Signed(ft_atoll(j), IntBits)] /\ j' = DigitsEnd(j)
    BY <1>6 DEF WidthDigits
  <2>2. CASE WidthTaken
    BY <1>4, <2>1, <2>2 DEF WidthInv
  <2>3. CASE ~WidthTaken
    <3>1. j = WidthStart(i)
      BY <1>3, <2>1, <2>3 DEF WidthInv
    <3>2. args'.width = Signed(ft_atoll(j), IntBits)
      BY <1>2, <2>1 DEF Directive
    <3>3. j' = WidthEnd(i) /\ args'.width = WidthRead
      BY <2>1, <3>1, <3>2 DEF WidthEnd, WidthRead
    <3> QED
      BY <1>4, <2>1, <3>3 DEF WidthInv
  <2> QED
    BY <2>2, <2>3
<1>7. ASSUME pc = "width", j = WidthStart(i), Ch(j) \notin DigitSet
      PROVE  WidthEnd(i) = j /\ ft_atoll(j) = 0
  <2>1. j \in 0 .. Len(str) /\ j \in j .. Len(str)
    BY <1>2
  <2>2. Outside(j, DigitSet) = j
    <3>1. \A k \in j .. j - 1 : Ch(k) \in DigitSet
      BY <1>2
    <3> QED
      BY <1>2, <1>7, <2>1, <3>1, OutsideIs, SkippedFacts
  <2>3. DigitsEnd(j) = j
    BY <2>2 DEF DigitsEnd, FirstFrom, Outside
  <2> QED
    BY <1>2, <1>7, <2>1, <2>3, NoDigitsAreZero DEF WidthEnd
<1>8. CASE WidthStar
  <2>1. pc = "width" /\ pc' = "width" /\ Ch(j) = "*"
    BY <1>8 DEF WidthStar
  <2>2. Ch(j) \notin DigitSet
    BY <2>1, DigitsOnly
  <2>3. WidthTaken
    BY <1>7, <2>1, <2>2 DEF WidthInv, WidthTaken
  <2> QED
    BY <1>4, <2>1, <2>3 DEF WidthInv
<1>9. CASE WidthDone
  <2>1. /\ pc = "width" /\ pc' = "precision" /\ Ch(j) \notin DigitSet /\ args' = args /\ j' = j
    BY <1>9 DEF WidthDone
  <2>2. CASE j = WidthStart(i) /\ args.width = 0
    <3>1. WidthEnd(i) = j /\ WidthRead = 0
      BY <1>7, <2>1, <2>2, SignedZero DEF WidthRead
    <3> QED
      BY <1>4, <2>1, <2>2, <3>1 DEF WidthInv
  <2>3. CASE WidthTaken \/ (j = WidthEnd(i) /\ args.width = WidthRead)
    BY <1>4, <2>1, <2>3 DEF WidthInv
  <2> QED
    BY <2>1, <2>2, <2>3 DEF WidthInv
<1> QED
  BY <1>5, <1>6, <1>8, <1>9

\* A step that leaves the width as it was read, or takes it from an argument or
\* from a negative precision of the format, leaves the one asked for.
LEMMA WidthLeft ==
  ASSUME UNCHANGED <<str, i>>,
         \/ WidthTaken
         \/ args'.width = WidthRead
         \/ Ch(WidthEnd(i)) = "." /\ Ch(WidthEnd(i) + 1) # "*" /\ args'.precision < 0
  PROVE  WidthAsked(i, args)' = args'.width
<1>1. /\ \A n : Ch(n)' = Ch(n)
      /\ WidthEnd(i)' = WidthEnd(i) /\ WidthRead' = WidthRead /\ WidthTaken' = WidthTaken
  BY WidthSame
<1>2. /\ Ch(WidthEnd(i))' = Ch(WidthEnd(i)) /\ Ch(WidthEnd(i) + 1)' = Ch(WidthEnd(i) + 1)
  BY <1>1
<1>3. WidthAsked(i, args)' =
        IF \/ WidthTaken'
           \/ Ch(WidthEnd(i))' = "." /\ Ch(WidthEnd(i) + 1)' # "*" /\ args'.precision < 0
          THEN args'.width ELSE WidthRead'
  BY DEF WidthAsked, WidthTaken, WidthRead
<1> QED
  BY <1>1, <1>2, <1>3

\* The precision keeps the width, or is taken for one.
LEMMA WidthPrecise ==
  ASSUME IInv, WidthInv, NoPrecision \/ StarPrecision \/ LiteralPrecision
  PROVE  WidthAsked(i, args)' = args'.width
<1>1. pc = "precision" /\ UNCHANGED <<str, i>>
  BY DEF NoPrecision, StarPrecision, LiteralPrecision
<1>2. args \in Directive
  BY <1>1, ParserStarts
<1>3. WidthTaken \/ (j = WidthEnd(i) /\ args.width = WidthRead)
  BY <1>1 DEF WidthInv
<1>4. args'.width = args.width => WidthAsked(i, args)' = args'.width
  BY <1>1, <1>3, WidthLeft
<1>5. CASE NoPrecision
  <2>1. args'.width = args.width
    BY <1>2, <1>5 DEF NoPrecision, Directive
  <2> QED
    BY <1>4, <2>1
<1>6. CASE StarPrecision
  <2>1. PICK p, f : args' = [args EXCEPT !.precision = p, !.flag = f]
    BY <1>6, Zenon DEF StarPrecision
  <2>2. args'.width = args.width
    BY <1>2, <2>1 DEF Directive
  <2> QED
    BY <1>4, <2>2
<1>7. CASE LiteralPrecision
  <2> DEFINE n == NumberStart
             p == CASE Ch(n) = "-" -> Signed(-ft_atoll(n + 1), IntBits)
                    [] Ch(n) = "+" -> Signed(ft_atoll(n + 1), IntBits)
                    [] OTHER       -> Signed(ft_atoll(n), IntBits)
  <2>1. /\ Ch(j) = "." /\ Ch(j + 1) # "*"
        /\ args' = IF p >= 0 THEN [args EXCEPT !.precision = p, !.flag = ZeroUnset(args, p)]
                   ELSE IF args.spec = "f" THEN [args EXCEPT !.precision = FloatPrecision]
                   ELSE [args EXCEPT !.precision = p, !.width = Signed(-p, IntBits),
                                     !.flag = args.flag \cup {"MINUS"}]
    BY <1>7 DEF LiteralPrecision
  <2>2. p \in Int
    <3>1. str \in Formats /\ j + 1 \in 0 .. Len(str)
      BY <1>1, ParserStarts
    <3> QED
      BY <3>1, LiteralType
  <2> HIDE DEF p, n
  <2>3. args'.width = args.width \/ (args'.precision = p /\ p < 0)
    BY <1>2, <2>1, <2>2 DEF Directive
  <2>4. CASE args'.width = args.width
    BY <1>4, <2>4
  <2>5. CASE args'.precision = p /\ p < 0
    BY <1>1, <1>3, <2>1, <2>5, WidthLeft
  <2> QED
    BY <2>3, <2>4, <2>5
<1> QED
  BY <1>5, <1>6, <1>7

\* So do the steps behind it.
LEMMA WidthLast ==
  ASSUME IInv, WidthInv, NoPrecision \/ StarPrecision \/ LiteralPrecision \/ get_modifier
  PROVE  WidthInv'
<1>1. CASE NoPrecision \/ StarPrecision \/ LiteralPrecision
  <2>1. pc' = "modifier"
    BY <1>1 DEF NoPrecision, StarPrecision, LiteralPrecision
  <2> QED
    BY <1>1, <2>1, WidthPrecise DEF WidthInv
<1>2. CASE get_modifier
  <2>1. pc = "modifier" /\ pc' \in {"modifier", "print"} /\ UNCHANGED <<str, i>>
    BY <1>2 DEF get_modifier
  <2>2. args \in Directive
    BY <2>1, ParserStarts
  <2>3. args'.width = args.width /\ args'.precision = args.precision
    BY <1>2, <2>2, Zenon DEF get_modifier, Directive
  <2>4. \/ WidthTaken
        \/ args.width = WidthRead
        \/ Ch(WidthEnd(i)) = "." /\ Ch(WidthEnd(i) + 1) # "*" /\ args.precision < 0
    BY <2>1 DEF WidthInv, WidthAsked, WidthTaken, WidthRead
  <2>5. WidthAsked(i, args)' = args'.width
    BY <2>1, <2>3, <2>4, WidthLeft
  <2> QED
    BY <2>1, <2>5 DEF WidthInv
<1> QED
  BY <1>1, <1>2

\* The search for the specifier starts with no width, and keeps it.
LEMMA WidthFirst ==
  ASSUME IInv, WidthInv, StartDirective \/ get_specifier
  PROVE  WidthInv'
<1>1. initialize_args.width = 0
  BY DEF initialize_args
<1>2. CASE StartDirective
  <2>1. args' = initialize_args /\ pc' \in {"end", "spec"}
    BY <1>2 DEF StartDirective
  <2> QED
    BY <1>1, <2>1 DEF WidthInv
<1>3. CASE get_specifier
  <2>1. /\ args.width = 0 /\ args \in Directive /\ i \in -1 .. Len(str) /\ Len(str) \in Nat
    BY <1>3, FormatFacts DEF get_specifier, WidthInv, IInv, TypeInv
  <2>2. \/ pc' = "next"
        \/ \E n, c : /\ args' = [args EXCEPT !.specIndex = n, !.spec = c]
                     /\ j' = i + 1 /\ i' = i /\ pc' = "flags"
    BY <1>3, Zenon DEF get_specifier
  <2>3. CASE pc' = "next"
    BY <2>3 DEF WidthInv
  <2>4. CASE pc' # "next"
    <3>1. /\ args'.width = 0 /\ pc' = "flags" /\ j' = i + 1 /\ i' = i
      BY <2>1, <2>2, <2>4 DEF Directive
    <3>2. i' + 1 .. j' - 1 = {}
      BY <2>1, <3>1
    <3>3. \A k \in i' + 1 .. j' - 1 : Ch(k)' \in FlagSet'
      BY <3>2
    <3> QED
      BY <3>1, <3>3 DEF WidthInv
  <2> QED
    BY <2>3, <2>4
<1> QED
  BY <1>2, <1>3

\* Every step of ft_printf keeps the width what the format asks for.
LEMMA WidthNext == IInv /\ WidthInv /\ [Next]_vars => WidthInv'
<1> SUFFICES ASSUME IInv, WidthInv, [Next]_vars
             PROVE  WidthInv'
  OBVIOUS
<1>1. CASE StartDirective \/ get_specifier
  BY <1>1, WidthFirst
<1>2. CASE get_flags \/ WidthDigits \/ WidthStar \/ WidthDone
  BY <1>2, WidthParse
<1>3. CASE NoPrecision \/ StarPrecision \/ LiteralPrecision \/ get_modifier
  BY <1>3, WidthLast
<1>4. CASE PrintD \/ PrintPoubx \/ PrintS \/ PrintF \/ PrintC
  <2>1. pc' = "next"
    BY <1>4 DEF PrintD, PrintPoubx, PrintS, PrintF, PrintC, Emit
  <2> QED
    BY <2>1 DEF WidthInv
<1>5. CASE EndOfFormat \/ ReadPastEnd \/ PlainChar \/ OpenBrace
  <2>1. pc' \in {"end", "overrun", "next"}
    BY <1>5 DEF EndOfFormat, ReadPastEnd, PlainChar, OpenBrace, AtNext
  <2> QED
    BY <2>1 DEF WidthInv
<1>6. CASE UNCHANGED vars
  <2>1. UNCHANGED <<str, i, j, args, pc>>
    BY <1>6 DEF vars
  <2>2. /\ \A n : Ch(n)' = Ch(n)
        /\ WidthStart(i)' = WidthStart(i) /\ WidthEnd(i)' = WidthEnd(i)
        /\ WidthRead' = WidthRead /\ WidthTaken' = WidthTaken
    BY <2>1, WidthSame
  <2>3. WidthAsked(i, args)' = WidthAsked(i, args)
    BY <2>1, <2>2 DEF WidthAsked, WidthTaken, WidthRead
  <2>4. \A k : Ch(k) \in FlagSet <=> Ch(k)' \in FlagSet'
    BY <2>2 DEF FlagSet
  <2> QED
    BY <2>1, <2>2, <2>3, <2>4 DEF WidthInv
<1>7. CASE Ended /\ UNCHANGED vars
  BY <1>6, <1>7
<1> QED
  BY <1>1, <1>2, <1>3, <1>4, <1>5, <1>6, <1>7 DEF Next

\* Every field so far was printed with the width that its directive asks for.
AskedInv == \A n \in DOMAIN conv : WidthAsked(conv[n].from, conv[n].args) = conv[n].args.width

\* The printers print with the width that the parsers have left.
LEMMA AskedNext ==
  IInv /\ WidthInv /\ ConvInv /\ AskedInv /\ [Next]_vars => AskedInv'
<1> SUFFICES ASSUME IInv, WidthInv, ConvInv, AskedInv, [Next]_vars
             PROVE  AskedInv'
  OBVIOUS
<1>1. str' = str
  BY DEF Next, vars, EndOfFormat, ReadPastEnd, StartDirective, PlainChar, OpenBrace, get_specifier,
         get_flags, WidthDigits, WidthStar, WidthDone, NoPrecision, StarPrecision, LiteralPrecision,
         get_modifier, PrintD, PrintPoubx, PrintS, PrintF, PrintC, Emit
<1>2. \A n, a : WidthAsked(n, a)' = WidthAsked(n, a)
  <2>1. \A n : Ch(n)' = Ch(n) /\ DigitsEnd(n)' = DigitsEnd(n)
    BY <1>1, Zenon DEF DigitsEnd, FirstFrom, Ch
  <2>2. \A n : ft_atoll(n)' = ft_atoll(n)
    BY <1>1 DEF ft_atoll, DigitsEnd, FirstFrom, Ch
  <2>3. \A n : WidthStart(n)' = WidthStart(n)
    BY <1>1, Zenon DEF WidthStart, FirstFrom, Ch
  <2>4. \A n : WidthEnd(n)' = WidthEnd(n)
    BY <1>1, Zenon DEF WidthEnd, WidthStart, DigitsEnd, FirstFrom, Ch
  <2> QED
    BY <2>1, <2>2, <2>3, <2>4 DEF WidthAsked
<1>3. CASE PrintD \/ PrintPoubx \/ PrintS \/ PrintF \/ PrintC
  <2>1. WidthAsked(i, args) = args.width
    BY <1>3 DEF WidthInv, PrintD, PrintPoubx, PrintS, PrintF, PrintC
  <2>2. \E t, v : conv' = Append(conv, [args |-> args, from |-> i, text |-> t, value |-> v])
    BY <1>3 DEF PrintD, PrintPoubx, PrintS, PrintF, PrintC, Emit
  <2>3. PICK c : conv' = Append(conv, c) /\ c.args = args /\ c.from = i
    BY <2>2
  <2>4. conv \in Seq({c1 \in Converted : Right(c1)})
    BY DEF ConvInv
  <2>5. ASSUME NEW n \in DOMAIN conv'
        PROVE  WidthAsked(conv'[n].from, conv'[n].args) = conv'[n].args.width
    <3>1. CASE n \in DOMAIN conv
      <4>1. conv'[n] = conv[n]
        BY <2>3, <2>4, <3>1
      <4> QED
        BY <3>1, <4>1 DEF AskedInv
    <3>2. CASE n \notin DOMAIN conv
      <4>1. conv'[n] = c
        BY <2>3, <2>4, <2>5, <3>2
      <4> QED
        BY <2>1, <2>3, <4>1
    <3> QED
      BY <3>1, <3>2
  <2> QED
    BY <1>2, <2>5 DEF AskedInv
<1>4. ASSUME conv' = conv
      PROVE  AskedInv'
  BY <1>2, <1>4 DEF AskedInv
<1>5. CASE EndOfFormat \/ ReadPastEnd \/ StartDirective \/ PlainChar \/ OpenBrace \/ get_specifier
  BY <1>4, <1>5 DEF EndOfFormat, ReadPastEnd, StartDirective, PlainChar, OpenBrace, get_specifier
<1>6. CASE get_flags \/ WidthDigits \/ WidthStar \/ WidthDone \/ get_modifier
  BY <1>4, <1>6 DEF get_flags, WidthDigits, WidthStar, WidthDone, get_modifier
<1>7. CASE NoPrecision \/ StarPrecision \/ LiteralPrecision
  BY <1>4, <1>7 DEF NoPrecision, StarPrecision, LiteralPrecision
<1>8. CASE UNCHANGED vars
  BY <1>4, <1>8 DEF vars
<1> QED
  BY <1>3, <1>5, <1>6, <1>7, <1>8 DEF Next

\* So the width printed is the one that the format asks for, at any time.
LEMMA AskedInvariance == Spec => []AskedInv
<1>1. Init => WidthInv /\ AskedInv
  BY DEF Init, WidthInv, AskedInv
<1>2. Spec => []WidthInv
  BY <1>1, WidthNext, Invariance, PTL DEF Spec
<1> QED
  BY <1>1, <1>2, AskedNext, ConvInvariance, Invariance, PTL DEF Spec

-----------------------------------------------------------------------------
\* A field is as wide as the format asks and filled with blanks only up to there,
\* and an integer has as many digits as its precision asks for (ft_width.c,
\* ft_precision.c), whatever flags, width and precision the format combines.
THEOREM FieldsKept == Spec => []FieldKept
<1>1. ConvInv /\ AskedInv => FieldKept
  <2> SUFFICES ASSUME ConvInv, AskedInv, NEW c \in Converted
               PROVE  /\ Len(c.text) >= WidthAsked(c.from, c.args)
                      /\ Len(c.text) > WidthAsked(c.from, c.args) =>
                           \A n \in DOMAIN c.text \ Solid(c.text) :
                             (n = 1 /\ "SPACE" \in c.args.flag) \/ OwnBlank(c)
                      /\ Integral(c) => Len(DigitsShown(c)) >= c.args.precision
    BY DEF FieldKept
  <2>1. Right(c)
    BY DEF ConvInv, Converted
  <2>2. WidthAsked(c.from, c.args) = c.args.width
    BY DEF AskedInv, Converted
  <2> QED
    BY <2>1, <2>2 DEF Right, Fitting, Fills
<1> QED
  BY <1>1, ConvInvariance, AskedInvariance, PTL

\* The digits that d, i, u, o, x, X, b and p write denote the argument, whatever
\* surrounds them, for every width of the integer types and every argument.
THEOREM ValuesKept == Spec => []ValueKept
<1>1. ConvInv => ValueKept
  <2> SUFFICES ASSUME ConvInv, NEW c \in Converted
               PROVE  Integral(c) /\ ~({"MINUS", "ZERO"} \subseteq c.args.flag) =>
                        /\ {DigitsShown(c)[n] : n \in DOMAIN DigitsShown(c)} \subseteq DOMAIN HexValue
                        /\ ValueShown(c) = c.value
    BY DEF ValueKept
  <2>1. Right(c)
    BY DEF ConvInv, Converted
  <2> QED
    BY <2>1 DEF Right, Denoting
<1> QED
  BY <1>1, ConvInvariance, PTL
=============================================================================
