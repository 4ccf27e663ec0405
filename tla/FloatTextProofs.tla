--------------------------- MODULE FloatTextProofs ---------------------------
(***************************************************************************)
(* Proofs about FloatText, for every number of mantissa bits, every bias   *)
(* and every precision: the strings of digits hold the exact number until  *)
(* it is rounded, and what is printed is the nearest number with as many   *)
(* places as the precision asks for.                                       *)
(*                                                                         *)
(* The lemmas in front say that the column arithmetic of sum_string,       *)
(* multiply_string and ft_large_pow computes sums, products and powers.    *)
(***************************************************************************)
EXTENDS FloatText, TLAPS, NumberInduction, SequenceTheorems

Digit == 0 .. 9

-----------------------------------------------------------------------------
\* Powers
PowersTo(b, n, f) == f = [k \in 0 .. n |-> IF k = 0 THEN 1 ELSE b * f[k - 1]]

\* The function inside Power exists.
LEMMA PowerSteps ==
  ASSUME NEW b \in Nat, NEW N \in Nat
  PROVE  \E f \in [0 .. N -> Nat] :
           PowersTo(b, N, f) /\ f[0] = 1 /\ \A n \in 0 .. N - 1 : f[n + 1] = b * f[n]
<1> DEFINE F == [p \in (1 .. N) \X Nat |-> b * p[2]]
           before == [n \in 1 .. N |-> n - 1]
<1>1. before \in [1 .. N -> Nat] /\ \A n \in 1 .. N : before[n] < n /\ before[n] = n - 1
  OBVIOUS
<1>2. F \in [(1 .. N) \X Nat -> Nat]
  <2>1. \A v \in Nat : b * v \in Nat
    OBVIOUS
  <2> QED
    BY <2>1
<1>3. \A n \in 1 .. N, v \in Nat : F[<<n, v>>] = b * v
  OBVIOUS
<1> HIDE DEF F, before
<1>4. Recursive(Nat, 1, N, before, F)
  BY <1>1, <1>2, Recursion
<1>5. PICK g \in [0 .. N -> Nat] : Follows(g, 1, N, before, F)
  BY <1>4 DEF Recursive
<1>6. \A n \in 1 .. N : g[n] = b * g[n - 1]
  <2> SUFFICES ASSUME NEW n \in 1 .. N
               PROVE  g[n] = b * g[n - 1]
    OBVIOUS
  <2>1. g[n - 1] \in Nat
    OBVIOUS
  <2>2. g[n] = F[<<n, g[n - 1]>>]
    BY <1>1, <1>5 DEF Follows
  <2> QED
    BY <1>3, <2>1, <2>2
<1>7. g[0] = 1
  BY <1>5 DEF Follows
<1>8. PowersTo(b, N, g)
  BY <1>6, <1>7 DEF PowersTo
<1>9. \A n \in 0 .. N - 1 : g[n + 1] = b * g[n]
  <2> SUFFICES ASSUME NEW n \in 0 .. N - 1
               PROVE  g[n + 1] = b * g[n]
    OBVIOUS
  <2>1. n + 1 \in 1 .. N /\ (n + 1) - 1 = n
    OBVIOUS
  <2> QED
    BY <1>6, <2>1
<1> QED
  BY <1>7, <1>8, <1>9

\* The function that Power chooses is one of them, and all are the same.
LEMMA PowersAgree ==
  ASSUME NEW b \in Nat, NEW N \in Nat, NEW f, PowersTo(b, N, f), NEW g, NEW M \in Nat, PowersTo(b, M, g), N <= M
  PROVE  \A n \in 0 .. N : f[n] = g[n]
<1> DEFINE P == {n \in 0 .. N : f[n] = g[n]}
<1>1. \A n \in 0 .. N : f[n] = IF n = 0 THEN 1 ELSE b * f[n - 1]
  BY Zenon DEF PowersTo
<1>2. \A n \in 0 .. M : g[n] = IF n = 0 THEN 1 ELSE b * g[n - 1]
  BY Zenon DEF PowersTo
<1>3. 0 \in P
  BY <1>1, <1>2
<1>4. ASSUME NEW n \in 0 .. N - 1, n \in P
      PROVE  n + 1 \in P
  <2>1. n + 1 \in 0 .. N /\ n + 1 \in 0 .. M /\ n + 1 # 0 /\ (n + 1) - 1 = n
    OBVIOUS
  <2>2. f[n + 1] = b * f[n] /\ g[n + 1] = b * g[n]
    BY <1>1, <1>2, <2>1
  <2> QED
    BY <1>4, <2>1, <2>2
<1>5. \A n \in 0 .. N : n \in P
  <2> HIDE DEF P
  <2> QED
    BY <1>3, <1>4, Induct
<1> QED
  BY <1>5

\* Power is what any such function yields.
LEMMA PowerIs ==
  ASSUME NEW b \in Nat, NEW N \in Nat, NEW g \in [0 .. N -> Nat], PowersTo(b, N, g)
  PROVE  \A n \in 0 .. N : Power(b, n) = g[n]
<1> SUFFICES ASSUME NEW n \in 0 .. N
             PROVE  Power(b, n) = g[n]
  OBVIOUS
<1> DEFINE f == CHOOSE f : PowersTo(b, n, f)
<1>1. PowersTo(b, n, f)
  BY PowerSteps
<1>2. Power(b, n) = f[n]
  BY DEF Power, PowersTo
<1> HIDE DEF f
<1> QED
  BY <1>1, <1>2, PowersAgree

\* b to the n + 1 is b times b to the n.
LEMMA PowerFacts ==
  ASSUME NEW b \in Nat, NEW n \in Nat
  PROVE  Power(b, 0) = 1 /\ Power(b, n) \in Nat /\ Power(b, n + 1) = b * Power(b, n)
<1>1. PICK g \in [0 .. n + 1 -> Nat] :
        PowersTo(b, n + 1, g) /\ g[0] = 1 /\ \A k \in 0 .. (n + 1) - 1 : g[k + 1] = b * g[k]
  BY PowerSteps, n + 1 \in Nat
<1>2. \A k \in 0 .. n + 1 : Power(b, k) = g[k]
  BY <1>1, PowerIs, n + 1 \in Nat
<1>3. 0 \in 0 .. n + 1 /\ n \in 0 .. n + 1 /\ n + 1 \in 0 .. n + 1 /\ n \in 0 .. (n + 1) - 1
  OBVIOUS
<1> QED
  BY <1>1, <1>2, <1>3

\* A power of a positive number is positive.
LEMMA PowerPositive ==
  ASSUME NEW b \in Nat \ {0}, NEW n \in Nat
  PROVE  Power(b, n) \in Nat \ {0}
<1> DEFINE P == {k \in 0 .. n : Power(b, k) >= 1}
<1>1. 0 \in P
  BY PowerFacts
<1>2. ASSUME NEW k \in 0 .. n - 1, k \in P
      PROVE  k + 1 \in P
  <2>1. Power(b, k) \in Nat /\ Power(b, k) >= 1 /\ Power(b, k + 1) = b * Power(b, k)
    BY <1>2, PowerFacts
  <2>2. \A p \in Nat : p >= 1 => b * p >= 1
    OBVIOUS
  <2> QED
    BY <2>1, <2>2
<1>3. \A k \in 0 .. n : k \in P
  <2> HIDE DEF P
  <2> QED
    BY <1>1, <1>2, Induct
<1> QED
  BY <1>3, PowerFacts

\* b^(m+n) = b^m * b^n
LEMMA PowerSum ==
  ASSUME NEW b \in Nat, NEW m \in Nat, NEW n \in Nat
  PROVE  Power(b, m + n) = Power(b, m) * Power(b, n)
<1> DEFINE P == {k \in 0 .. n : Power(b, m + k) = Power(b, m) * Power(b, k)}
<1>1. 0 \in P
  BY PowerFacts
<1>2. ASSUME NEW k \in 0 .. n - 1, k \in P
      PROVE  k + 1 \in P
  <2> DEFINE l == m + k
  <2>0. l \in Nat
    OBVIOUS
  <2> HIDE DEF l
  <2>4. Power(b, l + 1) = b * Power(b, l)
    BY <2>0, PowerFacts
  <2>1. /\ Power(b, k + 1) = b * Power(b, k) /\ Power(b, (m + k) + 1) = b * Power(b, m + k)
        /\ Power(b, m) \in Nat /\ Power(b, k) \in Nat
    <3>1. Power(b, k + 1) = b * Power(b, k) /\ Power(b, k) \in Nat /\ Power(b, m) \in Nat
      BY k \in Nat, PowerFacts
    <3> QED
      BY <2>4, <3>1 DEF l
  <2>2. Power(b, m + k) = Power(b, m) * Power(b, k) /\ (m + k) + 1 = m + (k + 1)
    BY <1>2
  <2>3. \A p, q \in Nat : b * (p * q) = p * (b * q)
    OBVIOUS
  <2> QED
    BY <2>1, <2>2, <2>3
<1>3. \A k \in 0 .. n : k \in P
  <2> HIDE DEF P
  <2> QED
    BY <1>1, <1>2, Induct
<1> QED
  BY <1>3

\* 10^n = 2^n * 5^n
LEMMA PowerOfTen ==
  ASSUME NEW n \in Nat
  PROVE  Power(10, n) = Power(2, n) * Power(5, n)
<1> DEFINE P == {k \in 0 .. n : Power(10, k) = Power(2, k) * Power(5, k)}
<1>1. 0 \in P
  BY PowerFacts
<1>2. ASSUME NEW k \in 0 .. n - 1, k \in P
      PROVE  k + 1 \in P
  <2>1. /\ Power(10, k + 1) = 10 * Power(10, k) /\ Power(2, k + 1) = 2 * Power(2, k)
        /\ Power(5, k + 1) = 5 * Power(5, k) /\ Power(2, k) \in Nat /\ Power(5, k) \in Nat
    BY PowerFacts
  <2>2. Power(10, k) = Power(2, k) * Power(5, k)
    BY <1>2
  <2>3. \A p, q \in Nat : 10 * (p * q) = (2 * p) * (5 * q)
    OBVIOUS
  <2> QED
    BY <2>1, <2>2, <2>3
<1>3. \A k \in 0 .. n : k \in P
  <2> HIDE DEF P
  <2> QED
    BY <1>1, <1>2, Induct
<1> QED
  BY <1>3
-----------------------------------------------------------------------------
\* The values of strings of digits
ValuesTo(t, f) == f = [k \in 0 .. Len(t) |-> IF k = 0 THEN 0 ELSE 10 * f[k - 1] + t[k]]

\* The function inside Value exists.
LEMMA ValueSteps ==
  ASSUME NEW t \in Seq(Digit)
  PROVE  \E f \in [0 .. Len(t) -> Nat] :
           ValuesTo(t, f) /\ f[0] = 0 /\ \A n \in 0 .. Len(t) - 1 : f[n + 1] = 10 * f[n] + t[n + 1]
<1> DEFINE N == Len(t)
           F == [p \in (1 .. N) \X Nat |-> 10 * p[2] + t[p[1]]]
           before == [n \in 1 .. N |-> n - 1]
<1>1. N \in Nat /\ \A n \in 1 .. N : t[n] \in Nat
  BY DEF Digit
<1>2. \A f : ValuesTo(t, f) <=> f = [k \in 0 .. N |-> IF k = 0 THEN 0 ELSE 10 * f[k - 1] + t[k]]
  BY DEF ValuesTo
<1> HIDE DEF N
<1>3. before \in [1 .. N -> Nat] /\ \A n \in 1 .. N : before[n] < n /\ before[n] = n - 1
  BY <1>1
<1>4. F \in [(1 .. N) \X Nat -> Nat]
  <2>1. \A n \in 1 .. N, v \in Nat : 10 * v + t[n] \in Nat
    BY <1>1
  <2> QED
    BY <2>1
<1>5. \A n \in 1 .. N, v \in Nat : F[<<n, v>>] = 10 * v + t[n]
  OBVIOUS
<1> HIDE DEF F, before
<1>6. Recursive(Nat, 0, N, before, F)
  BY <1>1, <1>3, <1>4, Recursion
<1>7. PICK g \in [0 .. N -> Nat] : Follows(g, 0, N, before, F)
  BY <1>6 DEF Recursive
<1>8. \A n \in 1 .. N : g[n] = 10 * g[n - 1] + t[n]
  <2> SUFFICES ASSUME NEW n \in 1 .. N
               PROVE  g[n] = 10 * g[n - 1] + t[n]
    OBVIOUS
  <2>1. g[n - 1] \in Nat
    BY <1>1
  <2>2. g[n] = F[<<n, g[n - 1]>>]
    BY <1>3, <1>7 DEF Follows
  <2> QED
    BY <1>5, <2>1, <2>2
<1>9. g[0] = 0
  BY <1>7 DEF Follows
<1>10. ValuesTo(t, g)
  <2>1. \A n \in 0 .. N : g[n] = IF n = 0 THEN 0 ELSE 10 * g[n - 1] + t[n]
    BY <1>1, <1>8, <1>9
  <2>2. g = [k \in 0 .. N |-> IF k = 0 THEN 0 ELSE 10 * g[k - 1] + t[k]]
    BY <2>1
  <2> QED
    BY <1>2, <2>2
<1>11. \A n \in 0 .. N - 1 : g[n + 1] = 10 * g[n] + t[n + 1]
  <2> SUFFICES ASSUME NEW n \in 0 .. N - 1
               PROVE  g[n + 1] = 10 * g[n] + t[n + 1]
    OBVIOUS
  <2>1. n + 1 \in 1 .. N /\ (n + 1) - 1 = n
    BY <1>1
  <2> QED
    BY <1>8, <2>1
<1> QED
  BY <1>9, <1>10, <1>11 DEF N

\* A prefix of a text has the values of the text.
LEMMA ValuesAgree ==
  ASSUME NEW t \in Seq(Digit), NEW u \in Seq(Digit), Len(t) <= Len(u),
         \A k \in 1 .. Len(t) : t[k] = u[k],
         NEW f, ValuesTo(t, f), NEW g, ValuesTo(u, g)
  PROVE  f[Len(t)] = g[Len(t)]
<1> DEFINE N == Len(t)
           M == Len(u)
           P == {n \in 0 .. N : f[n] = g[n]}
<1>0. N \in Nat /\ M \in Nat /\ N <= M /\ \A k \in 1 .. N : t[k] = u[k]
  OBVIOUS
<1>1. \A n \in 0 .. N : f[n] = IF n = 0 THEN 0 ELSE 10 * f[n - 1] + t[n]
  BY Zenon DEF ValuesTo
<1>2. \A n \in 0 .. M : g[n] = IF n = 0 THEN 0 ELSE 10 * g[n - 1] + u[n]
  BY Zenon DEF ValuesTo
<1> HIDE DEF N, M
<1>3. 0 \in P
  BY <1>0, <1>1, <1>2
<1>4. ASSUME NEW n \in 0 .. N - 1, n \in P
      PROVE  n + 1 \in P
  <2>1. n + 1 \in 0 .. N /\ n + 1 \in 0 .. M /\ n + 1 # 0 /\ (n + 1) - 1 = n /\ n + 1 \in 1 .. N
    BY <1>0
  <2>2. f[n + 1] = 10 * f[n] + t[n + 1] /\ g[n + 1] = 10 * g[n] + u[n + 1]
    BY <1>1, <1>2, <2>1
  <2>3. t[n + 1] = u[n + 1]
    BY <1>0, <2>1
  <2> QED
    BY <1>4, <2>1, <2>2, <2>3
<1>5. \A n \in 0 .. N : n \in P
  <2> HIDE DEF P
  <2> QED
    BY <1>0, <1>3, <1>4, Induct
<1>6. N \in P
  BY <1>0, <1>5
<1> QED
  BY <1>6 DEF N

\* Value is what any such function yields at the end of the text.
LEMMA ValueIs ==
  ASSUME NEW t \in Seq(Digit), NEW f, ValuesTo(t, f)
  PROVE  Value(t) = f[Len(t)]
<1> DEFINE g == CHOOSE g : ValuesTo(t, g)
<1>1. ValuesTo(t, g)
  OBVIOUS
<1>2. Value(t) = g[Len(t)]
  BY DEF Value, ValuesTo
<1> HIDE DEF g
<1>3. \A k \in 1 .. Len(t) : t[k] = t[k]
  OBVIOUS
<1>4. Len(t) <= Len(t)
  OBVIOUS
<1> QED
  BY <1>1, <1>2, <1>3, <1>4, ValuesAgree

\* Digits denote a natural number.
LEMMA ValueType ==
  ASSUME NEW t \in Seq(Digit)
  PROVE  Value(t) \in Nat
<1>1. PICK f \in [0 .. Len(t) -> Nat] : ValuesTo(t, f)
  BY ValueSteps
<1> QED
  BY <1>1, ValueIs

\* No digits denote 0.
LEMMA ValueNone == <<>> \in Seq(Digit) /\ Value(<<>>) = 0
<1>1. <<>> \in Seq(Digit) /\ Len(<<>>) = 0
  OBVIOUS
<1>2. PICK f \in [0 .. Len(<<>>) -> Nat] : ValuesTo(<<>>, f) /\ f[0] = 0
  BY <1>1, ValueSteps
<1> QED
  BY <1>1, <1>2, ValueIs

\* One digit more.
LEMMA ValueMore ==
  ASSUME NEW t \in Seq(Digit), NEW d \in Digit
  PROVE  Append(t, d) \in Seq(Digit) /\ Value(Append(t, d)) = 10 * Value(t) + d
<1> DEFINE u == Append(t, d)
           N == Len(t)
<1>1. /\ u \in Seq(Digit) /\ Len(u) = N + 1 /\ N \in Nat /\ u[N + 1] = d
      /\ Len(t) <= Len(u) /\ \A k \in 1 .. Len(t) : t[k] = u[k]
  OBVIOUS
<1> HIDE DEF u
<1>2. PICK g \in [0 .. Len(u) -> Nat] :
        ValuesTo(u, g) /\ g[0] = 0 /\ \A n \in 0 .. Len(u) - 1 : g[n + 1] = 10 * g[n] + u[n + 1]
  BY <1>1, ValueSteps
<1>3. PICK f \in [0 .. Len(t) -> Nat] : ValuesTo(t, f)
  BY ValueSteps
<1>4. f[N] = g[N]
  BY <1>1, <1>2, <1>3, ValuesAgree
<1>5. Value(t) = f[N] /\ Value(u) = g[N + 1]
  BY <1>1, <1>2, <1>3, ValueIs
<1>6. g[N + 1] = 10 * g[N] + u[N + 1]
  BY <1>1, <1>2
<1> QED
  BY <1>1, <1>4, <1>5, <1>6 DEF u

\* A digit in front of a text, seen from its end.
LEMMA TextSplits ==
  ASSUME NEW t \in Seq(Digit), NEW k \in 0 .. Len(t) - 1
  PROVE  /\ SubSeq(t, 1, k) \in Seq(Digit) /\ SubSeq(t, 1, 0) = <<>> /\ SubSeq(t, 1, Len(t)) = t
         /\ t[k + 1] \in Digit /\ SubSeq(t, 1, k + 1) = Append(SubSeq(t, 1, k), t[k + 1])
         /\ SubSeq(t, 1, k + 1) \in Seq(Digit) /\ Len(SubSeq(t, 1, k)) = k
OBVIOUS

\* A digit may be appended before or after two texts are joined.
LEMMA JoinOneMore ==
  ASSUME NEW a \in Seq(Digit), NEW s \in Seq(Digit), NEW d \in Digit
  PROVE  a \o s \in Seq(Digit) /\ a \o Append(s, d) = Append(a \o s, d)
OBVIOUS

\* Digits in front of others are worth a power of ten.
LEMMA ValueJoin ==
  ASSUME NEW a \in Seq(Digit), NEW b \in Seq(Digit)
  PROVE  a \o b \in Seq(Digit) /\ Value(a \o b) = Value(a) * Power(10, Len(b)) + Value(b)
<1> DEFINE N == Len(b)
           b1(k) == SubSeq(b, 1, k)
           P == {k \in 0 .. N : Value(a \o b1(k)) = Value(a) * Power(10, k) + Value(b1(k))}
<1>0. N \in Nat /\ Value(a) \in Nat
  BY ValueType
<1>1. 0 \in P
  <2>1. b1(0) = <<>> /\ a \o <<>> = a
    OBVIOUS
  <2>2. Value(a) = Value(a) * 1 + 0
    BY <1>0
  <2> HIDE DEF b1
  <2>3. Value(a \o b1(0)) = Value(a) * Power(10, 0) + Value(b1(0))
    BY <2>1, <2>2, ValueNone, PowerFacts
  <2> QED
    BY <1>0, <2>3
<1>2. ASSUME NEW k \in 0 .. N - 1, k \in P
      PROVE  k + 1 \in P
  <2>1. /\ b1(k) \in Seq(Digit) /\ b[k + 1] \in Digit
        /\ b1(k + 1) = Append(b1(k), b[k + 1])
    BY TextSplits
  <2> HIDE DEF b1
  <2>2. a \o b1(k) \in Seq(Digit) /\ a \o b1(k + 1) = Append(a \o b1(k), b[k + 1])
    <3> DEFINE u == b1(k)
               d == b[k + 1]
    <3>1. u \in Seq(Digit) /\ d \in Digit
      BY <2>1
    <3> HIDE DEF u, d
    <3>2. a \o u \in Seq(Digit) /\ a \o Append(u, d) = Append(a \o u, d)
      BY <3>1, JoinOneMore
    <3> QED
      BY <2>1, <3>2, Zenon DEF u, d
  <2>3. Value(a \o b1(k + 1)) = 10 * Value(a \o b1(k)) + b[k + 1]
    BY <2>1, <2>2, ValueMore
  <2>4. Value(b1(k + 1)) = 10 * Value(b1(k)) + b[k + 1]
    BY <2>1, ValueMore
  <2>5. k \in Nat /\ Value(b1(k)) \in Nat /\ b[k + 1] \in Nat
    BY <2>1, ValueType, SMTT(30) DEF Digit
  <2>6. Power(10, k + 1) = 10 * Power(10, k) /\ Power(10, k) \in Nat
    BY <2>5, PowerFacts
  <2>7. Value(a \o b1(k)) = Value(a) * Power(10, k) + Value(b1(k))
    BY <1>2
  <2>8. \A v, p, w, d \in Nat : 10 * (v * p + w) + d = v * (10 * p) + (10 * w + d)
    OBVIOUS
  <2>9. Value(a \o b1(k + 1)) = Value(a) * Power(10, k + 1) + Value(b1(k + 1))
    BY <1>0, <2>3, <2>4, <2>5, <2>6, <2>7, <2>8
  <2> QED
    BY <1>0, <2>9
<1>3. \A k \in 0 .. N : k \in P
  <2> HIDE DEF P
  <2> QED
    BY <1>0, <1>1, <1>2, Induct
<1>4. b1(N) = b
  OBVIOUS
<1>5. Value(a \o b1(N)) = Value(a) * Power(10, N) + Value(b1(N))
  BY <1>0, <1>3
<1>6. a \o b \in Seq(Digit)
  OBVIOUS
<1> HIDE DEF b1
<1> QED
  BY <1>4, <1>5, <1>6

\* n digits denote less than 10^n.
LEMMA ValueBound ==
  ASSUME NEW t \in Seq(Digit)
  PROVE  Value(t) < Power(10, Len(t))
<1> DEFINE N == Len(t)
           t1(k) == SubSeq(t, 1, k)
           P == {k \in 0 .. N : Value(t1(k)) < Power(10, k)}
<1>0. N \in Nat
  OBVIOUS
<1>1. 0 \in P
  <2>1. t1(0) = <<>>
    OBVIOUS
  <2> HIDE DEF t1
  <2> QED
    BY <1>0, <2>1, ValueNone, PowerFacts
<1>2. ASSUME NEW k \in 0 .. N - 1, k \in P
      PROVE  k + 1 \in P
  <2>1. /\ t1(k) \in Seq(Digit) /\ t[k + 1] \in Digit
        /\ t1(k + 1) = Append(t1(k), t[k + 1])
    BY TextSplits
  <2> HIDE DEF t1
  <2>2. Value(t1(k + 1)) = 10 * Value(t1(k)) + t[k + 1]
    BY <2>1, ValueMore
  <2>3. k \in Nat /\ Value(t1(k)) \in Nat /\ t[k + 1] \in Digit
    BY <2>1, ValueType
  <2>4. Power(10, k + 1) = 10 * Power(10, k) /\ Power(10, k) \in Nat
    BY <2>3, PowerFacts
  <2>5. Value(t1(k)) < Power(10, k)
    BY <1>2
  <2>6. \A v, p \in Nat, d \in Digit : v < p => 10 * v + d < 10 * p
    BY DEF Digit
  <2>7. Value(t1(k + 1)) < Power(10, k + 1)
    BY <2>2, <2>3, <2>4, <2>5, <2>6
  <2> QED
    BY <1>0, <2>7
<1>3. \A k \in 0 .. N : k \in P
  <2> HIDE DEF P
  <2> QED
    BY <1>0, <1>1, <1>2, Induct
<1>4. t1(N) = t
  OBVIOUS
<1>5. Value(t1(N)) < Power(10, N)
  BY <1>0, <1>3
<1> HIDE DEF t1
<1> QED
  BY <1>4, <1>5

\* Zeros denote 0.
LEMMA ValueOfZeros ==
  ASSUME NEW t \in Seq(Digit), \A k \in 1 .. Len(t) : t[k] = 0
  PROVE  Value(t) = 0
<1> DEFINE N == Len(t)
           t1(k) == SubSeq(t, 1, k)
           P == {k \in 0 .. N : Value(t1(k)) = 0}
<1>0. N \in Nat
  OBVIOUS
<1>1. 0 \in P
  <2>1. t1(0) = <<>>
    OBVIOUS
  <2> HIDE DEF t1
  <2> QED
    BY <1>0, <2>1, ValueNone
<1>2. ASSUME NEW k \in 0 .. N - 1, k \in P
      PROVE  k + 1 \in P
  <2>1. /\ t1(k) \in Seq(Digit) /\ t[k + 1] \in Digit
        /\ t1(k + 1) = Append(t1(k), t[k + 1])
    BY TextSplits
  <2>2. t[k + 1] = 0
    OBVIOUS
  <2> HIDE DEF t1
  <2>3. Value(t1(k + 1)) = 10 * Value(t1(k)) + t[k + 1]
    BY <2>1, ValueMore
  <2>4. Value(t1(k + 1)) = 0
    BY <1>2, <2>2, <2>3
  <2> QED
    BY <1>0, <2>4
<1>3. \A k \in 0 .. N : k \in P
  <2> HIDE DEF P
  <2> QED
    BY <1>0, <1>1, <1>2, Induct
<1>4. t1(N) = t
  OBVIOUS
<1>5. Value(t1(N)) = 0
  BY <1>0, <1>3
<1> HIDE DEF t1
<1> QED
  BY <1>4, <1>5

\* A digit denotes itself.
LEMMA ValueOfDigit ==
  ASSUME NEW d \in Digit
  PROVE  <<d>> \in Seq(Digit) /\ Len(<<d>>) = 1 /\ Value(<<d>>) = d
<1>1. <<d>> \in Seq(Digit) /\ <<d>> = Append(<<>>, d) /\ Len(<<d>>) = 1
  OBVIOUS
<1>2. Value(Append(<<>>, d)) = 10 * 0 + d
  BY ValueNone, ValueMore
<1>3. 10 * 0 + d = d
  BY DEF Digit
<1> QED
  BY <1>1, <1>2, <1>3

\* A digit in front that is not 0 bounds the value from below.
LEMMA ValueAtLeast ==
  ASSUME NEW t \in Seq(Digit), NEW n \in Nat, Len(t) = n + 1, t[1] # 0
  PROVE  Value(t) >= Power(10, n)
<1> DEFINE r == SubSeq(t, 2, Len(t))
<1>1. t[1] \in Digit /\ r \in Seq(Digit) /\ Len(r) = n /\ t = <<t[1]>> \o r
  OBVIOUS
<1> HIDE DEF r
<1>2. Value(t) = Value(<<t[1]>>) * Power(10, n) + Value(r)
  <2>1. <<t[1]>> \in Seq(Digit)
    BY <1>1, ValueOfDigit
  <2>2. Value(<<t[1]>> \o r) = Value(<<t[1]>>) * Power(10, Len(r)) + Value(r)
    BY <1>1, <2>1, ValueJoin
  <2> QED
    BY <1>1, <2>2
<1>3. Value(<<t[1]>>) = t[1] /\ Value(r) \in Nat /\ Power(10, n) \in Nat
  BY <1>1, ValueOfDigit, ValueType, PowerFacts
<1>4. \A p, v \in Nat, d \in Digit : d # 0 => d * p + v >= p
  BY DEF Digit
<1> QED
  BY <1>1, <1>2, <1>3, <1>4

\* The number that the last k digits stand for: the columns of the text add up.
Low(t, k) == IF k <= Len(t) THEN Value(SubSeq(t, Len(t) + 1 - k, Len(t))) ELSE Value(t)

\* A column holds a digit.
LEMMA ColumnType ==
  ASSUME NEW t \in Seq(Digit), NEW k \in Nat \ {0}
  PROVE  Column(t, k) \in Digit
BY DEF Column, Digit

\* No columns are worth nothing, all of them the number.
LEMMA LowEnds ==
  ASSUME NEW t \in Seq(Digit), NEW n \in Nat
  PROVE  Low(t, 0) = 0 /\ (n >= Len(t) => Low(t, n) = Value(t)) /\ Low(t, n) \in Nat
<1>1. SubSeq(t, Len(t) + 1 - 0, Len(t)) = <<>> /\ Len(t) \in Nat
  OBVIOUS
<1>2. Low(t, 0) = 0
  <2>1. Low(t, 0) = Value(SubSeq(t, Len(t) + 1 - 0, Len(t)))
    BY <1>1 DEF Low
  <2>2. Low(t, 0) = Value(<<>>)
    BY <1>1, <2>1, Zenon
  <2> QED
    BY <2>2, ValueNone
<1>3. ASSUME n = Len(t)
      PROVE  SubSeq(t, Len(t) + 1 - n, Len(t)) = t
  BY <1>3
<1>4. ASSUME n >= Len(t)
      PROVE  Low(t, n) = Value(t)
  <2>1. CASE n = Len(t)
    <3>1. Low(t, n) = Value(SubSeq(t, Len(t) + 1 - n, Len(t)))
      BY <1>1, <2>1 DEF Low
    <3> QED
      BY <1>3, <2>1, <3>1, Zenon
  <2>2. CASE n > Len(t)
    BY <1>1, <2>2 DEF Low
  <2> QED
    BY <1>1, <1>4, <2>1, <2>2
<1>5. n <= Len(t) => SubSeq(t, Len(t) + 1 - n, Len(t)) \in Seq(Digit)
  OBVIOUS
<1>6. Low(t, n) \in Nat
  BY <1>5, ValueType DEF Low
<1> QED
  BY <1>2, <1>4, <1>6

\* One column more is worth its digit times a power of ten.
LEMMA LowStep ==
  ASSUME NEW t \in Seq(Digit), NEW k \in Nat
  PROVE  Low(t, k + 1) = Low(t, k) + Column(t, k + 1) * Power(10, k)
<1>1. CASE k < Len(t)
  <2> DEFINE d == t[Len(t) - k]
             r == SubSeq(t, Len(t) + 1 - k, Len(t))
  <2>1. /\ d \in Digit /\ r \in Seq(Digit) /\ Len(r) = k
        /\ SubSeq(t, Len(t) + 1 - (k + 1), Len(t)) = <<d>> \o r
    BY <1>1
  <2>2. Low(t, k) = Value(r) /\ Column(t, k + 1) = d
    BY <1>1 DEF Low, Column
  <2>3. Low(t, k + 1) = Value(<<d>> \o r)
    <3>1. Low(t, k + 1) = Value(SubSeq(t, Len(t) + 1 - (k + 1), Len(t)))
      BY <1>1 DEF Low
    <3> HIDE DEF d, r
    <3> QED
      BY <2>1, <3>1, Zenon
  <2> HIDE DEF d, r
  <2>4. <<d>> \in Seq(Digit) /\ Value(<<d>>) = d
    BY <2>1, ValueOfDigit
  <2>5. Value(<<d>> \o r) = Value(<<d>>) * Power(10, Len(r)) + Value(r)
    BY <2>1, <2>4, ValueJoin
  <2>6. Value(<<d>> \o r) = d * Power(10, k) + Value(r)
    BY <2>1, <2>4, <2>5
  <2>7. d \in Nat /\ Power(10, k) \in Nat /\ Value(r) \in Nat
    <3>1. Value(r) \in Nat /\ Power(10, k) \in Nat
      BY <2>1, ValueType, PowerFacts
    <3> QED
      BY <2>1, <3>1 DEF Digit
  <2>8. \A m, p, v \in Nat : m * p + v = v + m * p
    OBVIOUS
  <2> QED
    BY <2>2, <2>3, <2>6, <2>7, <2>8
<1>2. CASE k >= Len(t)
  <2>1. Low(t, k) = Value(t) /\ Low(t, k + 1) = Value(t) /\ Column(t, k + 1) = 0
    BY <1>2, LowEnds DEF Low, Column
  <2>2. Power(10, k) \in Nat /\ Value(t) \in Nat
    BY ValueType, PowerFacts
  <2>3. \A v, p \in Nat : v = v + 0 * p
    OBVIOUS
  <2> QED
    BY <2>1, <2>2, <2>3
<1> QED
  BY <1>1, <1>2

-----------------------------------------------------------------------------
\* sum_string adds.
SumLength(a, b) == Larger(Len(a), Len(b))
CarriesTo(a, b, f) ==
  f = [k \in 0 .. SumLength(a, b) |->
         IF k = 0 THEN 0 ELSE (Column(a, k) + Column(b, k) + f[k - 1]) \div 10]

\* Two digits and a carry make a digit and a carry of at most 1.
LEMMA CarryDigit ==
  ASSUME NEW c \in Digit, NEW d \in Digit, NEW v \in 0 .. 1
  PROVE  (c + d + v) \div 10 \in 0 .. 1 /\ (c + d + v) % 10 \in Digit
         /\ c + d + v = ((c + d + v) % 10) + 10 * ((c + d + v) \div 10)
BY DEF Digit

\* The function of the carries in sum_string exists.
LEMMA CarrySteps ==
  ASSUME NEW a \in Seq(Digit), NEW b \in Seq(Digit)
  PROVE  \E f : CarriesTo(a, b, f)
<1> DEFINE N == SumLength(a, b)
           V == {0, 1}
           F == [p \in (1 .. N) \X V |-> (Column(a, p[1]) + Column(b, p[1]) + p[2]) \div 10]
           before == [n \in 1 .. N |-> n - 1]
<1>1. N \in Nat
  BY DEF SumLength, Larger
<1>2. \A f : CarriesTo(a, b, f) <=>
        f = [k \in 0 .. N |-> IF k = 0 THEN 0 ELSE (Column(a, k) + Column(b, k) + f[k - 1]) \div 10]
  BY DEF CarriesTo
<1> HIDE DEF N
<1>3. before \in [1 .. N -> Nat] /\ \A n \in 1 .. N : before[n] < n /\ before[n] = n - 1
  BY <1>1
<1>4. F \in [(1 .. N) \X V -> V]
  <2>1. \A n \in 1 .. N, v \in V : (Column(a, n) + Column(b, n) + v) \div 10 \in V
    <3> SUFFICES ASSUME NEW n \in 1 .. N, NEW v \in V
                 PROVE  (Column(a, n) + Column(b, n) + v) \div 10 \in V
      OBVIOUS
    <3>1. Column(a, n) \in Digit /\ Column(b, n) \in Digit
      BY <1>1, ColumnType
    <3> QED
      BY <3>1, CarryDigit
  <2> QED
    BY <2>1
<1>10. 0 \in V
  OBVIOUS
<1>5. \A n \in 1 .. N, v \in V : F[<<n, v>>] = (Column(a, n) + Column(b, n) + v) \div 10
  OBVIOUS
<1> HIDE DEF F, before
<1>6. Recursive(V, 0, N, before, F)
  <2> HIDE DEF V
  <2> QED
    BY <1>1, <1>3, <1>4, <1>10, Recursion
<1>7. PICK g \in [0 .. N -> V] : Follows(g, 0, N, before, F)
  BY <1>6 DEF Recursive
<1>8. \A n \in 0 .. N : g[n] = IF n = 0 THEN 0 ELSE (Column(a, n) + Column(b, n) + g[n - 1]) \div 10
  <2> SUFFICES ASSUME NEW n \in 0 .. N
               PROVE  g[n] = IF n = 0 THEN 0 ELSE (Column(a, n) + Column(b, n) + g[n - 1]) \div 10
    OBVIOUS
  <2>1. CASE n = 0
    BY <1>7, <2>1 DEF Follows
  <2>2. CASE n # 0
    <3>1. n \in 1 .. N /\ n - 1 \in 0 .. N
      BY <1>1, <2>2
    <3>2. g[n - 1] \in V
      BY <3>1
    <3>3. g[n] = F[<<n, g[n - 1]>>]
      BY <1>3, <1>7, <3>1 DEF Follows
    <3> HIDE DEF V
    <3>4. g[n] = (Column(a, n) + Column(b, n) + g[n - 1]) \div 10
      BY <1>5, <3>1, <3>2, <3>3
    <3> QED
      BY <2>2, <3>4
  <2> QED
    BY <2>1, <2>2
<1>9. g = [k \in 0 .. N |-> IF k = 0 THEN 0 ELSE (Column(a, k) + Column(b, k) + g[k - 1]) \div 10]
  BY <1>8
<1> QED
  BY <1>2, <1>9

CarryOf(a, b) == CHOOSE f : CarriesTo(a, b, f)

\* Carries are 0 or 1, each made by the column to the right.
LEMMA CarryFacts ==
  ASSUME NEW a \in Seq(Digit), NEW b \in Seq(Digit)
  PROVE  /\ CarryOf(a, b)[0] = 0
         /\ \A k \in 0 .. SumLength(a, b) : CarryOf(a, b)[k] \in 0 .. 1
         /\ \A k \in 1 .. SumLength(a, b) :
              CarryOf(a, b)[k] = (Column(a, k) + Column(b, k) + CarryOf(a, b)[k - 1]) \div 10
<1> DEFINE N == SumLength(a, b)
           f == CarryOf(a, b)
           made(k) == IF k = 0 THEN 0 ELSE (Column(a, k) + Column(b, k) + f[k - 1]) \div 10
           P == {k \in 0 .. N : f[k] \in 0 .. 1}
<1>1. N \in Nat
  BY DEF SumLength, Larger
<1>2. CarriesTo(a, b, f)
  BY CarrySteps DEF CarryOf
<1> HIDE DEF f
<1>3. \A k \in 0 .. N : f[k] = made(k)
  <2>1. f = [k \in 0 .. N |-> made(k)]
    BY <1>2 DEF CarriesTo
  <2> HIDE DEF made, N
  <2> QED
    BY <2>1
<1> HIDE DEF N
<1>4. f[0] = 0
  BY <1>1, <1>3
<1>5. ASSUME NEW k \in 1 .. N
      PROVE  f[k] = (Column(a, k) + Column(b, k) + f[k - 1]) \div 10
  <2>1. k \in 0 .. N /\ k # 0
    BY <1>1
  <2> QED
    BY <1>3, <2>1
<1>6. 0 \in P
  BY <1>1, <1>4
<1>7. ASSUME NEW k \in 0 .. N - 1, k \in P
      PROVE  k + 1 \in P
  <2>1. k + 1 \in 1 .. N /\ (k + 1) - 1 = k /\ k + 1 \in Nat \ {0}
    BY <1>1
  <2>2. f[k + 1] = (Column(a, k + 1) + Column(b, k + 1) + f[k]) \div 10
    BY <1>5, <2>1
  <2>3. Column(a, k + 1) \in Digit /\ Column(b, k + 1) \in Digit /\ f[k] \in 0 .. 1
    BY <1>7, <2>1, ColumnType
  <2>4. f[k + 1] \in 0 .. 1
    BY <2>2, <2>3, CarryDigit
  <2> QED
    BY <1>1, <2>1, <2>4
<1>8. \A k \in 0 .. N : k \in P
  <2> HIDE DEF P
  <2> QED
    BY <1>1, <1>6, <1>7, Induct
<1> QED
  BY <1>4, <1>5, <1>8 DEF f, N

\* What one column adds, with the carries c before it and d behind it.
LEMMA ColumnAdds ==
  ASSUME NEW s \in Nat, NEW x \in Nat, NEW y \in Nat, NEW p \in Nat, NEW c \in Nat, NEW d \in Nat,
         NEW u \in Nat, NEW v \in Nat, NEW w \in Nat,
         s + c * p = x + y, u + v + c = w + 10 * d
  PROVE  (s + w * p) + d * (10 * p) = (x + u * p) + (y + v * p)
<1>1. (u + v + c) * p = (w + 10 * d) * p
  OBVIOUS
<1>2. (u + v + c) * p = u * p + v * p + c * p
  OBVIOUS
<1>3. (w + 10 * d) * p = w * p + d * (10 * p)
  OBVIOUS
<1>4. /\ u * p \in Nat /\ v * p \in Nat /\ c * p \in Nat /\ w * p \in Nat /\ d * (10 * p) \in Nat
  OBVIOUS
<1> QED
  BY <1>1, <1>2, <1>3, <1>4

SumIs(a, b, r) ==
  LET N == SumLength(a, b)
      carry == CarryOf(a, b)
  IN /\ r \in Seq(Digit)
     /\ Len(r) = IF carry[N] = 0 THEN N ELSE N + 1
     /\ \A k \in 1 .. N : Column(r, k) = (Column(a, k) + Column(b, k) + carry[k - 1]) % 10
     /\ carry[N] # 0 => Column(r, N + 1) = carry[N]

\* sum_string stores the last digit of each column, and the last carry in
\* front if there is one.
LEMMA SumDigits ==
  ASSUME NEW a \in Seq(Digit), NEW b \in Seq(Digit)
  PROVE  SumIs(a, b, sum_string(a, b))
<1> DEFINE N == SumLength(a, b)
           carry == CarryOf(a, b)
           digit(k) == IF k > N THEN carry[N] ELSE (Column(a, k) + Column(b, k) + carry[k - 1]) % 10
           len == IF carry[N] = 0 THEN N ELSE N + 1
           r == [p \in 1 .. len |-> digit(len + 1 - p)]
<1>1. sum_string(a, b) = r
  BY DEF sum_string, CarryOf, CarriesTo, SumLength
<1>2. N \in Nat
  BY DEF SumLength, Larger
<1>3. /\ \A k \in 0 .. N : carry[k] \in 0 .. 1
      /\ len \in Nat /\ len = IF carry[N] = 0 THEN N ELSE N + 1
  BY <1>2, CarryFacts
<1> HIDE DEF N, carry
<1>4. \A k \in 1 .. len : digit(k) \in Digit
  <2> SUFFICES ASSUME NEW k \in 1 .. len
               PROVE  digit(k) \in Digit
    OBVIOUS
  <2>1. CASE k > N
    BY <1>2, <1>3, <2>1 DEF Digit
  <2>2. CASE k <= N
    <3>1. k \in Nat \ {0} /\ k - 1 \in 0 .. N
      BY <1>2, <1>3, <2>2
    <3>2. Column(a, k) \in Digit /\ Column(b, k) \in Digit /\ carry[k - 1] \in 0 .. 1
      BY <1>3, <3>1, ColumnType
    <3>3. (Column(a, k) + Column(b, k) + carry[k - 1]) % 10 \in Digit
      BY <3>2, CarryDigit
    <3> QED
      BY <1>2, <2>2, <3>1, <3>3
  <2> QED
    BY <1>2, <1>3, <2>1, <2>2
<1> HIDE DEF digit, len
<1>5. \A p \in 1 .. len : len + 1 - p \in 1 .. len
  BY <1>3
<1>6. r \in Seq(Digit) /\ Len(r) = len
  BY <1>3, <1>4, <1>5
<1>7. \A k \in 1 .. len : Column(r, k) = digit(k)
  <2> SUFFICES ASSUME NEW k \in 1 .. len
               PROVE  Column(r, k) = digit(k)
    OBVIOUS
  <2>1. len + 1 - k \in 1 .. len /\ len + 1 - (len + 1 - k) = k
    BY <1>3
  <2>2. r[len + 1 - k] = digit(k)
    BY <2>1
  <2> HIDE DEF r
  <2>3. Column(r, k) = r[len + 1 - k]
    BY <1>3, <1>6 DEF Column
  <2> QED
    BY <2>2, <2>3
<1> HIDE DEF r
<1>8. \A k \in 1 .. N : Column(r, k) = (Column(a, k) + Column(b, k) + carry[k - 1]) % 10
  <2> SUFFICES ASSUME NEW k \in 1 .. N
               PROVE  Column(r, k) = (Column(a, k) + Column(b, k) + carry[k - 1]) % 10
    OBVIOUS
  <2>1. k \in 1 .. len /\ ~(k > N)
    BY <1>2, <1>3
  <2>2. digit(k) = (Column(a, k) + Column(b, k) + carry[k - 1]) % 10
    BY <2>1 DEF digit
  <2> QED
    BY <1>7, <2>1, <2>2
<1>9. ASSUME carry[N] # 0
      PROVE  Column(r, N + 1) = carry[N]
  <2>1. N + 1 \in 1 .. len /\ N + 1 > N
    BY <1>2, <1>3, <1>9
  <2>2. digit(N + 1) = carry[N]
    BY <2>1 DEF digit
  <2> QED
    BY <1>7, <2>1, <2>2
<1>10. Len(r) = IF carry[N] = 0 THEN N ELSE N + 1
  BY <1>3, <1>6
<1> QED
  BY <1>1, <1>6, <1>8, <1>9, <1>10, Zenon DEF SumIs, N, carry

\* Up to each column the digits of the sum and the carry are worth the two
\* operands.
LEMMA SumAdds ==
  ASSUME NEW a \in Seq(Digit), NEW b \in Seq(Digit), NEW r, SumIs(a, b, r)
  PROVE  \A k \in 0 .. SumLength(a, b) :
           Low(r, k) + CarryOf(a, b)[k] * Power(10, k) = Low(a, k) + Low(b, k)
<1> DEFINE N == SumLength(a, b)
           c == CarryOf(a, b)
           P == {k \in 0 .. N : Low(r, k) + c[k] * Power(10, k) = Low(a, k) + Low(b, k)}
<1>1. N \in Nat /\ r \in Seq(Digit)
  BY DEF SumLength, Larger, SumIs
<1>2. /\ c[0] = 0 /\ \A k \in 0 .. N : c[k] \in 0 .. 1
      /\ \A k \in 1 .. N : c[k] = (Column(a, k) + Column(b, k) + c[k - 1]) \div 10
  BY CarryFacts
<1>3. \A k \in 1 .. N : Column(r, k) = (Column(a, k) + Column(b, k) + c[k - 1]) % 10
  BY DEF SumIs
<1> HIDE DEF N, c
<1>4. 0 \in P
  <2>1. Low(r, 0) = 0 /\ Low(a, 0) = 0 /\ Low(b, 0) = 0 /\ Power(10, 0) = 1
    BY <1>1, LowEnds, PowerFacts
  <2> QED
    BY <1>1, <1>2, <2>1
<1>5. ASSUME NEW k \in 0 .. N - 1, k \in P
      PROVE  k + 1 \in P
  <2>1. k \in Nat /\ k \in 0 .. N /\ k + 1 \in 1 .. N /\ (k + 1) - 1 = k /\ k + 1 \in Nat \ {0}
    BY <1>1
  <2>2. /\ c[k + 1] = (Column(a, k + 1) + Column(b, k + 1) + c[k]) \div 10
        /\ Column(r, k + 1) = (Column(a, k + 1) + Column(b, k + 1) + c[k]) % 10
        /\ c[k] \in 0 .. 1
    BY <1>2, <1>3, <2>1
  <2>3. Column(a, k + 1) \in Digit /\ Column(b, k + 1) \in Digit
    BY <2>1, ColumnType
  <2>4. /\ Column(a, k + 1) + Column(b, k + 1) + c[k] = Column(r, k + 1) + 10 * c[k + 1]
        /\ c[k + 1] \in 0 .. 1 /\ Column(r, k + 1) \in Digit
    BY <2>2, <2>3, CarryDigit
  <2>5. Low(r, k + 1) = Low(r, k) + Column(r, k + 1) * Power(10, k)
    BY <1>1, <2>1, LowStep
  <2>6. Low(a, k + 1) = Low(a, k) + Column(a, k + 1) * Power(10, k)
    BY <2>1, LowStep
  <2>7. Low(b, k + 1) = Low(b, k) + Column(b, k + 1) * Power(10, k)
    BY <2>1, LowStep
  <2>8. Power(10, k) \in Nat /\ Power(10, k + 1) = 10 * Power(10, k)
    BY <2>1, PowerFacts
  <2>9. Low(r, k) \in Nat /\ Low(a, k) \in Nat /\ Low(b, k) \in Nat
    BY <1>1, <2>1, LowEnds
  <2>10. \A d \in Digit : d \in Nat
    BY DEF Digit
  <2>11. \A d \in 0 .. 1 : d \in Nat
    OBVIOUS
  <2>12. Low(r, k) + c[k] * Power(10, k) = Low(a, k) + Low(b, k)
    BY <1>5
  <2>13. (Low(r, k) + Column(r, k + 1) * Power(10, k)) + c[k + 1] * (10 * Power(10, k))
           = (Low(a, k) + Column(a, k + 1) * Power(10, k)) + (Low(b, k) + Column(b, k + 1) * Power(10, k))
    <3>1. /\ Column(a, k + 1) \in Nat /\ Column(b, k + 1) \in Nat /\ Column(r, k + 1) \in Nat
          /\ c[k] \in Nat /\ c[k + 1] \in Nat
      BY <2>2, <2>3, <2>4, <2>10, <2>11
    <3> DEFINE s == Low(r, k)
               x == Low(a, k)
               y == Low(b, k)
               q == Power(10, k)
               u == Column(a, k + 1)
               v == Column(b, k + 1)
               w == Column(r, k + 1)
               f == c[k]
               d == c[k + 1]
    <3>2. /\ s \in Nat /\ x \in Nat /\ y \in Nat /\ q \in Nat /\ u \in Nat /\ v \in Nat /\ w \in Nat
          /\ f \in Nat /\ d \in Nat /\ s + f * q = x + y /\ u + v + f = w + 10 * d
      BY <2>4, <2>8, <2>9, <2>12, <3>1
    <3> HIDE DEF s, x, y, q, u, v, w, f, d
    <3>3. (s + w * q) + d * (10 * q) = (x + u * q) + (y + v * q)
      BY <3>2, ColumnAdds
    <3> QED
      BY <3>3 DEF s, x, y, q, u, v, w, f, d
  <2>14. Low(r, k + 1) + c[k + 1] * Power(10, k + 1) = Low(a, k + 1) + Low(b, k + 1)
    BY <2>5, <2>6, <2>7, <2>8, <2>13
  <2> QED
    BY <1>1, <2>1, <2>14
<1>6. \A k \in 0 .. N : k \in P
  <2> HIDE DEF P
  <2> QED
    BY <1>1, <1>4, <1>5, Induct
<1> QED
  BY <1>6 DEF N, c

\* The sum has one digit more than the longer operand, or as many.
LEMMA SumFacts ==
  ASSUME NEW a \in Seq(Digit), NEW b \in Seq(Digit)
  PROVE  /\ sum_string(a, b) \in Seq(Digit)
         /\ Value(sum_string(a, b)) = Value(a) + Value(b)
         /\ \/ Len(sum_string(a, b)) = Larger(Len(a), Len(b))
            \/ /\ Len(sum_string(a, b)) = Larger(Len(a), Len(b)) + 1
               /\ sum_string(a, b)[1] # 0
<1> DEFINE N == SumLength(a, b)
           c == CarryOf(a, b)[N]
           r == sum_string(a, b)
<1>1. N \in Nat /\ Len(a) <= N /\ Len(b) <= N /\ N \in 0 .. N /\ N = Larger(Len(a), Len(b))
  BY DEF SumLength, Larger
<1>2. /\ SumIs(a, b, r) /\ r \in Seq(Digit) /\ Len(r) = IF c = 0 THEN N ELSE N + 1
      /\ c # 0 => Column(r, N + 1) = c
  BY SumDigits DEF SumIs
<1>3. c \in 0 .. 1
  BY <1>1, CarryFacts
<1>4. Low(r, N) + c * Power(10, N) = Low(a, N) + Low(b, N)
  BY <1>1, <1>2, SumAdds
<1> HIDE DEF N, c, r
<1>5. Low(a, N) = Value(a) /\ Low(b, N) = Value(b)
  BY <1>1, LowEnds
<1>6. Low(r, N) \in Nat /\ Power(10, N) \in Nat
  BY <1>1, <1>2, LowEnds, PowerFacts
<1>7. CASE c = 0
  <2>1. Value(r) = Low(r, N)
    BY <1>1, <1>2, <1>7, LowEnds
  <2>2. Low(r, N) + 0 * Power(10, N) = Low(r, N)
    BY <1>6
  <2> QED
    BY <1>1, <1>2, <1>4, <1>5, <1>7, <2>1, <2>2 DEF r
<1>8. CASE c = 1
  <2>1. Len(r) = N + 1 /\ Column(r, N + 1) = 1
    BY <1>2, <1>8
  <2>2. Value(r) = Low(r, N + 1)
    BY <1>1, <1>2, <2>1, LowEnds
  <2>3. Low(r, N + 1) = Low(r, N) + 1 * Power(10, N)
    BY <1>1, <1>2, <2>1, LowStep
  <2>4. r[1] = 1
    BY <1>1, <2>1 DEF Column
  <2>5. Value(r) = Value(a) + Value(b)
    BY <1>4, <1>5, <1>8, <2>2, <2>3
  <2> QED
    BY <1>1, <1>2, <2>1, <2>4, <2>5 DEF r
<1> QED
  BY <1>3, <1>7, <1>8

-----------------------------------------------------------------------------
\* AddRow adds the product with one digit.
RowTo(res, a, b, l, f) ==
  f = [q \in 0 .. Len(a) |->
         IF q = 0 THEN 0 ELSE b[l] * Column(a, q) + f[q - 1] \div 10 + res[(Len(res) - (Len(b) - l)) + 1 - q]]
RowOf(res, a, b, l) == CHOOSE f : RowTo(res, a, b, l, f)

\* A product of two digits, a carry and a digit make a digit and a carry of
\* at most 9.
LEMMA RowDigit ==
  ASSUME NEW c \in Digit, NEW d \in Digit, NEW x \in Digit, NEW v \in 0 .. 99
  PROVE  /\ c * d + v \div 10 + x \in 0 .. 99
         /\ v \div 10 \in Digit /\ v % 10 \in Digit /\ v = (v % 10) + 10 * (v \div 10)
<1>1. c * d \in 0 .. 81
  <2>1. \A n \in Digit : n \in {0, 1, 2, 3, 4, 5, 6, 7, 8, 9}
    BY DEF Digit
  <2>2. c \in {0, 1, 2, 3, 4, 5, 6, 7, 8, 9} /\ d \in 0 .. 9
    BY <2>1 DEF Digit
  <2> QED
    BY <2>2
<1>2. v \div 10 \in 0 .. 9 /\ v % 10 \in 0 .. 9 /\ v = (v % 10) + 10 * (v \div 10)
  OBVIOUS
<1>3. x \in 0 .. 9
  BY DEF Digit
<1> DEFINE p == c * d
           h == v \div 10
<1>4. p \in 0 .. 81 /\ h \in 0 .. 9
  BY <1>1, <1>2
<1> HIDE DEF p, h
<1>5. p + h + x \in 0 .. 99
  BY <1>3, <1>4
<1> QED
  BY <1>2, <1>5 DEF Digit, p, h

\* A text as long as both operands together has a place for every column of
\* the row.
LEMMA RowPlaces ==
  ASSUME NEW a \in Seq(Digit), NEW b \in Seq(Digit), NEW l \in 1 .. Len(b), NEW res \in Seq(Digit),
         Len(res) = Len(a) + Len(b), NEW q \in 1 .. Len(a)
  PROVE  /\ b[l] \in Digit /\ Column(a, q) \in Digit
         /\ res[(Len(res) - (Len(b) - l)) + 1 - q] = Column(res, (Len(b) - l) + q)
         /\ Column(res, (Len(b) - l) + q) \in Digit
<1> DEFINE s == Len(b) - l
<1>1. s \in Nat /\ s + q \in Nat \ {0} /\ s + q <= Len(res) /\ q \in Nat \ {0} /\ Len(res) \in Nat
  OBVIOUS
<1>2. b[l] \in Digit
  OBVIOUS
<1> HIDE DEF s
<1>3. Column(a, q) \in Digit /\ Column(res, s + q) \in Digit
  BY <1>1, ColumnType
<1>4. Column(res, s + q) = res[Len(res) + 1 - (s + q)]
  BY <1>1 DEF Column
<1>5. Len(res) + 1 - (s + q) = (Len(res) - s) + 1 - q
  BY <1>1
<1> QED
  BY <1>2, <1>3, <1>4, <1>5, Zenon DEF s

\* The function of the sums in a row of ft_multiply exists.
LEMMA RowSteps ==
  ASSUME NEW a \in Seq(Digit), NEW b \in Seq(Digit), NEW l \in 1 .. Len(b), NEW res \in Seq(Digit),
         Len(res) = Len(a) + Len(b)
  PROVE  \E f : RowTo(res, a, b, l, f)
<1> DEFINE N == Len(a)
           V == 0 .. 99
           at(q) == res[(Len(res) - (Len(b) - l)) + 1 - q]
           F == [p \in (1 .. N) \X V |-> b[l] * Column(a, p[1]) + p[2] \div 10 + at(p[1])]
           before == [n \in 1 .. N |-> n - 1]
<1>1. N \in Nat /\ 0 \in V
  OBVIOUS
<1>2. \A f : RowTo(res, a, b, l, f) <=>
        f = [q \in 0 .. N |-> IF q = 0 THEN 0 ELSE b[l] * Column(a, q) + f[q - 1] \div 10 + at(q)]
  BY DEF RowTo
<1>3. before \in [1 .. N -> Nat] /\ \A n \in 1 .. N : before[n] < n /\ before[n] = n - 1
  BY <1>1
<1>4. F \in [(1 .. N) \X V -> V]
  <2>1. ASSUME NEW n \in 1 .. N, NEW v \in V
        PROVE  b[l] * Column(a, n) + v \div 10 + at(n) \in V
    <3>1. b[l] \in Digit /\ Column(a, n) \in Digit /\ at(n) \in Digit
      BY RowPlaces
    <3> HIDE DEF at
    <3> QED
      BY <3>1, RowDigit
  <2> HIDE DEF V
  <2> QED
    BY <2>1
<1>5. \A n \in 1 .. N, v \in V : F[<<n, v>>] = b[l] * Column(a, n) + v \div 10 + at(n)
  OBVIOUS
<1> HIDE DEF N, F, before, at, V
<1>6. Recursive(V, 0, N, before, F)
  BY <1>1, <1>3, <1>4, Recursion
<1>7. PICK g \in [0 .. N -> V] : Follows(g, 0, N, before, F)
  BY <1>6 DEF Recursive
<1>8. \A n \in 0 .. N : g[n] = IF n = 0 THEN 0 ELSE b[l] * Column(a, n) + g[n - 1] \div 10 + at(n)
  <2> SUFFICES ASSUME NEW n \in 0 .. N
               PROVE  g[n] = IF n = 0 THEN 0 ELSE b[l] * Column(a, n) + g[n - 1] \div 10 + at(n)
    OBVIOUS
  <2>1. CASE n = 0
    BY <1>7, <2>1 DEF Follows
  <2>2. CASE n # 0
    <3>1. n \in 1 .. N /\ n - 1 \in 0 .. N
      BY <1>1, <2>2
    <3>2. g[n - 1] \in V
      BY <3>1
    <3>3. g[n] = F[<<n, g[n - 1]>>]
      BY <1>3, <1>7, <3>1 DEF Follows
    <3>4. g[n] = b[l] * Column(a, n) + g[n - 1] \div 10 + at(n)
      BY <1>5, <3>1, <3>2, <3>3
    <3> QED
      BY <2>2, <3>4
  <2> QED
    BY <2>1, <2>2
<1>9. g = [q \in 0 .. N |-> IF q = 0 THEN 0 ELSE b[l] * Column(a, q) + g[q - 1] \div 10 + at(q)]
  BY <1>8
<1> QED
  BY <1>2, <1>9

\* The sums of a row, each made with the carry of the column to the right.
LEMMA RowFacts ==
  ASSUME NEW a \in Seq(Digit), NEW b \in Seq(Digit), NEW l \in 1 .. Len(b), NEW res \in Seq(Digit),
         Len(res) = Len(a) + Len(b)
  PROVE  /\ RowOf(res, a, b, l)[0] = 0
         /\ \A q \in 0 .. Len(a) : RowOf(res, a, b, l)[q] \in 0 .. 99
         /\ \A q \in 1 .. Len(a) :
              RowOf(res, a, b, l)[q] = b[l] * Column(a, q) + RowOf(res, a, b, l)[q - 1] \div 10
                                         + Column(res, (Len(b) - l) + q)
<1> DEFINE N == Len(a)
           f == RowOf(res, a, b, l)
           at(q) == res[(Len(res) - (Len(b) - l)) + 1 - q]
           made(q) == IF q = 0 THEN 0 ELSE b[l] * Column(a, q) + f[q - 1] \div 10 + at(q)
           P == {q \in 0 .. N : f[q] \in 0 .. 99}
<1>1. N \in Nat
  OBVIOUS
<1>2. RowTo(res, a, b, l, f)
  BY RowSteps DEF RowOf
<1> HIDE DEF f
<1>3. \A q \in 0 .. N : f[q] = made(q)
  <2>1. f = [q \in 0 .. N |-> made(q)]
    BY <1>2 DEF RowTo
  <2> HIDE DEF made, N
  <2> QED
    BY <2>1
<1>4. f[0] = 0
  BY <1>1, <1>3
<1>5. \A q \in 1 .. N : /\ b[l] \in Digit /\ Column(a, q) \in Digit
                        /\ at(q) = Column(res, (Len(b) - l) + q) /\ at(q) \in Digit
  <2> SUFFICES ASSUME NEW q \in 1 .. N
               PROVE  /\ b[l] \in Digit /\ Column(a, q) \in Digit
                      /\ at(q) = Column(res, (Len(b) - l) + q) /\ at(q) \in Digit
    OBVIOUS
  <2>1. /\ b[l] \in Digit /\ Column(a, q) \in Digit
        /\ at(q) = Column(res, (Len(b) - l) + q) /\ Column(res, (Len(b) - l) + q) \in Digit
    BY RowPlaces
  <2> HIDE DEF at
  <2> QED
    BY <2>1, Zenon
<1> HIDE DEF N, at
<1>6. ASSUME NEW q \in 1 .. N
      PROVE  f[q] = b[l] * Column(a, q) + f[q - 1] \div 10 + at(q)
  <2>1. q \in 0 .. N /\ q # 0
    BY <1>1
  <2> QED
    BY <1>3, <2>1
<1>7. 0 \in P
  BY <1>1, <1>4
<1>8. ASSUME NEW q \in 0 .. N - 1, q \in P
      PROVE  q + 1 \in P
  <2>1. q + 1 \in 1 .. N /\ (q + 1) - 1 = q
    BY <1>1
  <2>2. f[q + 1] = b[l] * Column(a, q + 1) + f[q] \div 10 + at(q + 1)
    BY <1>6, <2>1
  <2>3. b[l] \in Digit /\ Column(a, q + 1) \in Digit /\ f[q] \in 0 .. 99 /\ at(q + 1) \in Digit
    BY <1>5, <1>8, <2>1
  <2>4. f[q + 1] \in 0 .. 99
    <3>1. b[l] * Column(a, q + 1) + f[q] \div 10 + at(q + 1) \in 0 .. 99
      BY <2>3, RowDigit
    <3> QED
      BY <2>2, <3>1, Zenon
  <2> QED
    BY <1>1, <2>1, <2>4
<1>9. \A q \in 0 .. N : q \in P
  <2> HIDE DEF P
  <2> QED
    BY <1>1, <1>7, <1>8, Induct
<1>10. \A q \in 1 .. N : f[q] = b[l] * Column(a, q) + f[q - 1] \div 10 + Column(res, (Len(b) - l) + q)
  BY <1>5, <1>6
<1> QED
  BY <1>4, <1>9, <1>10 DEF f, N

RowIs(res, a, b, l, r) ==
  LET s == Len(b) - l
      row == RowOf(res, a, b, l)
  IN /\ r \in Seq(Digit) /\ Len(r) = Len(res)
     /\ \A k \in 1 .. s : Column(r, k) = Column(res, k)
     /\ \A q \in 1 .. Len(a) : Column(r, s + q) = row[q] % 10
     /\ res[l] = 0 => Column(r, s + Len(a) + 1) = row[Len(a)] \div 10
     /\ \A m \in 1 .. l - 1 : r[m] = res[m]

\* A row changes the columns under the first operand, and the one in front of
\* them.
LEMMA RowDigits ==
  ASSUME NEW a \in Seq(Digit), NEW b \in Seq(Digit), NEW l \in 1 .. Len(b), NEW res \in Seq(Digit),
         Len(res) = Len(a) + Len(b)
  PROVE  RowIs(res, a, b, l, AddRow(res, a, b, l))
<1> DEFINE A == Len(a)
           N == Len(res)
           s == Len(b) - l
           row == RowOf(res, a, b, l)
           k0 == N - s
           carry == row[A] \div 10
           put(k) == IF k \in k0 - A + 1 .. k0 THEN row[k0 + 1 - k] % 10
                     ELSE IF k = k0 - A /\ carry > 0 THEN carry ELSE res[k]
           r == [k \in DOMAIN res |-> put(k)]
<1>1. AddRow(res, a, b, l) = r
  BY DEF AddRow, RowOf, RowTo
<1>2. /\ A \in Nat /\ N \in Nat /\ s \in Nat /\ l \in Nat \ {0} /\ N = A + s + l /\ k0 = A + l
      /\ DOMAIN res = 1 .. N
  OBVIOUS
<1>3. \A q \in 0 .. A : row[q] \in 0 .. 99
  BY RowFacts
<1>4. \A v \in 0 .. 99 : v \div 10 \in Digit /\ v % 10 \in Digit
  BY DEF Digit
<1>5. carry \in Digit
  <2> HIDE DEF row
  <2>1. row[A] \in 0 .. 99
    BY <1>2, <1>3
  <2> HIDE DEF A
  <2> QED
    BY <1>4, <2>1
<1>6. \A k \in 1 .. N : res[k] \in Digit
  BY <1>2
<1>13. Len(res) = N
  OBVIOUS
<1> HIDE DEF A, N, s, row, k0, carry
<1>7. \A k \in 1 .. N : put(k) \in Digit
  <2> SUFFICES ASSUME NEW k \in 1 .. N
               PROVE  put(k) \in Digit
    OBVIOUS
  <2>1. CASE k \in k0 - A + 1 .. k0
    <3>1. k0 + 1 - k \in 0 .. A
      BY <1>2, <2>1
    <3>2. row[k0 + 1 - k] % 10 \in Digit
      BY <1>3, <1>4, <3>1
    <3> QED
      BY <2>1, <3>2
  <2>2. CASE k \notin k0 - A + 1 .. k0
    BY <1>5, <1>6, <2>2
  <2> QED
    BY <2>1, <2>2
<1>8. \A q \in 1 .. A : put(N + 1 - (s + q)) = row[q] % 10
  <2> SUFFICES ASSUME NEW q \in 1 .. A
               PROVE  put(N + 1 - (s + q)) = row[q] % 10
    OBVIOUS
  <2> DEFINE k == N + 1 - (s + q)
  <2>1. k \in k0 - A + 1 .. k0 /\ k0 + 1 - k = q
    BY <1>2
  <2> HIDE DEF k
  <2>2. put(k) = row[k0 + 1 - k] % 10
    BY <2>1
  <2>3. put(k) = row[q] % 10
    BY <2>1, <2>2
  <2> HIDE DEF put
  <2> QED
    BY <2>3 DEF k
<1>9. ASSUME res[l] = 0
      PROVE  put(l) = carry
  <2>1. l \notin k0 - A + 1 .. k0 /\ l = k0 - A
    BY <1>2
  <2>2. carry > 0 \/ carry = 0
    BY <1>5 DEF Digit
  <2> QED
    BY <1>9, <2>1, <2>2
<1>10. \A k \in 1 .. s : put(N + 1 - k) = res[N + 1 - k]
  <2> SUFFICES ASSUME NEW k \in 1 .. s
               PROVE  put(N + 1 - k) = res[N + 1 - k]
    OBVIOUS
  <2> DEFINE m == N + 1 - k
  <2>1. m \notin k0 - A + 1 .. k0 /\ m # k0 - A
    BY <1>2
  <2> HIDE DEF m
  <2>2. put(m) = res[m]
    BY <2>1
  <2> HIDE DEF put
  <2> QED
    BY <2>2 DEF m
<1>11. \A m \in 1 .. l - 1 : put(m) = res[m]
  BY <1>2
<1> HIDE DEF put
<1>12. /\ r \in Seq(Digit) /\ Len(r) = N /\ \A k \in 1 .. N : r[k] = put(k)
  BY <1>2, <1>7
<1> HIDE DEF r
<1>14. \A k \in 1 .. N : Column(r, k) = r[N + 1 - k] /\ Column(res, k) = res[N + 1 - k]
  BY <1>2, <1>12, <1>13 DEF Column
<1>15. \A k \in 1 .. s : Column(r, k) = Column(res, k)
  <2> SUFFICES ASSUME NEW k \in 1 .. s
               PROVE  Column(r, k) = Column(res, k)
    OBVIOUS
  <2>1. k \in 1 .. N /\ N + 1 - k \in 1 .. N
    BY <1>2
  <2> QED
    BY <1>10, <1>12, <1>14, <2>1
<1>16. \A q \in 1 .. A : Column(r, s + q) = row[q] % 10
  <2> SUFFICES ASSUME NEW q \in 1 .. A
               PROVE  Column(r, s + q) = row[q] % 10
    OBVIOUS
  <2>1. s + q \in 1 .. N /\ N + 1 - (s + q) \in 1 .. N
    BY <1>2
  <2> QED
    BY <1>8, <1>12, <1>14, <2>1
<1>17. ASSUME res[l] = 0
       PROVE  Column(r, s + A + 1) = carry
  <2>1. s + A + 1 \in 1 .. N /\ N + 1 - (s + A + 1) = l /\ l \in 1 .. N
    BY <1>2
  <2> QED
    BY <1>9, <1>12, <1>14, <1>17, <2>1
<1>18. \A m \in 1 .. l - 1 : r[m] = res[m]
  <2>1. \A m \in 1 .. l - 1 : m \in 1 .. N
    BY <1>2
  <2> QED
    BY <1>11, <1>12, <2>1
<1>19. RowIs(res, a, b, l, r)
  BY <1>12, <1>13, <1>15, <1>16, <1>17, <1>18, Zenon DEF RowIs, A, s, row, carry
<1> QED
  BY <1>1, <1>19

\* A text is its first n characters and the others.
LEMMA TextInTwo ==
  ASSUME NEW t \in Seq(Digit), NEW n \in 0 .. Len(t)
  PROVE  t = SubSeq(t, 1, n) \o SubSeq(t, n + 1, Len(t))
<1>1. 1 \in 1 .. Len(t) + 1 /\ n \in 1 - 1 .. Len(t) /\ Len(t) \in n .. Len(t)
  OBVIOUS
<1>2. SubSeq(t, 1, n) \o SubSeq(t, n + 1, Len(t)) = SubSeq(t, 1, Len(t))
  BY <1>1, ConcatAdjacentSubSeq
<1> QED
  BY <1>2, SubSeqFull

\* Leading zeros count for nothing.
LEMMA ZerosInFront ==
  ASSUME NEW t \in Seq(Digit), NEW n \in 0 .. Len(t), \A m \in 1 .. n : t[m] = 0
  PROVE  Low(t, Len(t) - n) = Value(t) /\ Value(SubSeq(t, n + 1, Len(t))) = Value(t)
<1> DEFINE z == SubSeq(t, 1, n)
           r == SubSeq(t, n + 1, Len(t))
<1>1. /\ z \in Seq(Digit) /\ Len(z) = n /\ \A m \in 1 .. n : z[m] = 0
      /\ r \in Seq(Digit) /\ Len(r) = Len(t) - n /\ t = z \o r
  <2>1. z \in Seq(Digit) /\ Len(z) = n /\ \A m \in 1 .. n : z[m] = t[m]
    OBVIOUS
  <2>2. r \in Seq(Digit) /\ Len(r) = Len(t) - n /\ \A m \in 1 .. Len(t) - n : r[m] = t[n + m]
    OBVIOUS
  <2> HIDE DEF z, r
  <2>3. t = z \o r
    BY TextInTwo DEF z, r
  <2> QED
    BY <2>1, <2>2, <2>3
<1>2. Len(t) - n <= Len(t) /\ Len(t) + 1 - (Len(t) - n) = n + 1 /\ Len(t) - n \in Nat
  OBVIOUS
<1>3. Low(t, Len(t) - n) = Value(SubSeq(t, Len(t) + 1 - (Len(t) - n), Len(t)))
  BY <1>2 DEF Low
<1>4. Low(t, Len(t) - n) = Value(r)
  <2> HIDE DEF z
  <2> QED
    BY <1>2, <1>3, Zenon
<1> HIDE DEF z, r
<1>5. Value(z) = 0
  BY <1>1, ValueOfZeros
<1>6. Value(t) = Value(z) * Power(10, Len(r)) + Value(r)
  BY <1>1, ValueJoin
<1>7. Power(10, Len(r)) \in Nat /\ Value(r) \in Nat
  BY <1>1, <1>2, ValueType, PowerFacts
<1>8. Value(t) = Value(r)
  BY <1>5, <1>6, <1>7
<1> QED
  BY <1>4, <1>8 DEF r

\* What one column of a row adds: x is the digit of the factor, h and d the
\* carries before and behind it.
LEMMA RowColumnAdds ==
  ASSUME NEW s \in Nat, NEW x \in Nat, NEW y \in Nat, NEW p \in Nat, NEW q \in Nat, NEW t \in Nat,
         NEW h \in Nat, NEW d \in Nat, NEW u \in Nat, NEW v \in Nat, NEW w \in Nat, NEW c \in Nat,
         p = q * t, s + h * p = y + (c * q) * x, c * v + h + u = w + 10 * d
  PROVE  (s + w * p) + d * (10 * p) = (y + u * p) + (c * q) * (x + v * t)
<1>1. (c * v + h + u) * p = (w + 10 * d) * p
  OBVIOUS
<1>2. (c * v + h + u) * p = (c * v) * p + h * p + u * p
  OBVIOUS
<1>3. (w + 10 * d) * p = w * p + d * (10 * p)
  OBVIOUS
<1>4. (c * q) * (x + v * t) = (c * q) * x + (c * v) * (q * t)
  <2> DEFINE cq == c * q
  <2>1. cq \in Nat /\ v * t \in Nat
    OBVIOUS
  <2>2. cq * (x + v * t) = cq * x + cq * (v * t)
    <3> HIDE DEF cq
    <3> QED
      BY <2>1
  <2>3. (c * q) * (v * t) = (c * v) * (q * t)
    OBVIOUS
  <2> QED
    BY <2>2, <2>3
<1>5. /\ (c * v) * p \in Nat /\ h * p \in Nat /\ u * p \in Nat /\ w * p \in Nat /\ d * (10 * p) \in Nat
      /\ (c * q) * x \in Nat
  OBVIOUS
<1> QED
  BY <1>1, <1>2, <1>3, <1>4, <1>5

\* Up to each column the row adds the operand times the digit.
LEMMA RowLow ==
  ASSUME NEW a \in Seq(Digit), NEW b \in Seq(Digit), NEW l \in 1 .. Len(b), NEW res \in Seq(Digit),
         Len(res) = Len(a) + Len(b), NEW r, RowIs(res, a, b, l, r)
  PROVE  \A q \in 0 .. Len(a) :
           Low(r, (Len(b) - l) + q) + (RowOf(res, a, b, l)[q] \div 10) * Power(10, (Len(b) - l) + q)
             = Low(res, (Len(b) - l) + q) + (b[l] * Power(10, Len(b) - l)) * Low(a, q)
<1> DEFINE N == Len(a)
           s == Len(b) - l
           c == b[l]
           T == Power(10, s)
           row == RowOf(res, a, b, l)
           P == {q \in 0 .. N : Low(r, s + q) + (row[q] \div 10) * Power(10, s + q)
                                  = Low(res, s + q) + (c * T) * Low(a, q)}
<1>1. N \in Nat /\ s \in Nat /\ c \in Digit /\ r \in Seq(Digit)
  BY DEF RowIs
<1>2. c \in Nat
  BY <1>1 DEF Digit
<1>3. T \in Nat
  BY <1>1, PowerFacts
<1>4. /\ row[0] = 0 /\ \A q \in 0 .. N : row[q] \in 0 .. 99
      /\ \A q \in 1 .. N : row[q] = c * Column(a, q) + row[q - 1] \div 10 + Column(res, s + q)
  BY RowFacts
<1>5. \A k \in 1 .. s : Column(r, k) = Column(res, k)
  BY DEF RowIs
<1>6. \A q \in 1 .. N : Column(r, s + q) = row[q] % 10
  BY DEF RowIs
<1> HIDE DEF N, s, c, row
<1>7. Low(r, s) = Low(res, s)
  <2> DEFINE Q == {k \in 0 .. s : Low(r, k) = Low(res, k)}
  <2>1. 0 \in Q
    BY <1>1, LowEnds
  <2>2. ASSUME NEW k \in 0 .. s - 1, k \in Q
        PROVE  k + 1 \in Q
    <3>1. k \in Nat /\ k + 1 \in 1 .. s /\ k + 1 \in 0 .. s /\ Low(r, k) = Low(res, k)
      BY <1>1, <2>2
    <3>2. Low(r, k + 1) = Low(r, k) + Column(r, k + 1) * Power(10, k)
      BY <1>1, <3>1, LowStep
    <3>3. Low(res, k + 1) = Low(res, k) + Column(res, k + 1) * Power(10, k)
      BY <3>1, LowStep
    <3>4. Column(r, k + 1) = Column(res, k + 1)
      BY <1>5, <3>1
    <3>5. Low(r, k + 1) = Low(res, k + 1)
      BY <3>1, <3>2, <3>3, <3>4
    <3> QED
      BY <3>1, <3>5
  <2>3. \A k \in 0 .. s : k \in Q
    <3> HIDE DEF Q
    <3> QED
      BY <1>1, <2>1, <2>2, Induct
  <2> QED
    BY <1>1, <2>3
<1>8. 0 \in P
  <2>1. s + 0 = s /\ 0 \div 10 = 0 /\ 0 \in 0 .. N
    BY <1>1
  <2>2. Low(a, 0) = 0 /\ Low(r, s) \in Nat /\ Low(res, s) \in Nat
    BY <1>1, LowEnds
  <2>3. (row[0] \div 10) * T = 0 /\ (c * T) * Low(a, 0) = 0
    BY <1>2, <1>3, <1>4, <2>1, <2>2
  <2>4. Low(r, s) + (row[0] \div 10) * T = Low(res, s) + (c * T) * Low(a, 0)
    BY <1>7, <2>2, <2>3
  <2>5. Low(r, s + 0) + (row[0] \div 10) * Power(10, s + 0) = Low(res, s + 0) + (c * T) * Low(a, 0)
    BY <2>1, <2>4
  <2> QED
    BY <2>1, <2>5
<1>9. ASSUME NEW q \in 0 .. N - 1, q \in P
      PROVE  q + 1 \in P
  <2> DEFINE k == s + q
             h == row[q] \div 10
             d == row[q + 1] \div 10
             u == Column(res, k + 1)
             v == Column(a, q + 1)
             w == Column(r, k + 1)
             x == Low(a, q)
             y == Low(res, k)
             z == Low(r, k)
             p == Power(10, k)
             t == Power(10, q)
  <2>1. /\ q \in Nat /\ k \in Nat /\ q + 1 \in 1 .. N /\ q + 1 \in 0 .. N /\ (q + 1) - 1 = q /\ q \in 0 .. N
        /\ s + (q + 1) = k + 1 /\ k + 1 \in Nat \ {0} /\ q + 1 \in Nat \ {0}
    BY <1>1
  <2>2. row[q + 1] = c * v + h + u /\ w = row[q + 1] % 10
    BY <1>4, <1>6, <2>1
  <2>3. row[q + 1] \in 0 .. 99 /\ row[q] \in 0 .. 99
    BY <1>4, <2>1
  <2>4. h \in Digit /\ d \in Digit /\ w \in Digit /\ row[q + 1] = w + 10 * d
    <3>1. \A n \in 0 .. 99 : n \div 10 \in Digit /\ n % 10 \in Digit /\ n = (n % 10) + 10 * (n \div 10)
      BY DEF Digit
    <3> HIDE DEF w
    <3>2. w = row[q + 1] % 10
      BY <2>2
    <3> QED
      BY <2>3, <3>1, <3>2
  <2>5. u \in Digit /\ v \in Digit
    BY <2>1, ColumnType
  <2>6. z + h * p = y + (c * T) * x
    BY <1>9
  <2>7. x \in Nat /\ y \in Nat /\ z \in Nat
    BY <1>1, <2>1, LowEnds
  <2>8. p \in Nat /\ t \in Nat /\ Power(10, k + 1) = 10 * p
    BY <2>1, PowerFacts
  <2>9. p = T * t
    BY <1>1, <2>1, PowerSum
  <2>10. Low(r, k + 1) = z + w * p
    BY <1>1, <2>1, LowStep
  <2>11. Low(res, k + 1) = y + u * p
    BY <2>1, LowStep
  <2>12. Low(a, q + 1) = x + v * t
    BY <2>1, LowStep
  <2>13. h \in Nat /\ d \in Nat /\ u \in Nat /\ v \in Nat /\ w \in Nat
    <3> HIDE DEF h, d, u, v, w
    <3>1. \A n \in Digit : n \in Nat
      BY DEF Digit
    <3> QED
      BY <2>4, <2>5, <3>1
  <2>14. c * v + h + u = w + 10 * d
    BY <2>2, <2>4
  <2>15. (z + w * p) + d * (10 * p) = (y + u * p) + (c * T) * (x + v * t)
    <3> HIDE DEF k, h, d, u, v, w, x, y, z, p, t, T, P
    <3> QED
      BY <1>2, <1>3, <2>6, <2>7, <2>8, <2>9, <2>13, <2>14, RowColumnAdds, SMTT(30)
  <2>16. Low(r, k + 1) + d * Power(10, k + 1) = Low(res, k + 1) + (c * T) * Low(a, q + 1)
    <3> HIDE DEF k, h, d, u, v, w, x, y, z, p, t, T, P
    <3> QED
      BY <2>8, <2>10, <2>11, <2>12, <2>15
  <2>17. Low(r, s + (q + 1)) + d * Power(10, s + (q + 1))
           = Low(res, s + (q + 1)) + (c * T) * Low(a, q + 1)
    <3> HIDE DEF k, h, d, T, P
    <3> QED
      BY <2>1, <2>16, Zenon
  <2> QED
    BY <2>1, <2>17
<1>10. \A q \in 0 .. N : q \in P
  <2> HIDE DEF P
  <2> QED
    BY <1>1, <1>8, <1>9, Induct
<1> HIDE DEF T
<1>11. \A q \in 0 .. N : Low(r, s + q) + (row[q] \div 10) * Power(10, s + q)
                           = Low(res, s + q) + (c * T) * Low(a, q)
  BY <1>10, Zenon
<1> QED
  BY <1>11, Zenon DEF N, s, c, T, row

\* A row of ft_multiply adds a * b[i], one place further to the left for each
\* i.
LEMMA RowValue ==
  ASSUME NEW a \in Seq(Digit), NEW b \in Seq(Digit), NEW l \in 1 .. Len(b), NEW res \in Seq(Digit),
         Len(res) = Len(a) + Len(b), \A m \in 1 .. l : res[m] = 0,
         NEW r, r = AddRow(res, a, b, l)
  PROVE  /\ r \in Seq(Digit) /\ Len(r) = Len(res) /\ \A m \in 1 .. l - 1 : r[m] = 0
         /\ Value(r) = Value(res) + (b[l] * Power(10, Len(b) - l)) * Value(a)
<1> DEFINE N == Len(a)
           s == Len(b) - l
           row == RowOf(res, a, b, l)[N]
           d == row \div 10
           f == b[l] * Power(10, s)
<1>1. RowIs(res, a, b, l, r)
  BY RowDigits
<1>2. /\ r \in Seq(Digit) /\ Len(r) = Len(res) /\ \A m \in 1 .. l - 1 : r[m] = 0
      /\ Column(r, s + N + 1) = d
  BY <1>1 DEF RowIs
<1>3. /\ N \in Nat /\ s \in Nat /\ s + N \in Nat /\ l - 1 \in 0 .. Len(r) /\ l \in 0 .. Len(res)
      /\ Len(r) - (l - 1) = (s + N) + 1 /\ Len(res) - l = s + N
  BY <1>2
<1>4. Low(r, s + N) + d * Power(10, s + N) = Low(res, s + N) + f * Low(a, N)
  <2>1. N \in 0 .. Len(a)
    OBVIOUS
  <2> QED
    BY <1>1, <2>1, RowLow
<1> HIDE DEF N, s, d, f
<1>5. Low(r, (s + N) + 1) = Value(r)
  <2>1. Low(r, Len(r) - (l - 1)) = Value(r)
    BY <1>2, <1>3, ZerosInFront
  <2> QED
    BY <1>3, <2>1
<1>6. Low(res, s + N) = Value(res)
  <2>1. Low(res, Len(res) - l) = Value(res)
    BY <1>3, ZerosInFront
  <2> QED
    BY <1>3, <2>1
<1>7. Low(a, N) = Value(a)
  BY <1>3, LowEnds DEF N
<1>8. Low(r, (s + N) + 1) = Low(r, s + N) + Column(r, (s + N) + 1) * Power(10, s + N)
  BY <1>2, <1>3, LowStep
<1>9. Value(r) = Value(res) + f * Value(a)
  BY <1>2, <1>4, <1>5, <1>6, <1>7, <1>8
<1> QED
  BY <1>2, <1>9 DEF f, s

\* It stores digits, in a string as long as both operands.
LEMMA RowType ==
  ASSUME NEW a \in Seq(Digit), NEW b \in Seq(Digit), NEW l \in 1 .. Len(b), NEW res \in Seq(Digit),
         Len(res) = Len(a) + Len(b)
  PROVE  AddRow(res, a, b, l) \in Seq(Digit) /\ Len(AddRow(res, a, b, l)) = Len(a) + Len(b)
<1>1. RowIs(res, a, b, l, AddRow(res, a, b, l))
  BY RowDigits
<1> QED
  BY <1>1 DEF RowIs

-----------------------------------------------------------------------------
\* multiply_string multiplies.
ProductsTo(a, b, f) ==
  f = [l \in 1 .. Len(b) + 1 |->
         IF l > Len(b) THEN Zeros(Len(a) + Len(b)) ELSE AddRow(f[l + 1], a, b, l)]
ProductsOf(a, b) == CHOOSE f : ProductsTo(a, b, f)

\* Zeros are digits, and denote 0.
LEMMA ZerosFacts ==
  ASSUME NEW n \in Nat
  PROVE  /\ Zeros(n) \in Seq(Digit) /\ Len(Zeros(n)) = n /\ \A k \in 1 .. n : Zeros(n)[k] = 0
         /\ Value(Zeros(n)) = 0
<1>1. Zeros(n) \in Seq(Digit) /\ Len(Zeros(n)) = n /\ \A k \in 1 .. n : Zeros(n)[k] = 0
  BY DEF Zeros, Digit
<1> QED
  BY <1>1, ValueOfZeros

\* The function of the rows in multiply_string exists.
LEMMA ProductSteps ==
  ASSUME NEW a \in Seq(Digit), NEW b \in Seq(Digit)
  PROVE  \E f : ProductsTo(a, b, f)
<1> DEFINE N == Len(b)
           W == Len(a) + Len(b)
           D == {t \in Seq(Digit) : Len(t) = W}
           F == [p \in (1 .. N) \X D |-> AddRow(p[2], a, b, N + 1 - p[1])]
           before == [n \in 1 .. N |-> n - 1]
<1>1. N \in Nat /\ W \in Nat
  OBVIOUS
<1>2. Zeros(W) \in D
  BY ZerosFacts
<1>3. before \in [1 .. N -> Nat] /\ \A n \in 1 .. N : before[n] < n /\ before[n] = n - 1
  BY <1>1
<1>4. F \in [(1 .. N) \X D -> D]
  <2>1. ASSUME NEW n \in 1 .. N, NEW t \in D
        PROVE  AddRow(t, a, b, N + 1 - n) \in D
    <3>1. N + 1 - n \in 1 .. Len(b)
      OBVIOUS
    <3> QED
      BY <3>1, RowType
  <2> HIDE DEF D
  <2> QED
    BY <2>1
<1>5. \A n \in 1 .. N, t \in D : F[<<n, t>>] = AddRow(t, a, b, N + 1 - n)
  OBVIOUS
<1>6. \A f : ProductsTo(a, b, f) <=>
        f = [l \in 1 .. N + 1 |-> IF l > N THEN Zeros(W) ELSE AddRow(f[l + 1], a, b, l)]
  BY DEF ProductsTo
<1> HIDE DEF N, W, D, F, before
<1>7. Recursive(D, Zeros(W), N, before, F)
  BY <1>1, <1>2, <1>3, <1>4, Recursion
<1>8. PICK g \in [0 .. N -> D] : Follows(g, Zeros(W), N, before, F)
  BY <1>7 DEF Recursive
<1>9. \A n \in 1 .. N : g[n] = AddRow(g[n - 1], a, b, N + 1 - n)
  <2> SUFFICES ASSUME NEW n \in 1 .. N
               PROVE  g[n] = AddRow(g[n - 1], a, b, N + 1 - n)
    OBVIOUS
  <2>1. g[n - 1] \in D
    BY <1>1
  <2>2. g[n] = F[<<n, g[n - 1]>>]
    BY <1>3, <1>8 DEF Follows
  <2> QED
    BY <1>5, <2>1, <2>2
<1>10. g[0] = Zeros(W)
  BY <1>8 DEF Follows
<1> DEFINE h == [l \in 1 .. N + 1 |-> g[N + 1 - l]]
<1>11. \A l \in 1 .. N + 1 : h[l] = IF l > N THEN Zeros(W) ELSE AddRow(h[l + 1], a, b, l)
  <2> SUFFICES ASSUME NEW l \in 1 .. N + 1
               PROVE  h[l] = IF l > N THEN Zeros(W) ELSE AddRow(h[l + 1], a, b, l)
    OBVIOUS
  <2>1. CASE l > N
    <3>1. N + 1 - l = 0
      BY <1>1, <2>1
    <3>2. h[l] = g[0]
      BY <3>1
    <3> QED
      BY <1>10, <2>1, <3>2
  <2>2. CASE ~(l > N)
    <3>1. /\ N + 1 - l \in 1 .. N /\ (N + 1 - l) - 1 = N + 1 - (l + 1) /\ l + 1 \in 1 .. N + 1
          /\ N + 1 - (N + 1 - l) = l
      BY <1>1, <2>2
    <3>2. h[l] = g[N + 1 - l] /\ h[l + 1] = g[N + 1 - (l + 1)]
      BY <3>1
    <3>3. g[N + 1 - l] = AddRow(g[(N + 1 - l) - 1], a, b, N + 1 - (N + 1 - l))
      BY <1>9, <3>1
    <3>4. h[l] = AddRow(h[l + 1], a, b, l)
      <4> HIDE DEF h
      <4> QED
        BY <3>1, <3>2, <3>3, Zenon
    <3> QED
      BY <2>2, <3>4
  <2> QED
    BY <2>1, <2>2
<1>12. h = [l \in 1 .. N + 1 |-> IF l > N THEN Zeros(W) ELSE AddRow(h[l + 1], a, b, l)]
  <2> DEFINE made(l) == IF l > N THEN Zeros(W) ELSE AddRow(h[l + 1], a, b, l)
  <2>1. \A l \in 1 .. N + 1 : h[l] = made(l)
    BY <1>11
  <2>2. DOMAIN h = 1 .. N + 1 /\ h = [l \in DOMAIN h |-> h[l]]
    OBVIOUS
  <2> HIDE DEF h, made
  <2>3. h = [l \in 1 .. N + 1 |-> made(l)]
    BY <2>1, <2>2
  <2> QED
    BY <2>3 DEF made
<1> QED
  BY <1>6, <1>12

\* After the last row the string is worth the product.
LEMMA ProductRows ==
  ASSUME NEW a \in Seq(Digit), NEW b \in Seq(Digit), NEW f, ProductsTo(a, b, f)
  PROVE  /\ f[1] \in Seq(Digit) /\ Len(f[1]) = Len(a) + Len(b)
         /\ Value(f[1]) = Value(a) * Value(b)
<1> DEFINE N == Len(b)
           W == Len(a) + Len(b)
           Right(l) == /\ f[l] \in Seq(Digit) /\ Len(f[l]) = W /\ \A m \in 1 .. l - 1 : f[l][m] = 0
                       /\ Value(f[l]) = Value(a) * Low(b, N + 1 - l)
           P == {n \in 0 .. N : Right(N + 1 - n)}
<1>1. N \in Nat /\ W \in Nat /\ Value(a) \in Nat
  BY ValueType
<1>2. \A l \in 1 .. N + 1 : f[l] = IF l > N THEN Zeros(W) ELSE AddRow(f[l + 1], a, b, l)
  BY Zenon DEF ProductsTo
<1>3. 0 \in P
  <2>1. N + 1 \in 1 .. N + 1 /\ N + 1 > N /\ N + 1 - (N + 1) = 0 /\ N + 1 - 0 = N + 1 /\ (N + 1) - 1 <= W
        /\ (N + 1) - 1 = N
    BY <1>1
  <2>2. f[N + 1] = Zeros(W)
    BY <1>2, <2>1
  <2>3. /\ Zeros(W) \in Seq(Digit) /\ Len(Zeros(W)) = W /\ \A m \in 1 .. W : Zeros(W)[m] = 0
        /\ Value(Zeros(W)) = 0
    BY <1>1, ZerosFacts
  <2>4. Low(b, 0) = 0 /\ 0 = Value(a) * 0
    BY <1>1, LowEnds
  <2>5. \A m \in 1 .. (N + 1) - 1 : m \in 1 .. W
    BY <1>1, <2>1
  <2> HIDE DEF N, W
  <2>6. Right(N + 1)
    BY <2>1, <2>2, <2>3, <2>4, <2>5
  <2> HIDE DEF Right
  <2> QED
    BY <1>1, <2>1, <2>6
<1>4. ASSUME NEW n \in 0 .. N - 1, n \in P
      PROVE  n + 1 \in P
  <2> DEFINE l == N + 1 - (n + 1)
             res == f[l + 1]
  <2>1. /\ l \in 1 .. N /\ l \in 1 .. N + 1 /\ l + 1 = N + 1 - n /\ ~(l > N) /\ (l + 1) - 1 = l
        /\ N + 1 - l = n + 1 /\ N + 1 - (l + 1) = n /\ N - l = n /\ n + 1 \in 0 .. N /\ n \in Nat
    BY <1>1
  <2>2. Right(l + 1)
    BY <1>4, <2>1
  <2>3. f[l] = AddRow(res, a, b, l)
    BY <1>2, <2>1
  <2> HIDE DEF l
  <2>4. /\ res \in Seq(Digit) /\ Len(res) = W /\ \A m \in 1 .. l : res[m] = 0
        /\ Value(res) = Value(a) * Low(b, n)
    BY <2>1, <2>2
  <2> HIDE DEF res
  <2>5. /\ f[l] \in Seq(Digit) /\ Len(f[l]) = W /\ \A m \in 1 .. l - 1 : f[l][m] = 0
        /\ Value(f[l]) = Value(res) + (b[l] * Power(10, N - l)) * Value(a)
    <3> DEFINE r == f[l]
    <3>1. r = AddRow(res, a, b, l)
      BY <2>3
    <3> HIDE DEF r
    <3>2. l \in 1 .. Len(b) /\ Len(res) = Len(a) + Len(b)
      BY <2>1, <2>4
    <3> HIDE DEF N, W
    <3>3. /\ r \in Seq(Digit) /\ Len(r) = Len(res) /\ \A m \in 1 .. l - 1 : r[m] = 0
          /\ Value(r) = Value(res) + (b[l] * Power(10, Len(b) - l)) * Value(a)
      BY <2>4, <3>1, <3>2, RowValue
    <3> QED
      BY <2>4, <3>3 DEF r, N
  <2>6. Low(b, n + 1) = Low(b, n) + Column(b, n + 1) * Power(10, n)
    BY <2>1, LowStep
  <2>7. Column(b, n + 1) = b[l] /\ b[l] \in Nat
    <3>1. n + 1 <= Len(b) /\ Len(b) + 1 - (n + 1) = l /\ l \in 1 .. Len(b)
      BY <1>1, <2>1
    <3> QED
      BY <3>1 DEF Column, Digit
  <2>8. Low(b, n) \in Nat /\ Power(10, n) \in Nat
    BY <2>1, LowEnds, PowerFacts
  <2>9. Value(a) * Low(b, n) + (b[l] * Power(10, n)) * Value(a) = Value(a) * (Low(b, n) + b[l] * Power(10, n))
    <3>1. \A v, x, y \in Nat : v * x + y * v = v * (x + y)
      OBVIOUS
    <3>2. b[l] * Power(10, n) \in Nat
      BY <2>7, <2>8
    <3> QED
      BY <1>1, <2>8, <3>1, <3>2
  <2>10. Value(f[l]) = Value(a) * Low(b, n + 1)
    BY <2>1, <2>4, <2>5, <2>6, <2>7, <2>9
  <2>11. Right(l)
    BY <2>1, <2>5, <2>10
  <2> HIDE DEF Right
  <2> QED
    BY <2>1, <2>11 DEF l
<1>5. \A n \in 0 .. N : n \in P
  <2> HIDE DEF P
  <2> QED
    BY <1>1, <1>3, <1>4, Induct
<1>6. Right(N + 1 - N)
  <2> HIDE DEF Right
  <2> QED
    BY <1>1, <1>5
<1>7. N + 1 - N = 1 /\ N + 1 - 1 = N /\ Low(b, N) = Value(b)
  BY <1>1, LowEnds
<1>8. Right(1)
  <2> HIDE DEF Right
  <2> QED
    BY <1>6, <1>7
<1> QED
  BY <1>7, <1>8

\* What is in front of the first digit that is not 0, if there is any.
LEMMA FirstDigit ==
  ASSUME NEW t \in Seq(Digit)
  PROVE  \/ \A k \in 1 .. Len(t) : t[k] = 0
         \/ \E k \in 1 .. Len(t) : t[k] # 0 /\ \A m \in 1 .. k - 1 : t[m] = 0
<1> DEFINE S == {k \in 1 .. Len(t) : t[k] # 0}
<1>1. CASE S = {}
  BY <1>1
<1>2. CASE S # {}
  <2>1. S \in SUBSET Nat
    OBVIOUS
  <2>2. PICK x \in S : \A y \in S : x <= y
    BY <1>2, <2>1, LeastNumber
  <2>3. \A m \in 1 .. x - 1 : t[m] = 0
    BY <2>2
  <2> QED
    BY <2>2, <2>3
<1> QED
  BY <1>1, <1>2

\* multiply_string multiplies, and leaves no zero in front.
LEMMA ProductFacts ==
  ASSUME NEW a \in Seq(Digit), NEW b \in Seq(Digit)
  PROVE  /\ multiply_string(a, b) \in Seq(Digit)
         /\ Value(multiply_string(a, b)) = Value(a) * Value(b)
         /\ multiply_string(a, b) = <<>> \/ multiply_string(a, b)[1] # 0
<1> DEFINE t == ProductsOf(a, b)[1]
           first == {k \in DOMAIN t : t[k] # 0 /\ \A m \in 1 .. k - 1 : t[m] = 0}
           r == IF first = {} THEN <<>> ELSE Drop(t, (CHOOSE k \in first : TRUE) - 1)
<1>1. multiply_string(a, b) = r
  BY DEF multiply_string, ProductsOf, ProductsTo
<1>2. ProductsTo(a, b, ProductsOf(a, b))
  BY ProductSteps DEF ProductsOf
<1>3. t \in Seq(Digit) /\ Value(t) = Value(a) * Value(b)
  BY <1>2, ProductRows
<1> HIDE DEF t
<1>4. DOMAIN t = 1 .. Len(t)
  BY <1>3
<1>5. CASE first = {}
  <2>1. \A k \in 1 .. Len(t) : t[k] = 0
    BY <1>3, <1>4, <1>5, FirstDigit
  <2>2. Value(t) = 0
    BY <1>3, <2>1, ValueOfZeros
  <2> QED
    BY <1>1, <1>3, <1>5, <2>2, ValueNone
<1>6. CASE first # {}
  <2> DEFINE k == CHOOSE k \in first : TRUE
  <2>1. k \in first
    BY <1>6
  <2>2. k \in 1 .. Len(t) /\ t[k] # 0 /\ \A m \in 1 .. k - 1 : t[m] = 0
    BY <1>4, <2>1
  <2>3. r = SubSeq(t, (k - 1) + 1, Len(t))
    BY <1>6 DEF Drop
  <2> HIDE DEF k, r, first
  <2>4. k - 1 \in 0 .. Len(t) /\ (k - 1) + 1 = k
    BY <1>3, <2>2
  <2>5. Value(r) = Value(t)
    BY <1>3, <2>2, <2>3, <2>4, ZerosInFront
  <2>6. r \in Seq(Digit) /\ r[1] # 0
    BY <1>3, <2>2, <2>3, <2>4
  <2> QED
    BY <1>1, <1>3, <2>5, <2>6
<1> QED
  BY <1>5, <1>6

-----------------------------------------------------------------------------
\* ft_large_pow raises to a power.
Trimmed(t) == t \in Seq(Digit) /\ (t = <<>> \/ t[1] # 0)
Squared(k, half, nb) ==
  IF k % 2 = 0 THEN multiply_string(half, half) ELSE multiply_string(multiply_string(half, half), nb)
SquaresTo(n, nb, f) == f = [k \in 0 .. n |-> IF k = 0 THEN <<1>> ELSE Squared(k, f[k \div 2], nb)]

\* A number is two halves and a rest of at most 1.
LEMMA Halves ==
  ASSUME NEW k \in Nat \ {0}
  PROVE  k \div 2 \in 0 .. k - 1 /\ (k % 2 = 0 \/ k % 2 = 1) /\ k = (k \div 2 + k \div 2) + (k % 2)
OBVIOUS

\* Squaring, and multiplying once more for an odd power.
LEMMA SquaredFacts ==
  ASSUME NEW k, NEW half \in Seq(Digit), NEW nb \in Seq(Digit)
  PROVE  /\ Trimmed(Squared(k, half, nb))
         /\ Value(Squared(k, half, nb)) =
              IF k % 2 = 0 THEN Value(half) * Value(half) ELSE (Value(half) * Value(half)) * Value(nb)
<1> DEFINE s == multiply_string(half, half)
           p == multiply_string(s, nb)
<1>1. s \in Seq(Digit) /\ Value(s) = Value(half) * Value(half) /\ (s = <<>> \/ s[1] # 0)
  BY ProductFacts
<1> HIDE DEF s
<1>2. p \in Seq(Digit) /\ Value(p) = Value(s) * Value(nb) /\ (p = <<>> \/ p[1] # 0)
  BY <1>1, ProductFacts
<1> HIDE DEF p
<1>3. CASE k % 2 = 0
  <2>1. Squared(k, half, nb) = s
    BY <1>3 DEF Squared, s
  <2> QED
    BY <1>1, <1>3, <2>1 DEF Trimmed
<1>4. CASE k % 2 # 0
  <2>1. Squared(k, half, nb) = p
    BY <1>4, Zenon DEF Squared, s, p
  <2> QED
    BY <1>1, <1>2, <1>4, <2>1 DEF Trimmed
<1> QED
  BY <1>3, <1>4

\* The function inside ft_large_pow exists.
LEMMA SquareSteps ==
  ASSUME NEW N \in Nat, NEW nb \in Seq(Digit)
  PROVE  \E f : SquaresTo(N, nb, f)
<1> DEFINE D == Seq(Digit)
           F == [p \in (1 .. N) \X D |-> Squared(p[1], p[2], nb)]
           before == [n \in 1 .. N |-> n \div 2]
<1>1. <<1>> \in D
  BY DEF Digit
<1>2. \A n \in 1 .. N : n \div 2 \in 0 .. n - 1
  BY Halves
<1>3. before \in [1 .. N -> Nat] /\ \A n \in 1 .. N : before[n] < n /\ before[n] = n \div 2
  BY <1>2
<1>4. F \in [(1 .. N) \X D -> D]
  <2>1. \A n \in 1 .. N, t \in D : Squared(n, t, nb) \in D
    BY SquaredFacts DEF Trimmed
  <2> QED
    BY <2>1
<1>5. \A n \in 1 .. N, t \in D : F[<<n, t>>] = Squared(n, t, nb)
  OBVIOUS
<1> HIDE DEF D, F, before
<1>6. Recursive(D, <<1>>, N, before, F)
  BY <1>1, <1>3, <1>4, Recursion
<1>7. PICK g \in [0 .. N -> D] : Follows(g, <<1>>, N, before, F)
  BY <1>6 DEF Recursive
<1>8. \A n \in 0 .. N : g[n] = IF n = 0 THEN <<1>> ELSE Squared(n, g[n \div 2], nb)
  <2> SUFFICES ASSUME NEW n \in 0 .. N
               PROVE  g[n] = IF n = 0 THEN <<1>> ELSE Squared(n, g[n \div 2], nb)
    OBVIOUS
  <2>1. CASE n = 0
    BY <1>7, <2>1 DEF Follows
  <2>2. CASE n # 0
    <3>1. n \in 1 .. N /\ n \div 2 \in 0 .. N
      BY <1>2, <2>2
    <3>2. g[n \div 2] \in D
      BY <3>1
    <3>3. g[n] = F[<<n, g[n \div 2]>>]
      BY <1>3, <1>7, <3>1 DEF Follows
    <3>4. g[n] = Squared(n, g[n \div 2], nb)
      BY <1>5, <3>1, <3>2, <3>3
    <3> QED
      BY <2>2, <3>4
  <2> QED
    BY <2>1, <2>2
<1>9. g = [k \in 0 .. N |-> IF k = 0 THEN <<1>> ELSE Squared(k, g[k \div 2], nb)]
  <2> DEFINE made(k) == IF k = 0 THEN <<1>> ELSE Squared(k, g[k \div 2], nb)
  <2>1. \A n \in 0 .. N : g[n] = made(n)
    BY <1>8
  <2> HIDE DEF made
  <2>2. g = [k \in 0 .. N |-> made(k)]
    BY <2>1
  <2> QED
    BY <2>2 DEF made
<1> QED
  BY <1>9 DEF SquaresTo

\* ft_large_pow computes the power, without a zero in front.
LEMMA LargePow ==
  ASSUME NEW N \in Nat, NEW nb \in Seq(Digit)
  PROVE  /\ Trimmed(ft_large_pow(N, nb))
         /\ Value(ft_large_pow(N, nb)) = Power(Value(nb), N)
<1> DEFINE f == CHOOSE f : SquaresTo(N, nb, f)
           v == Value(nb)
           P == {k \in 0 .. N : Trimmed(f[k]) /\ Value(f[k]) = Power(v, k)}
<1>1. ft_large_pow(N, nb) = f[N]
  BY DEF ft_large_pow, SquaresTo, Squared
<1>2. SquaresTo(N, nb, f)
  BY SquareSteps
<1> HIDE DEF f
<1>3. \A k \in 0 .. N : f[k] = IF k = 0 THEN <<1>> ELSE Squared(k, f[k \div 2], nb)
  BY <1>2, Zenon DEF SquaresTo
<1>4. v \in Nat
  BY ValueType
<1> HIDE DEF v
<1>5. ASSUME NEW k \in 0 .. N, \A m \in 0 .. k - 1 : m \in P
      PROVE  k \in P
  <2>1. CASE k = 0
    <3>1. 1 \in Digit /\ 1 # 0
      BY DEF Digit
    <3>2. <<1>> \in Seq(Digit) /\ Value(<<1>>) = 1 /\ <<1>>[1] = 1
      BY <3>1, ValueOfDigit
    <3>3. Trimmed(<<1>>)
      BY <3>1, <3>2 DEF Trimmed
    <3>4. f[k] = <<1>> /\ Power(v, k) = 1
      BY <1>3, <1>4, <2>1, PowerFacts
    <3> QED
      BY <3>2, <3>3, <3>4
  <2>2. CASE k # 0
    <3> DEFINE h == k \div 2
               half == f[h]
    <3>1. k \in Nat \ {0} /\ h \in 0 .. k - 1 /\ (k % 2 = 0 \/ k % 2 = 1) /\ k = (h + h) + (k % 2) /\ h \in Nat
      BY <2>2, Halves
    <3>2. Trimmed(half) /\ Value(half) = Power(v, h)
      BY <1>5, <3>1
    <3>3. f[k] = Squared(k, half, nb)
      BY <1>3, <2>2
    <3> HIDE DEF h, half
    <3>4. half \in Seq(Digit)
      BY <3>2 DEF Trimmed
    <3>5. /\ Trimmed(f[k])
          /\ Value(f[k]) = IF k % 2 = 0 THEN Power(v, h) * Power(v, h) ELSE (Power(v, h) * Power(v, h)) * v
      <4>1. /\ Trimmed(Squared(k, half, nb))
            /\ Value(Squared(k, half, nb)) =
                 IF k % 2 = 0 THEN Value(half) * Value(half) ELSE (Value(half) * Value(half)) * v
        BY <3>4, SquaredFacts DEF v
      <4> QED
        BY <3>2, <3>3, <4>1
    <3>6. Power(v, h + h) = Power(v, h) * Power(v, h)
      BY <1>4, <3>1, PowerSum
    <3>7. h + h \in Nat
      BY <3>1
    <3>8. Power(v, (h + h) + 1) = v * Power(v, h + h) /\ Power(v, h + h) \in Nat
      BY <1>4, <3>7, PowerFacts
    <3>9. CASE k % 2 = 0
      <4>1. k = h + h
        BY <3>1, <3>7, <3>9
      <4>2. Value(f[k]) = Power(v, k)
        BY <3>5, <3>6, <3>9, <4>1
      <4> QED
        BY <3>5, <4>2
    <3>10. CASE k % 2 = 1
      <4>1. k = (h + h) + 1
        BY <3>1, <3>7, <3>10
      <4>2. Value(f[k]) = Power(v, h + h) * v
        BY <3>5, <3>6, <3>10
      <4>3. Power(v, h + h) * v = v * Power(v, h + h)
        BY <1>4, <3>8
      <4>4. Value(f[k]) = Power(v, k)
        BY <3>8, <4>1, <4>2, <4>3
      <4> QED
        BY <3>5, <4>4
    <3> QED
      BY <3>1, <3>9, <3>10
  <2> QED
    BY <2>1, <2>2
<1>6. \A k \in 0 .. N : k \in P
  <2> HIDE DEF P
  <2> QED
    BY <1>5, StrongInduct
<1>7. N \in 0 .. N
  OBVIOUS
<1> QED
  BY <1>1, <1>6, <1>7 DEF v

-----------------------------------------------------------------------------
\* Bits of the mantissa
LEMMA DivFacts ==
  ASSUME NEW n \in Nat, NEW p \in Nat \ {0}
  PROVE  n \div p \in Nat /\ p * (n \div p) <= n /\ n < p * (n \div p) + p
<1>1. n \div p \in Nat /\ n % p \in 0 .. p - 1 /\ n = p * (n \div p) + (n % p)
  OBVIOUS
<1> DEFINE q == n \div p
           r == n % p
<1> HIDE DEF q, r
<1>2. q \in Nat /\ r \in 0 .. p - 1 /\ n = p * q + r
  BY <1>1 DEF q, r
<1>3. p * q \in Nat
  BY <1>2
<1>4. p * q <= n /\ n < p * q + p
  BY <1>2, <1>3
<1> QED
  BY <1>2, <1>4 DEF q

\* The quotient is the only number between its bounds.
LEMMA DivUnique ==
  ASSUME NEW n \in Nat, NEW p \in Nat \ {0}, NEW q \in Nat, p * q <= n, n < p * q + p
  PROVE  n \div p = q
<1> DEFINE d == n \div p
<1>1. d \in Nat /\ p * d <= n /\ n < p * d + p
  BY DivFacts
<1> HIDE DEF d
<1>2. ASSUME d < q
      PROVE  FALSE
  <2>1. PICK k \in Nat : q = (d + 1) + k
    <3>1. q - (d + 1) \in Nat /\ q = (d + 1) + (q - (d + 1))
      BY <1>1, <1>2
    <3> QED
      BY <3>1
  <2>2. p * ((d + 1) + k) = p * d + p + p * k /\ p * k \in Nat /\ p * d \in Nat
    BY <1>1
  <2> QED
    BY <1>1, <2>1, <2>2
<1>3. ASSUME q < d
      PROVE  FALSE
  <2>1. PICK k \in Nat : d = (q + 1) + k
    <3>1. d - (q + 1) \in Nat /\ d = (q + 1) + (d - (q + 1))
      BY <1>1, <1>3
    <3> QED
      BY <3>1
  <2>2. p * ((q + 1) + k) = p * q + p + p * k /\ p * k \in Nat /\ p * q \in Nat
    OBVIOUS
  <2> QED
    BY <1>1, <2>1, <2>2
<1>4. d = q
  BY <1>1, <1>2, <1>3
<1> QED
  BY <1>4 DEF d

\* One bit more of n.
LEMMA DivHalf ==
  ASSUME NEW n \in Nat, NEW p \in Nat \ {0}
  PROVE  n \div p = 2 * (n \div (2 * p)) + ((n \div p) % 2)
<1> DEFINE d == n \div p
           h == d \div 2
           r == d % 2
<1>1. d \in Nat /\ p * d <= n /\ n < p * d + p
  BY DivFacts
<1> HIDE DEF d
<1>2. h \in Nat /\ r \in 0 .. 1 /\ d = 2 * h + r
  BY <1>1
<1> HIDE DEF h, r
<1>3. 2 * p \in Nat \ {0}
  OBVIOUS
<1>4. p * d = (2 * p) * h + p * r
  <2>1. p * (2 * h + r) = (2 * p) * h + p * r
    BY <1>2
  <2> QED
    BY <1>2, <2>1
<1>5. p * r \in Nat /\ p * r <= p
  <2>1. p * 0 = 0 /\ p * 1 = p /\ (r = 0 \/ r = 1)
    BY <1>2
  <2> QED
    BY <2>1
<1>6. (2 * p) * h \in Nat
  BY <1>2
<1>7. (2 * p) * h <= n /\ n < (2 * p) * h + 2 * p
  BY <1>1, <1>4, <1>5, <1>6
<1>8. n \div (2 * p) = h
  BY <1>2, <1>3, <1>7, DivUnique
<1> QED
  BY <1>2, <1>8 DEF d, r

\* The number that the first k bits of the mantissa stand for.
Top(n, k) == n \div Power(2, MantBits - k)

\* Each bit doubles the number that the bits in front stand for, and adds to
\* it.
LEMMA TopSteps ==
  ASSUME NEW n \in 0 .. Power(2, MantBits) - 1
  PROVE  /\ Top(n, 0) = 0 /\ Top(n, MantBits) = n
         /\ \A k \in 0 .. MantBits - 1 :
              Top(n, k + 1) = 2 * Top(n, k) + Bit(n, MantBits - 1 - k) /\ Bit(n, MantBits - 1 - k) \in {0, 1}
<1>1. MantBits \in Nat /\ MantBits - 0 = MantBits /\ MantBits - MantBits = 0
  BY MantBitsAssumption
<1>2. Power(2, MantBits) \in Nat \ {0} /\ Power(2, 0) = 1
  BY <1>1, PowerFacts, PowerPositive
<1>3. n \in Nat
  BY <1>2
<1>4. Top(n, 0) = 0
  <2>1. n \div Power(2, MantBits) = 0
    <3> DEFINE p == Power(2, MantBits)
    <3> HIDE DEF p
    <3>1. p \in Nat \ {0} /\ n < p
      BY <1>2 DEF p
    <3>2. p * 0 <= n /\ n < p * 0 + p
      BY <1>3, <3>1
    <3> QED
      BY <1>3, <3>1, <3>2, DivUnique DEF p
  <2> QED
    BY <1>1, <2>1 DEF Top
<1>5. Top(n, MantBits) = n
  BY <1>1, <1>2, <1>3 DEF Top
<1>6. ASSUME NEW k \in 0 .. MantBits - 1
      PROVE  Top(n, k + 1) = 2 * Top(n, k) + Bit(n, MantBits - 1 - k) /\ Bit(n, MantBits - 1 - k) \in {0, 1}
  <2> DEFINE l == MantBits - 1 - k
             p == Power(2, l)
  <2>1. l \in Nat /\ MantBits - (k + 1) = l /\ MantBits - k = l + 1
    BY <1>1
  <2> HIDE DEF l
  <2>2. p \in Nat \ {0} /\ Power(2, l + 1) = 2 * p
    BY <2>1, PowerFacts, PowerPositive
  <2> HIDE DEF p
  <2>3. n \div p = 2 * (n \div (2 * p)) + ((n \div p) % 2)
    BY <1>3, <2>2, DivHalf
  <2>4. Top(n, k + 1) = n \div p /\ Top(n, k) = n \div (2 * p)
    BY <2>1, <2>2, Zenon DEF Top, p
  <2>5. Bit(n, l) = (n \div p) % 2
    BY DEF Bit, p
  <2>6. n \div p \in Nat
    BY <1>3, <2>2, DivFacts
  <2>7. \A d \in Nat : d % 2 \in {0, 1}
    OBVIOUS
  <2>8. Top(n, k + 1) = 2 * Top(n, k) + Bit(n, l) /\ Bit(n, l) \in {0, 1}
    BY <2>3, <2>4, <2>5, <2>6, <2>7
  <2> QED
    BY <2>8 DEF l
<1> QED
  BY <1>4, <1>5, <1>6

\* ... is less than 2^k.
LEMMA TopBound ==
  ASSUME NEW n \in 0 .. Power(2, MantBits) - 1
  PROVE  \A k \in 0 .. MantBits : Top(n, k) \in Nat /\ Top(n, k) + 1 <= Power(2, k)
<1> DEFINE P == {k \in 0 .. MantBits : Top(n, k) \in Nat /\ Top(n, k) + 1 <= Power(2, k)}
<1>1. MantBits \in Nat
  BY MantBitsAssumption
<1>2. 0 \in P
  BY <1>1, TopSteps, PowerFacts, SMTT(30)
<1>3. ASSUME NEW k \in 0 .. MantBits - 1, k \in P
      PROVE  k + 1 \in P
  <2>1. /\ Top(n, k + 1) = 2 * Top(n, k) + Bit(n, MantBits - 1 - k) /\ Bit(n, MantBits - 1 - k) \in {0, 1}
    BY TopSteps
  <2>5. k \in Nat
    BY <1>1
  <2>2. Power(2, k + 1) = 2 * Power(2, k) /\ Power(2, k) \in Nat
    BY <2>5, PowerFacts
  <2>3. Top(n, k) \in Nat /\ Top(n, k) + 1 <= Power(2, k)
    BY <1>3
  <2>4. Top(n, k + 1) \in Nat /\ Top(n, k + 1) + 1 <= Power(2, k + 1)
    BY <2>1, <2>2, <2>3, <2>5
  <2> QED
    BY <1>1, <2>4
<1>4. \A k \in 0 .. MantBits : k \in P
  <2> HIDE DEF P
  <2> QED
    BY <1>1, <1>2, <1>3, Induct
<1> QED
  BY <1>4

-----------------------------------------------------------------------------
\* Lengths of numbers
LEMMA PowerMonotone ==
  ASSUME NEW b \in Nat \ {0}, NEW m \in Nat, NEW n \in Nat, m <= n
  PROVE  Power(b, m) <= Power(b, n)
<1> DEFINE k == n - m
<1>1. k \in Nat /\ n = m + k
  OBVIOUS
<1> HIDE DEF k
<1>2. Power(b, n) = Power(b, m) * Power(b, k)
  BY <1>1, PowerSum
<1>3. Power(b, m) \in Nat /\ Power(b, k) \in Nat \ {0}
  BY <1>1, PowerPositive
<1>4. \A x \in Nat, y \in Nat \ {0} : x <= x * y
  <2> SUFFICES ASSUME NEW x \in Nat, NEW y \in Nat \ {0}
               PROVE  x <= x * y
    OBVIOUS
  <2>1. y - 1 \in Nat /\ x * y = x + x * (y - 1) /\ x * (y - 1) \in Nat
    OBVIOUS
  <2> QED
    BY <2>1
<1> QED
  BY <1>2, <1>3, <1>4

\* A number that is less than 10^n has at most n digits.
LEMMA LengthBound ==
  ASSUME NEW t, Trimmed(t), NEW n \in Nat, Value(t) < Power(10, n)
  PROVE  Len(t) <= n
<1> SUFFICES ASSUME Len(t) > n
             PROVE  FALSE
  BY DEF Trimmed
<1> DEFINE m == Len(t) - 1
<1>1. /\ t \in Seq(Digit) /\ m \in Nat /\ Len(t) = m + 1 /\ n <= m
  BY DEF Trimmed
<1>2. t[1] # 0
  BY DEF Trimmed
<1> HIDE DEF m
<1>3. Value(t) >= Power(10, m)
  BY <1>1, <1>2, ValueAtLeast
<1>4. Power(10, n) <= Power(10, m)
  BY <1>1, PowerMonotone
<1>5. Value(t) \in Nat /\ Power(10, n) \in Nat /\ Power(10, m) \in Nat
  BY <1>1, ValueType, PowerFacts
<1> QED
  BY <1>3, <1>4, <1>5

\* One that is 10^n or more has more than n.
LEMMA LengthAtLeast ==
  ASSUME NEW t \in Seq(Digit), NEW n \in Nat, Value(t) >= Power(10, n)
  PROVE  Len(t) > n
<1> SUFFICES ASSUME Len(t) <= n
             PROVE  FALSE
  OBVIOUS
<1>1. Value(t) < Power(10, Len(t))
  BY ValueBound
<1>2. Len(t) \in Nat
  OBVIOUS
<1>3. Power(10, Len(t)) <= Power(10, n)
  BY <1>2, PowerMonotone
<1>4. Value(t) \in Nat /\ Power(10, n) \in Nat /\ Power(10, Len(t)) \in Nat
  BY <1>2, ValueType, PowerFacts
<1> QED
  BY <1>1, <1>3, <1>4

-----------------------------------------------------------------------------
\* The invariant.  The string holds, one after the other, the bits read so far,
\* the significand and the exact number; then decimal and fract hold it together
\* until they are rounded.  What is left then is the nearest number, or five
\* units too much where the fraction ends at the precision.
Close(d, f, p, places, exact) ==
  LET shown == Value(d \o f)
  IN IF p < places
       THEN 2 * Abs(shown * Power(10, places - p) - exact) <= Power(10, places - p)
       ELSE IF p = places THEN shown = exact + 5
       ELSE shown = exact * Power(10, p - places)

TypeInv ==
  /\ nbr \in Floats /\ precision \in Precisions /\ hash \in BOOLEAN
  /\ pc \in {"start", "mantissa", "scale", "split", "round", "join", "done", "garbage"}
  /\ i \in 0 .. MantBits
  /\ mantiss \in Seq(Digit) /\ decimal \in Seq(Digit) /\ fract \in Seq(Digit)
WordInv ==
  /\ pc = "start" => i = 0
  /\ pc \in {"start", "mantissa", "scale", "split", "round"} => ~tie
  /\ pc # "done" \/ tie => word = NoWord
  /\ word # NoWord => nbr.exponent = MaxExponent /\ (minus => nbr.neg /\ word = "inf")
MantissaInv ==
  pc = "mantissa" =>
    IF nbr.mantissa = 0 THEN Len(mantiss) = MantBits /\ Value(mantiss) = 0
    ELSE /\ Len(mantiss) = IF i = MantBits THEN MantBits ELSE i + 1
         /\ Value(mantiss) = (Top(nbr.mantissa, i) * Power(5, i)) * (IF i = MantBits THEN 1 ELSE 10)
ScaleInv ==
  pc = "scale" => Len(mantiss) = MantBits + 1 /\ Value(mantiss) = Power(5, MantBits) * Significand
SplitInv ==
  pc = "split" => /\ Value(mantiss) = Exact
                  /\ IF NotZero THEN Trimmed(mantiss) ELSE Len(mantiss) = MantBits + 1
RoundInv ==
  PartsExact /\ (pc = "round" => Len(fract) = IF precision > Places THEN Places + (precision + 1) ELSE Places)
JoinInv ==
  pc = "join" =>
    /\ ~tie => Len(fract) = precision /\ Close(decimal, fract, precision, Places, Exact)
    /\ tie /\ precision = 0 => ~Odd(decimal) /\ Close(decimal, <<>>, precision, Places, Exact)
DoneInv ==
  pc = "done" /\ word = NoWord =>
    /\ minus = nbr.neg /\ dot = (hash \/ precision # 0)
    /\ ~tie => Len(fract) = precision /\ Close(decimal, fract, precision, Places, Exact)
    /\ tie /\ precision = 0 =>
         ~Odd(decimal) /\ (hash \/ (fract = <<>> /\ Close(decimal, <<>>, precision, Places, Exact)))
IInv == TypeInv /\ WordInv /\ MantissaInv /\ ScaleInv /\ SplitInv /\ RoundInv /\ JoinInv /\ DoneInv

\* Which numbers the parts of a floating point number are.
LEMMA NumberFacts ==
  ASSUME nbr \in Floats, precision \in Precisions
  PROVE  /\ MantBits \in Nat \ {0} /\ nbr.mantissa \in 0 .. Power(2, MantBits) - 1 /\ nbr.mantissa \in Nat
         /\ nbr.bit \in {0, 1} /\ e \in Int /\ (e >= 0 => nbr.bit = 1)
         /\ precision \in Nat /\ Places \in Nat /\ Significand \in Nat /\ Exact \in Nat
         /\ Places = IF e < 0 /\ NotZero THEN MantBits - e ELSE MantBits
<1>1. /\ MantBits \in Nat \ {0} /\ Bias \in Nat \ {0} /\ precision \in Nat
      /\ nbr \in [neg : BOOLEAN, bit : {0, 1}, mantissa : 0 .. Power(2, MantBits) - 1,
                  exponent : 0 .. MaxExponent]
      /\ nbr.exponent # 0 => nbr.bit = 1
  BY MantBitsAssumption, BiasAssumption, FloatsAssumption, PrecisionsAssumption
<1>2. Power(2, MantBits) \in Nat
  BY <1>1, PowerFacts
<1>3. /\ nbr.mantissa \in 0 .. Power(2, MantBits) - 1 /\ nbr.mantissa \in Nat
      /\ nbr.bit \in {0, 1} /\ nbr.exponent \in Int
  BY <1>1, <1>2 DEF MaxExponent
<1>4. e \in Int /\ (e >= 0 => nbr.bit = 1)
  BY <1>1, <1>3 DEF e
<1>5. Places \in Nat /\ Places = IF e < 0 /\ NotZero THEN MantBits - e ELSE MantBits
  BY <1>1, <1>4 DEF Places
<1>6. Significand \in Nat
  BY <1>2, <1>3 DEF Significand
<1>7. Exact \in Nat
  <2>1. Power(5, Places) \in Nat
    BY <1>5, PowerFacts
  <2>2. CASE e < 0
    BY <1>6, <2>1, <2>2 DEF Exact
  <2>3. CASE e >= 0
    <3>1. Power(2, e) \in Nat
      <4>1. e \in Nat
        BY <1>4, <2>3
      <4> QED
        BY <4>1, PowerFacts
    <3> QED
      BY <1>4, <1>6, <2>1, <2>3, <3>1 DEF Exact
  <2> QED
    BY <1>4, <2>2, <2>3
<1> QED
  BY <1>1, <1>3, <1>4, <1>5, <1>6, <1>7

\* As long as the number stays, what it stands for does.
LEMMA SameNumber ==
  ASSUME UNCHANGED input
  PROVE  /\ nbr' = nbr /\ precision' = precision /\ hash' = hash /\ Places' = Places /\ Exact' = Exact
         /\ Significand' = Significand /\ NotZero' = NotZero /\ e' = e
BY DEF input, Places, Exact, Significand, NotZero, e

\* The invariant holds when ft_print_f is entered.
LEMMA InitOK == Init => IInv
<1> SUFFICES ASSUME Init
             PROVE  IInv
  OBVIOUS
<1>1. <<>> \in Seq(Digit) /\ 0 \in 0 .. MantBits
  BY MantBitsAssumption
<1>2. TypeInv
  BY <1>1 DEF Init, TypeInv
<1>3. WordInv
  BY DEF Init, WordInv
<1> QED
  BY <1>2, <1>3 DEF Init, IInv, MantissaInv, ScaleInv, SplitInv, RoundInv, PartsExact, JoinInv, DoneInv

-----------------------------------------------------------------------------
\* The steps: reading the mantissa

\* Nan and the infinities become words.
LEMMA PrintWordOK == IInv /\ PrintWord => IInv'
<1> SUFFICES ASSUME IInv, PrintWord
             PROVE  IInv'
  OBVIOUS
<1>1. "nan" # NoWord /\ "inf" # NoWord /\ "nan" # "inf"
  BY Zenon DEF NoWord
<1>2. pc = "start" /\ pc' = "done" /\ UNCHANGED <<input, i, mantiss, decimal, fract, dot, tie>>
  BY DEF PrintWord
<1>3. nbr' = nbr /\ nbr.exponent = MaxExponent /\ word' # NoWord /\ (minus' => nbr.neg /\ word' = "inf")
  <2>1. nbr' = nbr
    BY <1>2 DEF input
  <2>2. CASE NotANumber(nbr) /\ word' = "nan" /\ minus' = FALSE
    BY <1>1, <2>1, <2>2 DEF NotANumber
  <2>3. CASE Infinite(nbr) /\ word' = "inf" /\ minus' = nbr.neg
    BY <1>1, <2>1, <2>3 DEF Infinite
  <2> QED
    BY <2>2, <2>3 DEF PrintWord
<1>4. TypeInv'
  BY <1>2 DEF IInv, TypeInv, input
<1>5. WordInv'
  BY <1>2, <1>3 DEF IInv, WordInv
<1>6. DoneInv'
  BY <1>3 DEF DoneInv
<1> QED
  BY <1>2, <1>4, <1>5, <1>6 DEF IInv, MantissaInv, ScaleInv, SplitInv, RoundInv, PartsExact, JoinInv

\* The string begins as zero.
LEMMA StartMantissaOK == IInv /\ StartMantissa => IInv'
<1> SUFFICES ASSUME IInv, StartMantissa
             PROVE  IInv'
  OBVIOUS
<1>1. /\ pc = "start" /\ pc' = "mantissa" /\ UNCHANGED <<input, i, decimal, fract, output, tie>>
      /\ mantiss' = IF nbr.mantissa # 0 THEN <<0>> ELSE Zeros(MantBits)
  BY DEF StartMantissa
<1>2. TypeInv /\ WordInv /\ i = 0
  BY <1>1 DEF IInv, WordInv
<1>3. /\ nbr' = nbr /\ nbr.mantissa \in 0 .. Power(2, MantBits) - 1 /\ MantBits \in Nat \ {0}
  BY <1>1, <1>2, NumberFacts DEF TypeInv, input
<1>4. 0 \in Digit
  BY DEF Digit
<1>5. <<0>> \in Seq(Digit) /\ Len(<<0>>) = 1 /\ Value(<<0>>) = 0
  BY <1>4, ValueOfDigit
<1>6. Zeros(MantBits) \in Seq(Digit) /\ Len(Zeros(MantBits)) = MantBits /\ Value(Zeros(MantBits)) = 0
  BY <1>3, ZerosFacts
<1>7. TypeInv'
  <2>1. mantiss' \in Seq(Digit)
    BY <1>1, <1>5, <1>6
  <2> QED
    BY <1>1, <1>2, <2>1 DEF TypeInv, input
<1>8. WordInv'
  BY <1>1, <1>2 DEF WordInv, output, input
<1>9. MantissaInv'
  <2>1. CASE nbr.mantissa = 0
    BY <1>1, <1>3, <1>6, <2>1 DEF MantissaInv
  <2>2. CASE nbr.mantissa # 0
    <3>1. Top(nbr.mantissa, 0) = 0 /\ Power(5, 0) = 1
      BY <1>3, TopSteps, PowerFacts
    <3>2. (Top(nbr.mantissa, 0) * Power(5, 0)) * 10 = 0
      BY <3>1
    <3>3. Value(mantiss') = (Top(nbr.mantissa, 0) * Power(5, 0)) * 10 /\ Len(mantiss') = 1
      BY <1>1, <1>5, <2>2, <3>2
    <3>4. i' = 0 /\ 0 # MantBits /\ 0 + 1 = 1
      BY <1>1, <1>2, <1>3
    <3> QED
      BY <1>3, <2>2, <3>3, <3>4 DEF MantissaInv
  <2> QED
    BY <2>1, <2>2
<1> QED
  BY <1>1, <1>7, <1>8, <1>9 DEF IInv, ScaleInv, SplitInv, RoundInv, PartsExact, JoinInv, DoneInv

\* What a bit adds to the string.
LEMMA BitValue ==
  ASSUME NEW n \in 0 .. Power(2, MantBits) - 1, NEW l \in 0 .. MantBits - 1,
         NEW t \in Seq(Digit), Len(t) = l + 1, Value(t) = (Top(n, l) * Power(5, l)) * 10,
         NEW sum, sum = IF Bit(n, MantBits - 1 - l) = 1 THEN sum_string(t, Weight(l)) ELSE t
  PROVE  sum \in Seq(Digit) /\ Len(sum) = l + 1 /\ Value(sum) = Top(n, l + 1) * Power(5, l + 1)
<1> DEFINE F == Power(5, l)
           T == Top(n, l)
           bit == Bit(n, MantBits - 1 - l)
           w == Weight(l)
<1>1. MantBits \in Nat /\ l \in Nat /\ l + 1 \in Nat /\ l \in 0 .. MantBits /\ l + 1 \in 0 .. MantBits
  BY MantBitsAssumption
<1>2. Top(n, l + 1) = 2 * T + bit /\ bit \in {0, 1}
  BY TopSteps
<1>3. T \in Nat /\ Top(n, l + 1) \in Nat /\ Top(n, l + 1) + 1 <= Power(2, l + 1)
  BY <1>1, TopBound
<1>4. F \in Nat \ {0} /\ Power(5, l + 1) = 5 * F /\ Power(5, l + 1) \in Nat \ {0}
  BY <1>1, PowerFacts, PowerPositive
<1>5. Trimmed(w) /\ Value(w) = Power(5, l + 1)
  <2>1. 5 \in Digit
    BY DEF Digit
  <2>2. <<5>> \in Seq(Digit) /\ Value(<<5>>) = 5
    BY <2>1, ValueOfDigit
  <2> QED
    BY <1>1, <2>2, LargePow DEF Weight
<1>6. Power(10, l + 1) = Power(2, l + 1) * Power(5, l + 1) /\ Power(2, l + 1) \in Nat
  BY <1>1, PowerOfTen, PowerFacts
<1>7. /\ Top(n, l + 1) * Power(5, l + 1) < Power(10, l + 1)
  <2>1. \A x, p \in Nat, q \in Nat \ {0} : x + 1 <= p => x * q < p * q
    <3> SUFFICES ASSUME NEW x \in Nat, NEW p \in Nat, NEW q \in Nat \ {0}, x + 1 <= p
                 PROVE  x * q < p * q
      OBVIOUS
    <3>1. p - (x + 1) \in Nat /\ p = (x + 1) + (p - (x + 1))
      OBVIOUS
    <3> DEFINE k == p - (x + 1)
    <3> HIDE DEF k
    <3>2. k \in Nat /\ p = (x + 1) + k
      BY <3>1 DEF k
    <3>3. ((x + 1) + k) * q = x * q + q + k * q /\ k * q \in Nat /\ x * q \in Nat
      BY <3>2
    <3> QED
      BY <3>2, <3>3
  <2> QED
    BY <1>3, <1>4, <1>6, <2>1
<1> HIDE DEF F, T, bit, w
<1>8. CASE bit = 0
  <2>1. sum = t
    BY <1>8 DEF bit
  <2>2. (T * F) * 10 = (2 * T) * (5 * F)
    BY <1>3, <1>4
  <2>3. Top(n, l + 1) = 2 * T
    BY <1>2, <1>3, <1>8
  <2> QED
    BY <1>4, <2>1, <2>2, <2>3 DEF F, T
<1>9. CASE bit = 1
  <2>1. sum = sum_string(t, w)
    BY <1>9 DEF bit, w
  <2>2. w \in Seq(Digit)
    BY <1>5 DEF Trimmed
  <2>3. /\ sum \in Seq(Digit) /\ Value(sum) = Value(t) + Value(w)
        /\ \/ Len(sum) = Larger(Len(t), Len(w))
           \/ Len(sum) = Larger(Len(t), Len(w)) + 1 /\ sum[1] # 0
    BY <2>1, <2>2, SumFacts, ZenonT(60)
  <2>4. (T * F) * 10 + 5 * F = (2 * T + 1) * (5 * F)
    <3>1. (T * F) * 10 = (2 * T) * (5 * F)
      BY <1>3, <1>4
    <3>2. (2 * T + 1) * (5 * F) = (2 * T) * (5 * F) + 5 * F
      BY <1>3, <1>4
    <3> QED
      BY <3>1, <3>2
  <2>5. Value(sum) = Top(n, l + 1) * Power(5, l + 1)
    <3>1. Value(sum) = (T * F) * 10 + 5 * F
      BY <1>4, <1>5, <2>3 DEF T, F
    <3>2. Top(n, l + 1) = 2 * T + 1
      BY <1>2, <1>9
    <3> QED
      BY <1>4, <2>4, <3>1, <3>2
  <2>6. Len(w) <= l + 1
    <3>1. \A x \in Nat : Power(5, l + 1) <= Value(sum)
      <4>1. Value(t) \in Nat /\ Value(w) \in Nat
        BY <2>2, ValueType
      <4> QED
        BY <1>5, <2>3, <4>1
    <3>2. Value(w) < Power(10, l + 1)
      <4>1. Power(10, l + 1) \in Nat /\ Value(sum) \in Nat /\ Value(w) \in Nat
        BY <1>1, <2>2, <2>3, PowerFacts, ValueType
      <4>2. Value(w) <= Value(sum) /\ Value(sum) < Power(10, l + 1)
        BY <1>5, <1>7, <2>5, <3>1
      <4> QED
        BY <4>1, <4>2
    <3> QED
      BY <1>1, <1>5, <3>2, LengthBound
  <2>7. Larger(Len(t), Len(w)) = l + 1
    <3>1. Len(w) \in Nat
      BY <2>2
    <3> QED
      BY <1>1, <2>6, <3>1 DEF Larger
  <2>8. Len(sum) = l + 1
    <3> SUFFICES ASSUME Len(sum) = (l + 1) + 1, sum[1] # 0
                 PROVE  FALSE
      BY <2>3, <2>7
    <3>1. Value(sum) >= Power(10, l + 1)
      BY <1>1, <2>3, ValueAtLeast
    <3>2. Value(sum) \in Nat /\ Power(10, l + 1) \in Nat
      BY <1>1, <2>3, PowerFacts, ValueType
    <3> QED
      BY <1>7, <2>5, <3>1, <3>2
  <2> QED
    BY <2>3, <2>5, <2>8
<1> QED
  BY <1>2, <1>8, <1>9

\* Each bit adds its weight, and the string gets one place more.
LEMMA MantissaBitOK == IInv /\ MantissaBit => IInv'
<1> SUFFICES ASSUME IInv, MantissaBit
             PROVE  IInv'
  OBVIOUS
<1> DEFINE n == nbr.mantissa
           sum == IF Bit(n, MantBits - 1 - i) = 1 THEN sum_string(mantiss, Weight(i)) ELSE mantiss
           S == Top(n, i + 1) * Power(5, i + 1)
<1>1. /\ pc = "mantissa" /\ n # 0 /\ i < MantBits /\ i' = i + 1
      /\ UNCHANGED <<input, pc, decimal, fract, output, tie>>
      /\ mantiss' = IF i < MantBits - 1 THEN Append(sum, 0) ELSE sum
  BY DEF MantissaBit
<1>2. TypeInv /\ WordInv /\ MantissaInv
  BY DEF IInv
<1>3. MantBits \in Nat \ {0} /\ n \in 0 .. Power(2, MantBits) - 1 /\ i \in 0 .. MantBits - 1 /\ i \in Nat
  BY <1>1, <1>2, NumberFacts DEF TypeInv
<1>4. mantiss \in Seq(Digit) /\ Len(mantiss) = i + 1 /\ Value(mantiss) = (Top(n, i) * Power(5, i)) * 10
  BY <1>1, <1>2, <1>3 DEF TypeInv, MantissaInv
<1>5. sum \in Seq(Digit) /\ Len(sum) = i + 1 /\ Value(sum) = S
  BY <1>3, <1>4, BitValue
<1>6. nbr' = nbr
  BY <1>1 DEF input
<1> HIDE DEF sum
<1>7. S \in Nat
  BY <1>5, ValueType
<1> HIDE DEF S
<1>8. /\ mantiss' \in Seq(Digit)
      /\ Len(mantiss') = IF i' = MantBits THEN MantBits ELSE i' + 1
      /\ Value(mantiss') = S * (IF i' = MantBits THEN 1 ELSE 10)
  <2>1. CASE i < MantBits - 1
    <3>1. 0 \in Digit
      BY DEF Digit
    <3>2. Append(sum, 0) \in Seq(Digit) /\ Value(Append(sum, 0)) = 10 * S + 0 /\ Len(Append(sum, 0)) = (i + 1) + 1
      BY <1>5, <3>1, ValueMore
    <3>3. mantiss' = Append(sum, 0) /\ i' # MantBits /\ i' + 1 = (i + 1) + 1
      BY <1>1, <1>3, <2>1
    <3> QED
      BY <1>7, <3>2, <3>3
  <2>2. CASE i = MantBits - 1
    <3>1. mantiss' = sum /\ i' = MantBits /\ i + 1 = MantBits
      BY <1>1, <1>3, <2>2
    <3> QED
      BY <1>5, <1>7, <3>1
  <2> QED
    BY <1>3, <2>1, <2>2
<1>9. TypeInv'
  BY <1>1, <1>2, <1>3, <1>8 DEF TypeInv, input
<1>10. WordInv'
  BY <1>1, <1>2 DEF WordInv, output, input
<1>11. MantissaInv'
  <2>1. Value(mantiss') = (Top(n, i') * Power(5, i')) * (IF i' = MantBits THEN 1 ELSE 10)
    BY <1>1, <1>8, Zenon DEF S
  <2> QED
    BY <1>1, <1>6, <1>8, <2>1 DEF MantissaInv
<1> QED
  BY <1>1, <1>9, <1>10, <1>11 DEF IInv, ScaleInv, SplitInv, RoundInv, PartsExact, JoinInv, DoneInv

\* The bit in front of the point makes the string the significand times
\* 5^MantBits.
LEMMA MantissaDoneOK == IInv /\ MantissaDone => IInv'
<1> SUFFICES ASSUME IInv, MantissaDone
             PROVE  IInv'
  OBVIOUS
<1> DEFINE n == nbr.mantissa
           F == Power(5, MantBits)
           T == Power(2, MantBits)
           b == nbr.bit
<1>1. /\ pc = "mantissa" /\ (n = 0 \/ i = MantBits) /\ pc' = "scale" /\ mantiss' = <<b>> \o mantiss
      /\ UNCHANGED <<input, i, decimal, fract, output, tie>>
  BY DEF MantissaDone
<1>2. TypeInv /\ WordInv /\ MantissaInv
  BY DEF IInv
<1>3. MantBits \in Nat \ {0} /\ n \in 0 .. Power(2, MantBits) - 1 /\ n \in Nat /\ b \in {0, 1}
  BY <1>2, NumberFacts DEF TypeInv
<1>4. mantiss \in Seq(Digit) /\ Len(mantiss) = MantBits /\ Value(mantiss) = n * F
  <2>1. F \in Nat
    BY <1>3, PowerFacts
  <2>2. CASE n = 0
    BY <1>1, <1>2, <2>1, <2>2 DEF TypeInv, MantissaInv
  <2>3. CASE n # 0
    <3>1. i = MantBits /\ Top(n, MantBits) = n
      BY <1>1, <1>3, <2>3, TopSteps
    <3>2. Value(mantiss) = (Top(n, MantBits) * F) * 1 /\ Len(mantiss) = MantBits
      BY <1>1, <1>2, <2>3, <3>1 DEF MantissaInv
    <3> QED
      BY <1>2, <1>3, <2>1, <3>1, <3>2 DEF TypeInv
  <2> QED
    BY <2>2, <2>3
<1>5. <<b>> \in Seq(Digit) /\ Len(<<b>>) = 1 /\ Value(<<b>>) = b
  <2>1. b \in Digit
    BY <1>3 DEF Digit
  <2> QED
    BY <2>1, ValueOfDigit
<1>6. mantiss' \in Seq(Digit) /\ Value(mantiss') = b * Power(10, MantBits) + n * F
  BY <1>1, <1>4, <1>5, ValueJoin
<1>7. Len(mantiss') = MantBits + 1
  BY <1>1, <1>3, <1>4, <1>5
<1>8. Value(mantiss') = F * Significand
  <2>1. Power(10, MantBits) = T * F /\ T \in Nat /\ F \in Nat
    BY <1>3, PowerOfTen, PowerFacts
  <2>2. Significand = b * T + n
    BY DEF Significand
  <2> HIDE DEF T, F, b, n
  <2>3. b * (T * F) + n * F = F * (b * T + n)
    BY <1>3, <2>1
  <2> QED
    BY <1>6, <2>1, <2>2, <2>3
<1>9. TypeInv'
  BY <1>1, <1>2, <1>6 DEF TypeInv, input
<1>10. WordInv'
  BY <1>1, <1>2 DEF WordInv, output, input
<1>11. ScaleInv'
  BY <1>1, <1>7, <1>8, SameNumber DEF ScaleInv
<1> QED
  BY <1>1, <1>9, <1>10, <1>11 DEF IInv, MantissaInv, SplitInv, RoundInv, PartsExact, JoinInv, DoneInv

-----------------------------------------------------------------------------
\* The steps: scaling and splitting

\* Scaled by a power of two or five it is the exact number.
LEMMA ScaleOK == IInv /\ Scale => IInv'
<1> SUFFICES ASSUME IInv, Scale
             PROVE  IInv'
  OBVIOUS
<1> DEFINE F == Power(5, MantBits)
           S == Significand
           pow == ft_large_pow(Abs(e), IF e < 0 THEN <<5>> ELSE <<2>>)
<1>1. /\ pc = "scale" /\ pc' = "split" /\ UNCHANGED <<input, i, decimal, fract, output, tie>>
      /\ mantiss' = IF ~NotZero THEN mantiss ELSE multiply_string(pow, mantiss)
  BY DEF Scale
<1>2. TypeInv /\ WordInv /\ ScaleInv
  BY DEF IInv
<1>3. /\ MantBits \in Nat \ {0} /\ nbr.mantissa \in Nat /\ nbr.bit \in {0, 1} /\ e \in Int
      /\ (e >= 0 => nbr.bit = 1) /\ Places \in Nat /\ S \in Nat
      /\ Places = IF e < 0 /\ NotZero THEN MantBits - e ELSE MantBits
  BY <1>2, NumberFacts DEF TypeInv
<1>4. mantiss \in Seq(Digit) /\ Len(mantiss) = MantBits + 1 /\ Value(mantiss) = F * S
  BY <1>1, <1>2 DEF TypeInv, ScaleInv
<1>5. F \in Nat
  BY <1>3, PowerFacts
<1>6. Exact = (S * Power(5, Places)) * (IF e < 0 THEN 1 ELSE Power(2, e))
  BY DEF Exact
<1>7. 5 \in Digit /\ 2 \in Digit
  BY DEF Digit
<1> HIDE DEF F, S
<1>8. /\ mantiss' \in Seq(Digit) /\ Value(mantiss') = Exact
      /\ IF NotZero THEN Trimmed(mantiss') ELSE Len(mantiss') = MantBits + 1
  <2>1. CASE ~NotZero
    <3>1. nbr.bit = 0 /\ nbr.mantissa = 0
      BY <2>1 DEF NotZero
    <3>2. e < 0
      BY <1>3, <3>1
    <3>3. S = 0
      <4>1. Power(2, MantBits) \in Nat
        BY <1>3, PowerFacts
      <4> QED
        BY <3>1, <4>1 DEF S, Significand
    <3>4. Power(5, Places) \in Nat
      BY <1>3, PowerFacts
    <3>5. Exact = 0 /\ F * S = 0
      BY <1>5, <1>6, <3>2, <3>3, <3>4
    <3> QED
      BY <1>1, <1>4, <2>1, <3>5
  <2>2. CASE NotZero /\ e < 0
    <3> DEFINE k == -e
               G == Power(5, k)
    <3>1. k \in Nat /\ Abs(e) = k /\ Places = MantBits + k
      BY <1>3, <2>2 DEF Abs
    <3> HIDE DEF k
    <3>2. Value(<<5>>) = 5 /\ <<5>> \in Seq(Digit)
      BY <1>7, ValueOfDigit
    <3>3. pow = ft_large_pow(k, <<5>>)
      BY <2>2, <3>1
    <3>4. pow \in Seq(Digit) /\ Value(pow) = G
      BY <3>1, <3>2, <3>3, LargePow DEF Trimmed
    <3>5. G \in Nat /\ Power(5, Places) = F * G
      <4>1. G \in Nat /\ MantBits \in Nat /\ 5 \in Nat
        BY <1>3, <3>1, PowerFacts
      <4>2. Power(5, MantBits + k) = F * G
        BY <3>1, <4>1, PowerSum, Zenon DEF F
      <4> QED
        BY <3>1, <4>1, <4>2
    <3> HIDE DEF pow, G
    <3>6. mantiss' = multiply_string(pow, mantiss)
      BY <1>1, <2>2
    <3>7. Trimmed(mantiss') /\ mantiss' \in Seq(Digit) /\ Value(mantiss') = G * (F * S)
      BY <1>4, <3>4, <3>6, ProductFacts DEF Trimmed
    <3>8. Exact = (S * (F * G)) * 1
      BY <1>6, <2>2, <3>5
    <3>9. G * (F * S) = (S * (F * G)) * 1
      BY <1>3, <1>5, <3>5
    <3> QED
      BY <2>2, <3>7, <3>8, <3>9
  <2>3. CASE NotZero /\ e >= 0
    <3> DEFINE G == Power(2, e)
    <3>1. e \in Nat /\ Abs(e) = e /\ Places = MantBits
      BY <1>3, <2>3 DEF Abs
    <3>2. Value(<<2>>) = 2 /\ <<2>> \in Seq(Digit)
      BY <1>7, ValueOfDigit
    <3>3. pow = ft_large_pow(e, <<2>>)
      BY <1>3, <2>3, <3>1
    <3>4. pow \in Seq(Digit) /\ Value(pow) = G
      BY <3>1, <3>2, <3>3, LargePow DEF Trimmed
    <3>5. G \in Nat
      BY <3>1, PowerFacts
    <3>8. Exact = (S * F) * G
      BY <1>3, <1>6, <2>3, <3>1 DEF F
    <3> HIDE DEF pow, G
    <3>6. mantiss' = multiply_string(pow, mantiss)
      BY <1>1, <2>3
    <3>7. Trimmed(mantiss') /\ mantiss' \in Seq(Digit) /\ Value(mantiss') = G * (F * S)
      BY <1>4, <3>4, <3>6, ProductFacts DEF Trimmed
    <3>9. G * (F * S) = (S * F) * G
      BY <1>3, <1>5, <3>5
    <3> QED
      BY <2>3, <3>7, <3>8, <3>9
  <2> QED
    BY <1>3, <2>1, <2>2, <2>3
<1>9. TypeInv'
  BY <1>1, <1>2, <1>8 DEF TypeInv, input
<1>10. WordInv'
  BY <1>1, <1>2 DEF WordInv, output, input
<1>11. SplitInv'
  BY <1>1, <1>8, SameNumber DEF SplitInv
<1> QED
  BY <1>1, <1>9, <1>10, <1>11 DEF IInv, MantissaInv, ScaleInv, RoundInv, PartsExact, JoinInv, DoneInv

\* A product grows with its factors.
LEMMA Times ==
  ASSUME NEW x \in Nat, NEW y \in Nat, NEW z \in Nat, x <= y
  PROVE  x * z <= y * z /\ x * z \in Nat /\ y * z \in Nat /\ (x < y /\ z # 0 => x * z < y * z)
<1> DEFINE k == y - x
<1>1. k \in Nat /\ y = x + k /\ (x < y => k - 1 \in Nat)
  OBVIOUS
<1> HIDE DEF k
<1>2. (x + k) * z = x * z + k * z /\ x * z \in Nat /\ k * z \in Nat
  BY <1>1
<1>3. x < y => k * z = (k - 1) * z + z /\ (k - 1) * z \in Nat
  BY <1>1
<1> QED
  BY <1>1, <1>2, <1>3

\* A number without an integer part is less than 1, another one is 1 or more.
LEMMA ExactBounds ==
  ASSUME nbr \in Floats, precision \in Precisions
  PROVE  /\ e < 0 /\ NotZero => Exact < Power(10, Places)
         /\ e >= 0 => Exact >= Power(10, MantBits)
<1> DEFINE T == Power(2, MantBits)
           S == Significand
           F == Power(5, Places)
<1>1. /\ MantBits \in Nat \ {0} /\ nbr.mantissa \in 0 .. T - 1 /\ nbr.bit \in {0, 1} /\ e \in Int
      /\ (e >= 0 => nbr.bit = 1) /\ Places \in Nat /\ S \in Nat
      /\ Places = IF e < 0 /\ NotZero THEN MantBits - e ELSE MantBits
  BY NumberFacts
<1>2. T \in Nat \ {0} /\ F \in Nat \ {0}
  BY <1>1, PowerPositive
<1>3. S = nbr.bit * T + nbr.mantissa
  BY DEF Significand
<1>4. Exact = (S * F) * (IF e < 0 THEN 1 ELSE Power(2, e))
  BY DEF Exact
<1>5. Power(10, Places) = Power(2, Places) * F
  BY <1>1, PowerOfTen
<1> HIDE DEF T, S, F
<1>6. S < 2 * T /\ (nbr.bit = 1 => T <= S)
  <2>1. 0 * T = 0 /\ 1 * T = T
    BY <1>2
  <2> QED
    BY <1>1, <1>2, <1>3, <2>1
<1>7. ASSUME e < 0, NotZero
      PROVE  Exact < Power(10, Places)
  <2>1. MantBits + 1 \in Nat /\ MantBits + 1 <= Places /\ Power(2, MantBits + 1) = 2 * T
    BY <1>1, <1>7, PowerFacts DEF T
  <2>2. 2 * T <= Power(2, Places) /\ Power(2, Places) \in Nat
    <3>1. Power(2, MantBits + 1) <= Power(2, Places)
      BY <1>1, <2>1, PowerMonotone
    <3> QED
      BY <1>1, <2>1, <3>1, PowerFacts
  <2>3. S <= Power(2, Places) /\ S < Power(2, Places)
    BY <1>1, <1>2, <1>6, <2>2
  <2>4. S * F < Power(2, Places) * F
    BY <1>1, <1>2, <2>2, <2>3, Times
  <2>5. (S * F) * 1 = S * F
    BY <1>1, <1>2
  <2> QED
    BY <1>4, <1>5, <1>7, <2>4, <2>5
<1>8. ASSUME e >= 0
      PROVE  Exact >= Power(10, MantBits)
  <2> DEFINE G == Power(2, e)
  <2>1. Places = MantBits /\ e \in Nat /\ T <= S
    BY <1>1, <1>6, <1>8
  <2>2. G \in Nat \ {0}
    BY <2>1, PowerPositive
  <2>3. Exact = (S * F) * G
    BY <1>1, <1>4, <1>8
  <2>4. Power(10, MantBits) = T * F
    BY <1>5, <2>1 DEF T
  <2> HIDE DEF G
  <2>5. T * F <= S * F /\ T * F \in Nat /\ S * F \in Nat
    BY <1>1, <1>2, <2>1, Times
  <2>6. \A x \in Nat : x <= x * G
    <3> SUFFICES ASSUME NEW x \in Nat
                 PROVE  x <= x * G
      OBVIOUS
    <3>1. 1 * x <= G * x /\ x * G \in Nat
      BY <2>2, Times
    <3> QED
      BY <2>2, <3>1
  <2>7. S * F <= (S * F) * G /\ (S * F) * G \in Nat
    BY <2>2, <2>5, <2>6
  <2> QED
    BY <2>3, <2>4, <2>5, <2>7
<1> QED
  BY <1>7, <1>8

\* The digits behind the point, made long enough for the precision.
LEMMA LongEnoughFacts ==
  ASSUME NEW t \in Seq(Digit), precision \in Nat
  PROVE  /\ LongEnough(t) \in Seq(Digit)
         /\ Len(LongEnough(t)) = IF precision > Len(t) THEN Len(t) + (precision + 1) ELSE Len(t)
         /\ SubSeq(LongEnough(t), 1, Len(t)) = t /\ Value(Drop(LongEnough(t), Len(t))) = 0
<1> DEFINE z == Zeros(precision + 1)
<1>1. z \in Seq(Digit) /\ Len(z) = precision + 1 /\ Value(z) = 0
  <2>1. precision + 1 \in Nat
    OBVIOUS
  <2> QED
    BY <2>1, ZerosFacts
<1> HIDE DEF z
<1>2. CASE precision > Len(t)
  <2>1. LongEnough(t) = t \o z
    BY <1>2 DEF LongEnough, z
  <2>2. t \o z \in Seq(Digit) /\ Len(t \o z) = Len(t) + (precision + 1)
    BY <1>1
  <2>3. SubSeq(t \o z, 1, Len(t)) = t
    BY <1>1
  <2>4. SubSeq(t \o z, Len(t) + 1, Len(t \o z)) = z
    BY <1>1
  <2>5. Drop(LongEnough(t), Len(t)) = z
    BY <2>1, <2>4, Zenon DEF Drop
  <2> QED
    BY <1>1, <1>2, <2>1, <2>2, <2>3, <2>5
<1>3. CASE ~(precision > Len(t))
  <2>1. LongEnough(t) = t
    BY <1>3 DEF LongEnough
  <2>2. SubSeq(t, 1, Len(t)) = t
    OBVIOUS
  <2>3. SubSeq(t, Len(t) + 1, Len(t)) = <<>>
    OBVIOUS
  <2>4. Drop(LongEnough(t), Len(t)) = <<>>
    BY <2>1, <2>3, Zenon DEF Drop
  <2> QED
    BY <1>3, <2>1, <2>2, <2>4, ValueNone
<1> QED
  BY <1>2, <1>3

\* The string is cut at the point: all places are behind it.
LEMMA PartsFacts ==
  ASSUME nbr \in Floats, precision \in Precisions, mantiss \in Seq(Digit), pc = "split", SplitInv
  PROVE  /\ Parts.decimal \in Seq(Digit) /\ Parts.decimal # <<>>
         /\ Parts.fract \in Seq(Digit) /\ Len(Parts.fract) = Places
         /\ Value(Parts.decimal \o Parts.fract) = Exact
<1>1. /\ MantBits \in Nat \ {0} /\ nbr.bit \in {0, 1} /\ e \in Int /\ (e >= 0 => nbr.bit = 1)
      /\ Places \in Nat /\ Exact \in Nat
      /\ Places = IF e < 0 /\ NotZero THEN MantBits - e ELSE MantBits
  BY NumberFacts
<1>2. Value(mantiss) = Exact /\ (NotZero => Trimmed(mantiss)) /\ (~NotZero => Len(mantiss) = MantBits + 1)
  BY DEF SplitInv
<1>3. Len(mantiss) \in Nat
  OBVIOUS
<1>4. CASE e < 0 /\ NotZero
  <2> DEFINE z == Zeros(Abs(SplitAt + e))
  <2>1. Len(mantiss) <= Places
    <3>1. Exact < Power(10, Places)
      BY <1>4, ExactBounds
    <3> QED
      BY <1>1, <1>2, <1>4, <3>1, LengthBound
  <2>2. Abs(SplitAt + e) = Places - Len(mantiss) /\ Places - Len(mantiss) \in Nat
    BY <1>1, <1>3, <1>4, <2>1 DEF SplitAt, Abs
  <2>3. z \in Seq(Digit) /\ Len(z) = Places - Len(mantiss) /\ Value(z) = 0
    BY <2>2, ZerosFacts
  <2>4. Parts = [decimal |-> <<0>>, fract |-> z \o mantiss]
    BY <1>4 DEF Parts
  <2> HIDE DEF z
  <2>5. Parts.decimal = <<0>> /\ Parts.fract = z \o mantiss
    BY <2>4
  <2>6. <<0>> \in Seq(Digit) /\ Value(<<0>>) = 0 /\ <<0>> # <<>>
    <3>1. 0 \in Digit
      BY DEF Digit
    <3> QED
      BY <3>1, ValueOfDigit
  <2>7. /\ z \o mantiss \in Seq(Digit) /\ Len(z \o mantiss) = Places
        /\ Value(z \o mantiss) = Exact
    <3>1. z \o mantiss \in Seq(Digit) /\ Value(z \o mantiss) = 0 * Power(10, Len(mantiss)) + Exact
      BY <1>2, <2>3, ValueJoin
    <3>2. Power(10, Len(mantiss)) \in Nat
      BY <1>3, PowerFacts
    <3>3. Len(z \o mantiss) = Places
      BY <1>1, <1>3, <2>3
    <3> QED
      BY <1>1, <3>1, <3>2, <3>3
  <2>8. Value(<<0>> \o (z \o mantiss)) = 0 * Power(10, Places) + Exact
    BY <2>6, <2>7, ValueJoin
  <2>9. Power(10, Places) \in Nat
    BY <1>1, PowerFacts
  <2>10. Value(<<0>> \o (z \o mantiss)) = Exact
    BY <1>1, <2>8, <2>9
  <2> QED
    BY <2>5, <2>6, <2>7, <2>10
<1>5. CASE ~(e < 0 /\ NotZero)
  <2> DEFINE m == Len(mantiss) - MantBits
  <2>1. Places = MantBits
    BY <1>1, <1>5
  <2>2. Len(mantiss) > MantBits
    <3>1. CASE NotZero
      <4>1. e >= 0
        BY <1>1, <1>5, <3>1
      <4>2. Value(mantiss) >= Power(10, MantBits)
        BY <1>2, <4>1, ExactBounds
      <4> QED
        BY <1>1, <4>2, LengthAtLeast
    <3>2. CASE ~NotZero
      BY <1>1, <1>2, <3>2
    <3> QED
      BY <3>1, <3>2
  <2>3. m \in 1 .. Len(mantiss) /\ m \in 0 .. Len(mantiss)
    BY <1>1, <1>3, <2>2
  <2>4. Parts.decimal = SubSeq(mantiss, 1, m) /\ Parts.fract = SubSeq(mantiss, m + 1, Len(mantiss))
    BY <1>5 DEF Parts, Drop, SplitAt
  <2>5. /\ SubSeq(mantiss, 1, m) \in Seq(Digit) /\ Len(SubSeq(mantiss, 1, m)) = m
        /\ SubSeq(mantiss, m + 1, Len(mantiss)) \in Seq(Digit)
        /\ Len(SubSeq(mantiss, m + 1, Len(mantiss))) = Len(mantiss) - m
    BY <2>3
  <2>6. mantiss = SubSeq(mantiss, 1, m) \o SubSeq(mantiss, m + 1, Len(mantiss))
    BY <2>3, TextInTwo
  <2>7. Len(mantiss) - m = MantBits /\ m # 0
    BY <1>1, <1>3, <2>3
  <2> HIDE DEF m
  <2>8. SubSeq(mantiss, 1, m) # <<>>
    BY <2>5, <2>7
  <2>9. Value(Parts.decimal \o Parts.fract) = Exact
    BY <1>2, <2>4, <2>6, Zenon
  <2> QED
    BY <2>1, <2>4, <2>5, <2>7, <2>8, <2>9
<1> QED
  BY <1>4, <1>5

\* Cutting the string at the point loses no digit.
LEMMA SplitOK == IInv /\ Split => IInv'
<1> SUFFICES ASSUME IInv, Split
             PROVE  IInv'
  OBVIOUS
<1> DEFINE d == Parts.decimal
           t == Parts.fract
           f == LongEnough(t)
<1>1. /\ pc = "split" /\ pc' = "round" /\ decimal' = d /\ fract' = f /\ mantiss' = <<>>
      /\ UNCHANGED <<input, i, output, tie>>
  BY DEF Split
<1>2. TypeInv /\ WordInv /\ SplitInv
  BY DEF IInv
<1>3. precision \in Nat /\ Places \in Nat
  BY <1>2, NumberFacts DEF TypeInv
<1>4. d \in Seq(Digit) /\ d # <<>> /\ t \in Seq(Digit) /\ Len(t) = Places /\ Value(d \o t) = Exact
  BY <1>1, <1>2, PartsFacts DEF TypeInv
<1>5. /\ f \in Seq(Digit) /\ Len(f) = IF precision > Places THEN Places + (precision + 1) ELSE Places
      /\ SubSeq(f, 1, Places) = t /\ Value(Drop(f, Places)) = 0
  <2> HIDE DEF t
  <2> QED
    BY <1>3, <1>4, LongEnoughFacts
<1> HIDE DEF d, t, f
<1>6. Len(f) >= Larger(Places, precision)
  BY <1>3, <1>5 DEF Larger
<1>7. TypeInv'
  BY <1>1, <1>2, <1>4, <1>5 DEF TypeInv, input
<1>8. WordInv'
  BY <1>1, <1>2 DEF WordInv, output, input
<1>9. RoundInv'
  <2>1. nbr' = nbr /\ precision' = precision /\ Places' = Places /\ Exact' = Exact
    BY <1>1, SameNumber
  <2>2. Value(decimal' \o SubSeq(fract', 1, Places')) = Exact'
    BY <1>1, <1>4, <1>5, <2>1, Zenon
  <2>3. Value(Drop(fract', Places')) = 0
    BY <1>1, <1>5, <2>1, Zenon
  <2>4. decimal' # <<>> /\ Len(fract') >= Larger(Places', precision')
    BY <1>1, <1>4, <1>6, <2>1, Zenon
  <2>5. Len(fract') = IF precision' > Places' THEN Places' + (precision' + 1) ELSE Places'
    BY <1>1, <1>5, <2>1
  <2> QED
    BY <2>2, <2>3, <2>4, <2>5 DEF RoundInv, PartsExact
<1> QED
  BY <1>1, <1>7, <1>8, <1>9 DEF IInv, MantissaInv, ScaleInv, SplitInv, JoinInv, DoneInv

-----------------------------------------------------------------------------
\* The steps: rounding

\* While it is rounded, decimal and fract are the exact number in units of the
\* last digit.
LEMMA RoundFacts ==
  ASSUME IInv, pc = "round"
  PROVE  /\ decimal \in Seq(Digit) /\ decimal # <<>> /\ fract \in Seq(Digit)
         /\ precision \in Nat /\ Places \in Nat /\ Exact \in Nat /\ Len(fract) - Places \in Nat
         /\ Len(fract) = IF precision > Places THEN Places + (precision + 1) ELSE Places
         /\ Value(decimal \o fract) = Exact * Power(10, Len(fract) - Places)
<1> DEFINE a == SubSeq(fract, 1, Places)
           b == Drop(fract, Places)
<1>1. TypeInv /\ RoundInv
  BY DEF IInv
<1>2. decimal \in Seq(Digit) /\ fract \in Seq(Digit)
  BY <1>1 DEF TypeInv
<1>3. precision \in Nat /\ Places \in Nat /\ Exact \in Nat
  BY <1>1, NumberFacts DEF TypeInv
<1>4. /\ decimal # <<>> /\ Value(decimal \o a) = Exact /\ Value(b) = 0
      /\ Len(fract) = IF precision > Places THEN Places + (precision + 1) ELSE Places
  BY <1>1 DEF RoundInv, PartsExact
<1>5. Places \in 0 .. Len(fract) /\ Len(fract) - Places \in Nat
  BY <1>3, <1>4
<1>6. a \in Seq(Digit) /\ b \in Seq(Digit) /\ Len(b) = Len(fract) - Places
  BY <1>2, <1>5 DEF Drop
<1>7. fract = a \o b
  <2>1. fract = SubSeq(fract, 1, Places) \o SubSeq(fract, Places + 1, Len(fract))
    BY <1>2, <1>5, TextInTwo
  <2> QED
    BY <2>1, Zenon DEF Drop
<1> HIDE DEF a, b
<1>8. decimal \o (a \o b) = (decimal \o a) \o b
  BY <1>2, <1>6
<1>9. decimal \o a \in Seq(Digit)
  BY <1>2, <1>6
<1>10. Value((decimal \o a) \o b) = Exact * Power(10, Len(fract) - Places) + 0
  BY <1>4, <1>6, <1>9, ValueJoin
<1>11. Power(10, Len(fract) - Places) \in Nat
  BY <1>5, PowerFacts
<1>12. Value(decimal \o fract) = Value((decimal \o a) \o b)
  BY <1>7, <1>8, Zenon
<1>13. \A x \in Nat, y \in Nat : x * y + 0 = x * y
  OBVIOUS
<1> QED
  BY <1>2, <1>3, <1>4, <1>5, <1>10, <1>11, <1>12, <1>13

\* A five in one place, zeros in the others.
LEMMA FiveIn ==
  ASSUME NEW L \in Nat, NEW p \in 0 .. L - 1, NEW u, u = [k \in 1 .. L |-> IF k = p + 1 THEN 5 ELSE 0]
  PROVE  u \in Seq(Digit) /\ Len(u) = L /\ Value(u) = 5 * Power(10, L - (p + 1))
<1> DEFINE q == L - (p + 1)
<1>1. q \in Nat /\ p \in 0 .. L /\ L = (p + 1) + q
  OBVIOUS
<1>2. u \in Seq(Digit) /\ Len(u) = L
  BY DEF Digit
<1>3. \A m \in 1 .. p : u[m] = 0
  OBVIOUS
<1>4. Value(SubSeq(u, p + 1, Len(u))) = Value(u)
  <2>1. p \in 0 .. Len(u)
    BY <1>2
  <2> QED
    BY <1>2, <1>3, <2>1, ZerosInFront
<1>5. <<5>> \in Seq(Digit) /\ Len(<<5>>) = 1 /\ Value(<<5>>) = 5
  <2>1. 5 \in Digit
    BY DEF Digit
  <2> QED
    BY <2>1, ValueOfDigit
<1> HIDE DEF q
<1>6. Zeros(q) \in Seq(Digit) /\ Len(Zeros(q)) = q /\ Value(Zeros(q)) = 0
  BY <1>1, ZerosFacts
<1>7. SubSeq(u, p + 1, L) = <<5>> \o Zeros(q)
  <2>1. SubSeq(u, p + 1, L) \in Seq(Digit) /\ Len(SubSeq(u, p + 1, L)) = q + 1
    BY <1>1, <1>2, SMTT(30)
  <2>2. <<5>> \o Zeros(q) \in Seq(Digit) /\ Len(<<5>> \o Zeros(q)) = q + 1
    BY <1>1, <1>5, <1>6
  <2>3. ASSUME NEW k \in 1 .. q + 1
        PROVE  SubSeq(u, p + 1, L)[k] = (<<5>> \o Zeros(q))[k]
    <3>1. p + k \in 1 .. L
      BY <1>1
    <3>2. SubSeq(u, p + 1, L)[k] = u[p + k]
      BY <1>1, <1>2
    <3>3. u[p + k] = IF p + k = p + 1 THEN 5 ELSE 0
      BY <3>1
    <3>4. CASE k = 1
      BY <1>1, <3>2, <3>3, <3>4
    <3>5. CASE k # 1
      <4>1. k - 1 \in 1 .. q
        BY <1>1, <3>5
      <4>2. (<<5>> \o Zeros(q))[k] = Zeros(q)[k - 1]
        BY <1>1, <1>5, <1>6, <4>1
      <4>3. Zeros(q)[k - 1] = 0
        BY <4>1 DEF Zeros
      <4>4. u[p + k] = 0
        <5>1. p + k # p + 1
          BY <1>1, <3>5
        <5> QED
          BY <3>3, <5>1
      <4> QED
        BY <3>2, <4>2, <4>3, <4>4, Zenon
    <3> QED
      BY <3>4, <3>5
  <2> DEFINE s == SubSeq(u, p + 1, L)
             v == <<5>> \o Zeros(q)
  <2> HIDE DEF s, v
  <2>4. \A k \in 1 .. Len(s) : s[k] = v[k]
    BY <2>1, <2>3 DEF s, v
  <2> QED
    BY <2>1, <2>2, <2>4, SeqEqual DEF s, v
<1>8. Value(<<5>> \o Zeros(q)) = 5 * Power(10, q) + 0
  <2>1. Value(<<5>> \o Zeros(q)) = Value(<<5>>) * Power(10, Len(Zeros(q))) + Value(Zeros(q))
    BY <1>5, <1>6, ValueJoin, Zenon
  <2> QED
    BY <1>5, <1>6, <2>1, Zenon
<1>9. Power(10, q) \in Nat
  BY <1>1, PowerFacts
<1>10. Value(u) = Value(<<5>> \o Zeros(q))
  BY <1>2, <1>4, <1>7, Zenon
<1> QED
  BY <1>2, <1>8, <1>9, <1>10 DEF q

\* What is added to fract, with the carry that goes to decimal.
LEMMA CarryAdds ==
  ASSUME decimal \in Seq(Digit), fract \in Seq(Digit), NEW u \in Seq(Digit), Len(u) >= Len(fract),
         NEW s, s = sum_string(u, fract), NEW g, g = Drop(s, Len(s) - Len(fract))
  PROVE  /\ CarryInto(s) \in Seq(Digit) /\ g \in Seq(Digit) /\ Len(g) = Len(fract)
         /\ Value(CarryInto(s) \o g) = Value(decimal \o fract) + Value(u)
<1> DEFINE n == Len(s) - Len(fract)
           c == SubSeq(s, 1, n)
           ci == CarryInto(s)
<1>1. /\ s \in Seq(Digit) /\ Value(s) = Value(u) + Value(fract) /\ Len(s) >= Larger(Len(u), Len(fract))
  <2> DEFINE l == Larger(Len(u), Len(fract))
  <2>1. l \in Nat
    BY DEF Larger
  <2> HIDE DEF l
  <2>2. s \in Seq(Digit) /\ Value(s) = Value(u) + Value(fract)
    BY SumFacts
  <2>3. Len(s) = l \/ Len(s) = l + 1
    BY SumFacts DEF l
  <2>4. Len(s) >= l
    BY <2>1, <2>3
  <2> QED
    BY <2>2, <2>4 DEF l
<1>2. n \in 0 .. Len(s)
  BY <1>1 DEF Larger
<1>3. c \in Seq(Digit) /\ g \in Seq(Digit) /\ Len(g) = Len(fract)
  BY <1>1, <1>2 DEF Drop
<1>4. s = c \o g
  <2>1. s = SubSeq(s, 1, n) \o SubSeq(s, n + 1, Len(s))
    BY <1>1, <1>2, TextInTwo
  <2> QED
    BY <2>1, Zenon DEF Drop
<1>5. ci \in Seq(Digit) /\ Value(ci) = Value(c) + Value(decimal)
  <2>1. CASE Len(s) > Len(fract)
    <3>1. ci = sum_string(c, decimal)
      BY <2>1 DEF CarryInto
    <3> HIDE DEF c
    <3> QED
      BY <1>3, <3>1, SumFacts
  <2>2. CASE ~(Len(s) > Len(fract))
    <3>1. ci = decimal
      BY <2>2 DEF CarryInto
    <3>2. c = <<>>
      BY <1>1, <1>2, <2>2
    <3>3. Value(c) = 0 /\ Value(decimal) \in Nat
      BY <3>2, ValueNone, ValueType
    <3> HIDE DEF c, ci
    <3>4. Value(ci) = Value(decimal)
      BY <3>1
    <3> QED
      BY <3>1, <3>3, <3>4
  <2> QED
    BY <2>1, <2>2
<1> DEFINE P == Power(10, Len(fract))
           vc == Value(c)
           vd == Value(decimal)
           vf == Value(fract)
           vg == Value(g)
           vu == Value(u)
<1> HIDE DEF c, ci
<1>6. P \in Nat /\ vc \in Nat /\ vd \in Nat /\ vf \in Nat /\ vg \in Nat /\ vu \in Nat
  <2>1. Len(fract) \in Nat
    OBVIOUS
  <2> QED
    BY <1>3, <2>1, ValueType, PowerFacts
<1>7. vc * P + vg = vu + vf
  <2>1. Value(c \o g) = Value(c) * Power(10, Len(g)) + Value(g)
    BY <1>3, ValueJoin
  <2> QED
    BY <1>1, <1>3, <1>4, <2>1
<1>8. Value(decimal \o fract) = vd * P + vf
  BY ValueJoin
<1>9. Value(ci \o g) = (vc + vd) * P + vg
  <2>1. Value(ci \o g) = Value(ci) * Power(10, Len(g)) + Value(g)
    BY <1>3, <1>5, ValueJoin
  <2> QED
    BY <1>3, <1>5, <2>1
<1> HIDE DEF P, vc, vd, vf, vg, vu
<1>10. (vc + vd) * P + vg = (vd * P + vf) + vu
  <2>1. (vc + vd) * P = vc * P + vd * P /\ vc * P \in Nat /\ vd * P \in Nat
    BY <1>6
  <2> QED
    BY <1>6, <1>7, <2>1
<1> QED
  BY <1>3, <1>5, <1>8, <1>9, <1>10 DEF ci, vu

\* Cut after half a unit was added: the nearest number.
HalfAdded(v, q, h, shown, rest) == q = 2 * h /\ rest < q /\ shown * q + rest = v + h
\* What is cut off after half a unit was added is at most half a unit away.
LEMMA CutToNearest ==
  ASSUME NEW v \in Nat, NEW q \in Nat, NEW h \in Nat, NEW shown \in Nat, NEW rest \in Nat,
         HalfAdded(v, q, h, shown, rest)
  PROVE  /\ 2 * Abs(shown * q - v) <= q
         /\ \A x \in Nat : v = x * q => shown = x
<1>1. shown * q \in Nat
  OBVIOUS
<1> DEFINE m == shown * q
<1> HIDE DEF m
<1>2. m \in Nat /\ m + rest = v + h /\ q = 2 * h /\ rest < q
  BY <1>1 DEF m, HalfAdded
<1>3. 2 * Abs(m - v) <= q
  BY <1>2 DEF Abs
<1>4. ASSUME NEW x \in Nat, v = x * q
      PROVE  shown = x
  <2>1. shown * q + rest \in Nat /\ q \in Nat \ {0} /\ q = 2 * h /\ rest < q /\ shown * q + rest = v + h
    BY <1>1 DEF HalfAdded
  <2> DEFINE n == shown * q + rest
  <2>2. q * shown = shown * q /\ q * x = x * q /\ x * q \in Nat
    OBVIOUS
  <2>3. n \in Nat /\ q * shown <= n /\ n < q * shown + q
    BY <1>1, <2>1, <2>2
  <2>4. q * x <= n /\ n < q * x + q
    BY <1>1, <1>4, <2>1, <2>2
  <2> HIDE DEF n
  <2>5. n \div q = shown
    BY <2>1, <2>3, DivUnique
  <2>6. n \div q = x
    BY <2>1, <2>3, <2>4, DivUnique
  <2> QED
    BY <2>5, <2>6
<1> QED
  BY <1>3, <1>4 DEF m

\* ft_fround leaves the nearest number with as many places as the precision.
LEMMA RoundOK == IInv /\ Round => IInv'
<1> SUFFICES ASSUME IInv, Round
             PROVE  IInv'
  OBVIOUS
<1> DEFINE p == precision
           L == Len(fract)
           s == sum_string(Unit, fract)
           g == Drop(s, Len(s) - Len(fract))
           d == CarryInto(s)
           f == SubSeq(g, 1, p)
           r == SubSeq(g, p + 1, Len(g))
           v == Value(decimal \o fract)
           shown == Value(d \o f)
           q == Power(10, L - p)
           h == 5 * Power(10, L - (p + 1))
<1>1. /\ pc = "round" /\ pc' = "join" /\ decimal' = d /\ fract' = f
      /\ UNCHANGED <<input, i, mantiss, output, tie>>
  BY DEF Round
<1>2. TypeInv /\ WordInv
  BY DEF IInv
<1>3. /\ decimal \in Seq(Digit) /\ fract \in Seq(Digit) /\ p \in Nat /\ Places \in Nat /\ Exact \in Nat
      /\ L = (IF p > Places THEN Places + (p + 1) ELSE Places)
      /\ v = Exact * Power(10, L - Places) /\ L - Places \in Nat
  BY <1>1, RoundFacts
<1>4. L \in Nat /\ p <= L /\ (p # Places => p < L)
  BY <1>3
<1>5. Unit \in Seq(Digit) /\ Len(Unit) >= L
  BY <1>3, <1>4 DEF Unit, Digit, Larger
<1>6. d \in Seq(Digit) /\ g \in Seq(Digit) /\ Len(g) = L /\ Value(d \o g) = v + Value(Unit)
  BY <1>3, <1>5, CarryAdds
<1> HIDE DEF d, s, g
<1>7. f \in Seq(Digit) /\ Len(f) = p /\ r \in Seq(Digit) /\ Len(r) = L - p
  BY <1>3, <1>4, <1>6
<1>8. d \o g = (d \o f) \o r /\ d \o f \in Seq(Digit)
  <2>1. g = f \o r
    <3>1. p \in 0 .. Len(g)
      BY <1>3, <1>4, <1>6
    <3> QED
      BY <1>6, <3>1, TextInTwo
  <2> HIDE DEF f, r
  <2>2. d \o (f \o r) = (d \o f) \o r /\ d \o f \in Seq(Digit)
    BY <1>6, <1>7
  <2> QED
    BY <2>1, <2>2
<1>9. Value(d \o g) = shown * q + Value(r) /\ Value(r) < q
  <2> HIDE DEF f, r
  <2>1. Value((d \o f) \o r) = Value(d \o f) * Power(10, Len(r)) + Value(r)
    BY <1>7, <1>8, ValueJoin
  <2>2. Value(r) < Power(10, Len(r))
    BY <1>7, ValueBound
  <2> QED
    BY <1>7, <1>8, <2>1, <2>2
<1> HIDE DEF f, r
<1>10. L - p \in Nat
  BY <1>3, <1>4
<1> HIDE DEF L
<1>11. shown \in Nat /\ Value(r) \in Nat /\ v \in Nat /\ q \in Nat
  <2>1. decimal \o fract \in Seq(Digit)
    BY <1>3
  <2> QED
    BY <1>7, <1>8, <1>10, <2>1, ValueType, PowerFacts
<1>12. ASSUME p # Places
       PROVE  Close(d, f, p, Places, Exact)
  <2>1. Value(Unit) = h /\ q = 2 * h /\ h \in Nat
    <3>1. p \in 0 .. L - 1 /\ L - (p + 1) \in Nat /\ L - p = (L - (p + 1)) + 1
      BY <1>3, <1>4, <1>12
    <3>2. Unit = [k \in 1 .. L |-> IF k = p + 1 THEN 5 ELSE 0]
      <4>1. Larger(L, p + 1) = L
        BY <1>4, <3>1 DEF Larger
      <4> QED
        BY <4>1 DEF Unit, L
    <3>3. Value(Unit) = h
      BY <1>4, <3>1, <3>2, FiveIn
    <3>4. Power(10, (L - (p + 1)) + 1) = 10 * Power(10, L - (p + 1)) /\ Power(10, L - (p + 1)) \in Nat
      BY <3>1, PowerFacts
    <3> QED
      BY <3>1, <3>3, <3>4
  <2>2. shown * q + Value(r) = v + h
    BY <1>6, <1>9, <2>1
  <2> HIDE DEF q, h, v, shown
  <2>3. 2 * Abs(shown * q - v) <= q /\ \A x \in Nat : v = x * q => shown = x
    <3> DEFINE rest == Value(r)
    <3>1. rest < q /\ rest \in Nat /\ shown * q + rest = v + h
      BY <1>9, <1>11, <2>2
    <3>2. shown \in Nat /\ v \in Nat /\ q \in Nat /\ h \in Nat /\ q = 2 * h
      BY <1>11, <2>1
    <3> HIDE DEF rest
    <3>3. HalfAdded(v, q, h, shown, rest)
      BY <3>1, <3>2 DEF HalfAdded
    <3>4. shown \in Nat /\ v \in Nat /\ q \in Nat /\ h \in Nat /\ rest \in Nat
      BY <3>1, <3>2
    <3> QED
      BY <3>3, <3>4, CutToNearest, Zenon
  <2>4. CASE p < Places
    <3>1. L = Places /\ L - Places = 0
      BY <1>3, <2>4 DEF L
    <3>2. v = Exact * Power(10, 0) /\ Power(10, 0) = 1
      BY <1>3, <3>1, PowerFacts
    <3>3. v = Exact
      BY <1>3, <3>2
    <3> QED
      BY <2>3, <2>4, <3>1, <3>3 DEF Close, shown, q
  <2>5. CASE p > Places
    <3> DEFINE k == p - Places
               n == Places + 1
    <3>1. L - Places = k + n /\ L - p = n /\ k \in Nat /\ n \in Nat
      BY <1>3, <2>5 DEF L
    <3> HIDE DEF k, n
    <3>2. Power(10, k + n) = Power(10, k) * Power(10, n) /\ Power(10, k) \in Nat /\ Power(10, n) \in Nat
      BY <3>1, PowerFacts, PowerSum
    <3>3. v = Exact * (Power(10, k) * q)
      BY <1>3, <3>1, <3>2 DEF q, v
    <3>4. Exact * (Power(10, k) * q) = (Exact * Power(10, k)) * q /\ Exact * Power(10, k) \in Nat
      BY <1>3, <1>11, <3>2
    <3>5. shown = Exact * Power(10, k)
      BY <2>3, <3>3, <3>4
    <3>6. ~(p < Places) /\ p # Places
      BY <1>3, <2>5
    <3> QED
      BY <3>5, <3>6 DEF Close, shown, k
  <2> QED
    BY <1>3, <1>12, <2>4, <2>5
<1>18. ASSUME p = Places
       PROVE  Close(d, f, p, Places, Exact)
  <2>1. L = p /\ L - Places = 0 /\ L - p = 0
    BY <1>3, <1>18 DEF L
  <2>2. Power(10, 0) = 1
    BY PowerFacts
  <2>3. Value(Unit) = 5
    <3>1. Unit = [k \in 1 .. p + 1 |-> IF k = p + 1 THEN 5 ELSE 0]
      <4>1. Larger(L, p + 1) = p + 1
        BY <1>3, <2>1 DEF Larger
      <4> QED
        BY <4>1 DEF Unit, L
    <3>2. p + 1 \in Nat /\ p \in 0 .. (p + 1) - 1 /\ (p + 1) - (p + 1) = 0
      BY <1>3
    <3>3. Value(Unit) = 5 * Power(10, (p + 1) - (p + 1))
      BY <3>1, <3>2, FiveIn
    <3> QED
      BY <2>2, <3>2, <3>3
  <2>4. v = Exact /\ q = 1
    BY <1>3, <2>1, <2>2
  <2>5. shown * q + Value(r) = v + 5 /\ Value(r) < q
    BY <1>6, <1>9, <2>3
  <2> HIDE DEF shown, v, q
  <2>6. shown = Exact + 5
    BY <1>3, <1>11, <2>4, <2>5
  <2> QED
    BY <1>3, <1>18, <2>6 DEF Close, shown
<1>13. TypeInv'
  BY <1>1, <1>2, <1>6, <1>7 DEF TypeInv, input
<1>14. WordInv'
  BY <1>1, <1>2 DEF WordInv, output, input
<1>15. JoinInv'
  <2>1. ~tie'
    BY <1>1, <1>2 DEF WordInv
  <2>2. precision' = p /\ Places' = Places /\ Exact' = Exact
    BY <1>1, SameNumber
  <2>3. Len(fract') = precision' /\ Close(decimal', fract', precision', Places', Exact')
    <3>1. Close(d, f, p, Places, Exact)
      BY <1>12, <1>18
    <3> QED
      BY <1>1, <1>7, <2>2, <3>1, Zenon
  <2> QED
    BY <2>1, <2>2, <2>3 DEF JoinInv
<1> QED
  BY <1>1, <1>13, <1>14, <1>15 DEF IInv, MantissaInv, ScaleInv, SplitInv, RoundInv, PartsExact, DoneInv

\* A number is odd when its last digit is.
LEMMA OddNumber ==
  ASSUME NEW t \in Seq(Digit), t # <<>>
  PROVE  Odd(t) <=> Value(t) % 2 = 1
<1> DEFINE n == Len(t) - 1
           k == Value(SubSeq(t, 1, n))
           d == t[n + 1]
<1>1. Len(t) \in Nat /\ Len(t) # 0 /\ n \in Nat /\ n + 1 = Len(t) /\ n \in 0 .. Len(t) - 1
  OBVIOUS
<1>2. /\ SubSeq(t, 1, n) \in Seq(Digit) /\ SubSeq(t, 1, Len(t)) = t
      /\ d \in Digit /\ SubSeq(t, 1, n + 1) = Append(SubSeq(t, 1, n), d)
  BY <1>1, TextSplits
<1>3. t = Append(SubSeq(t, 1, n), d)
  BY <1>1, <1>2
<1>4. Value(Append(SubSeq(t, 1, n), d)) = 10 * k + d
  BY <1>2, ValueMore
<1>5. Value(t) = 10 * k + d
  BY <1>3, <1>4
<1>6. k \in Nat
  BY <1>2, ValueType
<1>7. Odd(t) <=> d % 2 = 1
  BY <1>1 DEF Odd
<1> HIDE DEF k, d
<1>8. d \in 0 .. 9
  BY <1>2 DEF Digit
<1>9. (10 * k + d) % 2 = d % 2
  BY <1>6, <1>8
<1> QED
  BY <1>5, <1>7, <1>9

\* A half becomes the even neighbour when there are no places.
LEMMA RoundHalfOK == IInv /\ RoundHalf => IInv'
<1> SUFFICES ASSUME IInv, RoundHalf
             PROVE  IInv'
  OBVIOUS
<1> DEFINE L == Len(fract)
           d == IF Odd(decimal) THEN sum_string(decimal, <<1>>) ELSE decimal
           vd == Value(decimal)
           q == Power(10, L)
           h == 5 * Power(10, L - (0 + 1))
<1>1. /\ pc = "round" /\ pc' = "join" /\ decimal' = d /\ OneHalf /\ tie' = TRUE
      /\ UNCHANGED <<input, i, mantiss, fract, output>>
  BY DEF RoundHalf
<1>2. TypeInv /\ WordInv
  BY DEF IInv
<1>3. /\ decimal \in Seq(Digit) /\ fract \in Seq(Digit) /\ Places \in Nat /\ Exact \in Nat
      /\ decimal # <<>> /\ precision \in Nat
      /\ L = IF precision > Places THEN Places + (precision + 1) ELSE Places
      /\ Value(decimal \o fract) = Exact * Power(10, L - Places)
  BY <1>1, RoundFacts
<1>4. <<1>> \in Seq(Digit) /\ Len(<<1>>) = 1 /\ Value(<<1>>) = 1
  <2>1. 1 \in Digit
    BY DEF Digit
  <2> QED
    BY <2>1, ValueOfDigit
<1>5. vd \in Nat
  BY <1>3, ValueType
<1>6. d \in Seq(Digit) /\ ~Odd(d) /\ (Value(d) = vd \/ Value(d) = vd + 1)
  <2>1. CASE Odd(decimal)
    <3> DEFINE s == sum_string(decimal, <<1>>)
    <3>1. s \in Seq(Digit) /\ Value(s) = vd + 1
      <4>1. s \in Seq(Digit) /\ Value(s) = vd + Value(<<1>>)
        BY <1>3, <1>4, SumFacts, Zenon
      <4> QED
        BY <1>4, <4>1, Zenon
    <3>2. s # <<>>
      <4>1. Len(s) = Larger(Len(decimal), 1) \/ Len(s) = Larger(Len(decimal), 1) + 1
        BY <1>3, <1>4, SumFacts
      <4>2. Larger(Len(decimal), 1) \in Nat \ {0}
        BY <1>3 DEF Larger
      <4>3. Len(s) # 0
        BY <4>1, <4>2
      <4> QED
        BY <4>3
    <3> HIDE DEF s
    <3>3. vd % 2 = 1
      BY <1>3, <2>1, OddNumber
    <3>4. (vd + 1) % 2 = 0
      BY <1>5, <3>3
    <3>5. ~Odd(s)
      BY <3>1, <3>2, <3>4, OddNumber
    <3> QED
      BY <2>1, <3>1, <3>5 DEF s
  <2>2. CASE ~Odd(decimal)
    BY <1>3, <2>2
  <2> QED
    BY <2>1, <2>2
<1> HIDE DEF d
<1>7. ASSUME precision = 0
      PROVE  Close(d, <<>>, 0, Places, Exact)
  <2>1. L = Places /\ L \in Nat \ {0} /\ 0 < Places /\ Places - 0 = L
    <3>1. MantBits \in Nat \ {0} /\ e \in Int /\ Places = IF e < 0 /\ NotZero THEN MantBits - e ELSE MantBits
      BY <1>2, NumberFacts DEF TypeInv
    <3> QED
      BY <1>3, <1>7, <3>1
  <2>2. Value(fract) = h
    <3>1. fract = [k \in 1 .. L |-> IF k = 0 + 1 THEN 5 ELSE 0]
      <4>1. fract[1] = 5 /\ \A k \in 2 .. L : fract[k] = 0
        BY <1>1, <1>3, <1>7, <2>1 DEF OneHalf
      <4>2. fract = [k \in 1 .. L |-> fract[k]]
        BY <1>3
      <4>3. \A k \in 1 .. L : fract[k] = IF k = 0 + 1 THEN 5 ELSE 0
        BY <2>1, <4>1
      <4> QED
        BY <4>2, <4>3
    <3>2. L \in Nat /\ 0 \in 0 .. L - 1
      BY <2>1
    <3> HIDE DEF L
    <3> QED
      BY <3>1, <3>2, FiveIn
  <2>3. q = 2 * h /\ h \in Nat
    <3>1. L - (0 + 1) \in Nat /\ L = (L - (0 + 1)) + 1
      BY <2>1
    <3>2. Power(10, (L - (0 + 1)) + 1) = 10 * Power(10, L - (0 + 1)) /\ Power(10, L - (0 + 1)) \in Nat
      BY <3>1, PowerFacts
    <3> QED
      BY <3>1, <3>2
  <2>4. Exact = vd * q + h
    <3>1. Value(decimal \o fract) = vd * q + h
      BY <1>3, <2>2, ValueJoin
    <3>2. L - Places = 0
      BY <2>1
    <3>4. Power(10, 0) = 1
      BY PowerFacts
    <3>3. Value(decimal \o fract) = Exact * 1
      BY <1>3, <3>2, <3>4
    <3> QED
      BY <1>3, <3>1, <3>3
  <2>5. d \o <<>> = d
    BY <1>6
  <2> DEFINE w == Value(d)
  <2>6. w = vd \/ w = vd + 1
    BY <1>6
  <2> HIDE DEF q, h, vd, w
  <2>7. 2 * Abs(w * q - Exact) <= q
    <3>1. q \in Nat /\ vd * q \in Nat /\ (vd + 1) * q = vd * q + q
      BY <1>5, <2>3
    <3> DEFINE m == vd * q
               x == w * q
    <3>2. x = m \/ x = m + q
      BY <2>6, <3>1
    <3>3. m \in Nat /\ Exact = m + h
      BY <2>4, <3>1
    <3> HIDE DEF m, x
    <3>4. 2 * Abs(x - Exact) <= q
      BY <2>3, <3>2, <3>3 DEF Abs
    <3> QED
      BY <3>4 DEF x
  <2>8. Value(d \o <<>>) = w
    BY <2>5, Zenon DEF w
  <2>9. Power(10, Places - 0) = q
    BY <2>1, Zenon DEF q
  <2> HIDE DEF L
  <2>10. 2 * Abs(Value(d \o <<>>) * Power(10, Places - 0) - Exact) <= Power(10, Places - 0)
    BY <2>7, <2>8, <2>9
  <2> QED
    BY <2>1, <2>10 DEF Close
<1>8. TypeInv'
  BY <1>1, <1>2, <1>6 DEF TypeInv, input
<1>9. WordInv'
  BY <1>1, <1>2 DEF WordInv, output, input
<1>10. JoinInv'
  <2>1. precision' = precision /\ Places' = Places /\ Exact' = Exact
    BY <1>1, SameNumber
  <2>2. ASSUME precision = 0
        PROVE  Close(decimal', <<>>, precision', Places', Exact')
    BY <1>1, <1>7, <2>1, <2>2, Zenon
  <2>3. ~Odd(decimal')
    BY <1>1, <1>6, Zenon
  <2>4. Odd(decimal') <=> Odd(decimal)'
    BY DEF Odd
  <2> QED
    BY <1>1, <2>1, <2>2, <2>3, <2>4 DEF JoinInv
<1> QED
  BY <1>1, <1>8, <1>9, <1>10 DEF IInv, MantissaInv, ScaleInv, SplitInv, RoundInv, PartsExact, DoneInv

\* The fraction that ends where the precision does may become anything: nothing
\* is said of what follows.
LEMMA RoundGarbageOK == IInv /\ RoundGarbage => IInv'
<1> SUFFICES ASSUME IInv, RoundGarbage
             PROVE  IInv'
  OBVIOUS
<1>1. pc = "round" /\ pc' = "garbage" /\ UNCHANGED <<input, i, mantiss, decimal, fract, output, tie>>
  BY DEF RoundGarbage
<1>2. TypeInv /\ WordInv
  BY DEF IInv
<1>3. TypeInv'
  BY <1>1, <1>2 DEF TypeInv, input
<1>4. WordInv'
  BY <1>1, <1>2 DEF WordInv, output, input
<1> QED
  BY <1>1, <1>3, <1>4
  DEF IInv, MantissaInv, ScaleInv, SplitInv, RoundInv, PartsExact, JoinInv, DoneInv

\* The point, the fraction and the sign change no digit.
LEMMA JoinOK == IInv /\ Join => IInv'
<1> SUFFICES ASSUME IInv, Join
             PROVE  IInv'
  OBVIOUS
<1>1. /\ pc = "join" /\ pc' = "done" /\ UNCHANGED <<input, i, mantiss, decimal, word, tie>>
      /\ minus' = nbr.neg
      /\ IF hash \/ precision # 0 THEN dot' = TRUE /\ fract' = fract
                                  ELSE dot' = FALSE /\ fract' = <<>>
  BY DEF Join
<1>2. TypeInv /\ WordInv /\ JoinInv
  BY DEF IInv
<1>3. precision \in Nat /\ hash \in BOOLEAN /\ <<>> \in Seq(Digit) /\ Len(<<>>) = 0
  BY <1>2, NumberFacts DEF TypeInv
<1>4. /\ nbr' = nbr /\ precision' = precision /\ hash' = hash /\ Places' = Places /\ Exact' = Exact
  BY <1>1, SameNumber
<1>5. TypeInv'
  <2>1. fract' \in Seq(Digit)
    BY <1>1, <1>2, <1>3 DEF TypeInv
  <2> QED
    BY <1>1, <1>2, <2>1 DEF TypeInv, input
<1>6. WordInv'
  BY <1>1, <1>2, <1>4 DEF WordInv
<1>7. DoneInv'
  <2>1. minus' = nbr'.neg
    BY <1>1, <1>4
  <2>2. dot' = (hash' \/ precision' # 0)
    BY <1>1, <1>4
  <2>3. ASSUME ~tie
        PROVE  Len(fract') = precision /\ Close(decimal, fract', precision, Places, Exact)
    <3>1. Len(fract) = precision /\ Close(decimal, fract, precision, Places, Exact)
      BY <1>1, <1>2, <2>3 DEF JoinInv
    <3>2. fract' = fract
      <4>1. CASE hash \/ precision # 0
        BY <1>1, <4>1
      <4>2. CASE ~(hash \/ precision # 0)
        <5>1. fract' = <<>>
          BY <1>1, <4>2
        <5>2. fract = <<>>
          BY <1>2, <3>1, <4>2 DEF TypeInv
        <5> QED
          BY <5>1, <5>2
      <4> QED
        BY <4>1, <4>2
    <3> QED
      BY <3>1, <3>2
  <2>4. ASSUME tie, precision = 0
        PROVE  ~Odd(decimal) /\ (hash \/ (fract' = <<>> /\ Close(decimal, <<>>, precision, Places, Exact)))
    BY <1>1, <1>2, <2>4 DEF JoinInv
  <2>5. ~tie' =>
          Len(fract') = precision' /\ Close(decimal', fract', precision', Places', Exact')
    BY <1>1, <1>4, <2>3, Zenon
  <2>6. tie' /\ precision' = 0 =>
          ~Odd(decimal') /\ (hash' \/ (fract' = <<>> /\ Close(decimal', <<>>, precision', Places', Exact')))
    BY <1>1, <1>4, <2>4, Zenon
  <2>7. Odd(decimal') <=> Odd(decimal)'
    BY DEF Odd
  <2> QED
    BY <2>1, <2>2, <2>5, <2>6, <2>7 DEF DoneInv
<1> QED
  BY <1>1, <1>5, <1>6, <1>7 DEF IInv, MantissaInv, ScaleInv, SplitInv, RoundInv, PartsExact, JoinInv

\* The invariant is about the variables of ft_print_f only.
LEMMA StutterOK == IInv /\ UNCHANGED vars => IInv'
<1> SUFFICES ASSUME IInv, UNCHANGED vars
             PROVE  IInv'
  OBVIOUS
<1>1. /\ UNCHANGED <<nbr, precision, hash, pc, i, mantiss, decimal, fract, minus, dot, word, tie>>
  BY DEF vars
<1>2. UNCHANGED input
  BY <1>1 DEF input
<1>3. Places' = Places /\ Exact' = Exact /\ Significand' = Significand /\ (NotZero <=> NotZero')
  BY <1>2, SameNumber
<1>4. TypeInv' /\ WordInv' /\ MantissaInv' /\ ScaleInv' /\ SplitInv' /\ RoundInv'
  BY <1>1, <1>3 DEF IInv, TypeInv, WordInv, MantissaInv, ScaleInv, SplitInv, RoundInv, PartsExact
<1>5. JoinInv' /\ DoneInv'
  BY <1>1, <1>3 DEF IInv, JoinInv, DoneInv
<1> QED
  BY <1>4, <1>5 DEF IInv

-----------------------------------------------------------------------------
\* What holds of every state.

\* The string, then decimal and fract, hold the exact number at every step of
\* ft_print_f: while the mantissa is read, scaled, and cut at the point.
THEOREM Invariance == Spec => []IInv
<1>1. Init => IInv
  BY InitOK
<1>2. IInv /\ [Next]_vars => IInv'
  <2> SUFFICES ASSUME IInv, [Next]_vars
               PROVE  IInv'
    OBVIOUS
  <2>1. CASE PrintWord
    BY <2>1, PrintWordOK
  <2>2. CASE StartMantissa
    BY <2>2, StartMantissaOK
  <2>3. CASE MantissaBit
    BY <2>3, MantissaBitOK
  <2>4. CASE MantissaDone
    BY <2>4, MantissaDoneOK
  <2>5. CASE Scale
    BY <2>5, ScaleOK
  <2>6. CASE Split
    BY <2>6, SplitOK
  <2>7. CASE RoundHalf
    BY <2>7, RoundHalfOK
  <2>8. CASE Round
    BY <2>8, RoundOK
  <2>9. CASE RoundGarbage
    BY <2>9, RoundGarbageOK
  <2>10. CASE Join
    BY <2>10, JoinOK
  <2>11. CASE UNCHANGED vars
    BY <2>11, StutterOK
  <2> QED
    BY <2>1, <2>2, <2>3, <2>4, <2>5, <2>6, <2>7, <2>8, <2>9, <2>10, <2>11 DEF Next
<1> QED
  BY <1>1, <1>2, PTL DEF Spec

\* No digit is lost or gained when the mantissa is read, scaled and split at the
\* decimal point (get_mantissa, split_float_parts, save_parts).
THEOREM PartsAreExact == Spec => []PartsExact
<1>1. IInv => PartsExact
  BY DEF IInv, RoundInv
<1> QED
  BY <1>1, Invariance, PTL

\* The number that ft_fround and join_dot_to_decimal make has as many places as
\* the precision asks for and is at most half a unit of the last one away from
\* the exact number, unless there is a tie; where the fraction ends at the
\* precision the number is five units of the last place too large.
THEOREM RoundedToNearest == Spec => []RoundedNearest
<1>1. IInv => RoundedNearest
  <2> SUFFICES ASSUME IInv
               PROVE  RoundedNearest
    OBVIOUS
  <2>1. WordInv /\ DoneInv
    BY DEF IInv
  <2>2. ASSUME pc = "done", word = NoWord, ~tie
        PROVE  IF precision = Places THEN Shape /\ Shown = Exact + 5 ELSE Nearest
    <3>1. Shape /\ Close(decimal, fract, precision, Places, Exact)
      BY <2>1, <2>2 DEF DoneInv, Shape
    <3>2. precision \in Nat /\ Places \in Nat
      BY NumberFacts DEF IInv, TypeInv
    <3> QED
      BY <3>1, <3>2 DEF Nearest, Close, Shown
  <2>3. word # NoWord => nbr.exponent = MaxExponent /\ (minus => nbr.neg /\ word = "inf")
    BY <2>1 DEF WordInv
  <2> QED
    BY <2>2, <2>3 DEF RoundedNearest
<1> QED
  BY <1>1, Invariance, PTL

\* With no places at all is_roundable's half goes to the even neighbour.
THEOREM HalvesToEven == Spec => []HalfToEven
<1>1. IInv => HalfToEven
  <2> SUFFICES ASSUME IInv, pc = "done", tie, precision = 0
               PROVE  (hash \/ Nearest) /\ ~Odd(decimal)
    BY DEF HalfToEven
  <2>1. TypeInv /\ WordInv /\ DoneInv
    BY DEF IInv
  <2>2. word = NoWord
    BY <2>1 DEF WordInv
  <2>3. /\ minus = nbr.neg /\ dot = (hash \/ precision # 0) /\ ~Odd(decimal)
        /\ hash \/ (fract = <<>> /\ Close(decimal, <<>>, precision, Places, Exact))
    BY <2>1, <2>2 DEF DoneInv
  <2>4. ASSUME ~hash
        PROVE  Nearest
    <3>1. fract = <<>> /\ Close(decimal, <<>>, precision, Places, Exact) /\ Len(<<>>) = 0
      BY <2>3, <2>4
    <3>2. Close(decimal, fract, precision, Places, Exact) /\ Len(fract) = precision
      BY <3>1
    <3> QED
      BY <2>1, <2>3, <3>2, NumberFacts DEF Nearest, Close, Shape, Shown, TypeInv
  <2> QED
    BY <2>1, <2>3, <2>4 DEF TypeInv
<1> QED
  BY <1>1, Invariance, PTL
=============================================================================
