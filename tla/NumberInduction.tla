-------------------------- MODULE NumberInduction ---------------------------
(***************************************************************************)
(* Induction over numbers for the proofs of the other modules.  What is    *)
(* shown of every number is given as the set P of the numbers it holds of, *)
(* and a recursive definition as the function F that makes each value from *)
(* the one before.                                                         *)
(***************************************************************************)
EXTENDS Integers, TLAPS, WellFoundedInduction, NaturalsInduction

\* Numbers have a least one among any of them.
LEMMA LeastNumber ==
  ASSUME NEW T \in SUBSET Nat, T # {}
  PROVE  \E x \in T : \A y \in T : x <= y
<1>1. PICK x \in T : \A y \in T : <<y, x>> \notin OpToRel(<, Nat)
  BY WFMin, NatLessThanWellFounded, Zenon
<1>2. \A y \in T : ~(y < x)
  BY <1>1, Zenon DEF OpToRel
<1> QED
  BY <1>2

\* What holds of 0, and of n + 1 when it holds of n, holds up to any N.
LEMMA Induct ==
  ASSUME NEW N \in Nat, NEW P, 0 \in P, \A n \in 0 .. N - 1 : n \in P => n + 1 \in P
  PROVE  \A n \in 0 .. N : n \in P
<1> SUFFICES ASSUME NEW k \in 0 .. N, k \notin P
             PROVE  FALSE
  OBVIOUS
<1> DEFINE S == {n \in 0 .. N : n \notin P}
<1>1. S \in SUBSET Nat /\ S # {}
  OBVIOUS
<1>2. PICK x \in S : \A y \in S : x <= y
  BY <1>1, LeastNumber
<1>3. x # 0 /\ x - 1 \in 0 .. N - 1
  BY <1>2
<1>4. x - 1 \in P
  BY <1>2, <1>3
<1> QED
  BY <1>2, <1>3, <1>4

\* What holds of n when it holds of all before n holds up to any N.
LEMMA StrongInduct ==
  ASSUME NEW N \in Nat, NEW P,
         \A n \in 0 .. N : (\A m \in 0 .. n - 1 : m \in P) => n \in P
  PROVE  \A n \in 0 .. N : n \in P
<1> SUFFICES ASSUME NEW k \in 0 .. N, k \notin P
             PROVE  FALSE
  OBVIOUS
<1> DEFINE S == {n \in 0 .. N : n \notin P}
<1>1. S \in SUBSET Nat /\ S # {}
  OBVIOUS
<1>2. PICK x \in S : \A y \in S : x <= y
  BY <1>1, LeastNumber
<1>3. \A m \in 0 .. x - 1 : m \in P
  BY <1>2
<1> QED
  BY <1>2, <1>3

\* f goes on from base up to N: F makes the value of n from n and the value of
\* the earlier number before[n].
Follows(f, base, N, before, F) ==
  f[0] = base /\ \A n \in 1 .. N : f[n] = F[<<n, f[before[n]]>>]
Recursive(D, base, N, before, F) == \E f \in [0 .. N -> D] : Follows(f, base, N, before, F)

\* A function that is defined by such a recursion exists.
LEMMA Recursion ==
  ASSUME NEW D, NEW base \in D, NEW N \in Nat, NEW F \in [(1 .. N) \X D -> D],
         NEW before \in [1 .. N -> Nat], \A n \in 1 .. N : before[n] < n
  PROVE  Recursive(D, base, N, before, F)
<1> DEFINE P == {n \in 0 .. N : \E f \in [0 .. n -> D] : Follows(f, base, n, before, F)}
<1>1. 0 \in P
  <2> DEFINE f == [k \in 0 .. 0 |-> base]
  <2>1. f \in [0 .. 0 -> D] /\ Follows(f, base, 0, before, F)
    BY DEF Follows
  <2>2. \E g \in [0 .. 0 -> D] : Follows(g, base, 0, before, F)
    <3> HIDE DEF f
    <3> QED
      BY <2>1
  <2> QED
    BY <2>2
<1>2. ASSUME NEW n \in 0 .. N - 1, n \in P
      PROVE  n + 1 \in P
  <2>1. PICK f \in [0 .. n -> D] : Follows(f, base, n, before, F)
    BY <1>2
  <2> DEFINE new == F[<<n + 1, f[before[n + 1]]>>]
             g   == [k \in 0 .. n + 1 |-> IF k = n + 1 THEN new ELSE f[k]]
  <2>2. n + 1 \in 1 .. N /\ before[n + 1] \in 0 .. n
    OBVIOUS
  <2>3. new \in D
    BY <2>2
  <2> HIDE DEF new
  <2>4. g \in [0 .. n + 1 -> D]
    BY <2>3
  <2>5. g[0] = base /\ g[n + 1] = new /\ \A k \in 0 .. n : g[k] = f[k]
    BY <2>1 DEF Follows
  <2> HIDE DEF g
  <2>6. ASSUME NEW k \in 1 .. n + 1
        PROVE  g[k] = F[<<k, g[before[k]]>>]
    <3>1. before[k] \in 0 .. n
      OBVIOUS
    <3>2. g[before[k]] = f[before[k]]
      BY <2>5, <3>1
    <3>3. CASE k = n + 1
      BY <2>5, <3>2, <3>3 DEF new
    <3>4. CASE k \in 1 .. n
      <4>1. g[k] = f[k] /\ f[k] = F[<<k, f[before[k]]>>]
        BY <2>1, <2>5, <3>4 DEF Follows
      <4> QED
        BY <3>2, <4>1
    <3> QED
      BY <3>3, <3>4
  <2>7. Follows(g, base, n + 1, before, F)
    BY <2>5, <2>6 DEF Follows
  <2> QED
    BY <2>4, <2>7
<1>3. \A n \in 0 .. N : n \in P
  <2> HIDE DEF P
  <2> QED
    BY <1>1, <1>2, Induct
<1> QED
  BY <1>3 DEF Recursive
=============================================================================
