---------------------------- MODULE ListingProofs ----------------------------
(***************************************************************************)
(* Proofs about MergeSort and Listing.                                     *)
(*                                                                         *)
(* mergeSort is a stable sort, for tables of any size.  The invariant      *)
(* SortInv of MergeSort is inductive together with SortTypeOK; one lemma   *)
(* per action shows it preserved, on top of lemmas about the order of      *)
(* symbols, about merge's arrays and about the stack of calls.             *)
(*                                                                         *)
(* For every file and every order of the names: what is listed under each  *)
(* option, in which order, and with which letters.                         *)
(* The inductive invariant IInv says where the scan for the table stands   *)
(* (ScanInv), that symb holds symbols of the table, all of them once it is *)
(* loaded (SymbInv), when they are in the order of the table and when they *)
(* are sorted (OrderInv), and which lines are there (PrintInv).            *)
(***************************************************************************)
EXTENDS Listing, MergeSort, SequenceTheorems, TLAPS

-----------------------------------------------------------------------------
\* The order of symbols ----------------------------------------------------

\* A table is a function from 1 .. Len(name) to integers.
LEMMA TableType ==
  ASSUME NEW nm \in Tables
  PROVE  /\ Len(nm) \in Nat
         /\ nm \in [1 .. Len(nm) -> Int]
<1>1. PICK n \in 0 .. MaxSyms : nm \in [1 .. n -> Names]
  BY DEF Tables
<1>2. n \in Nat /\ nm \in Seq(Names)
  BY <1>1, MaxSymsAssumption
<1>3. Len(nm) = n
  BY <1>1, <1>2
<1> QED
  BY <1>1, <1>2, <1>3, NamesAssumption

\* merge's comparison <= 0 puts the earlier of two symbols in front, and > 0
\* the later one.
LEMMA BeforeTotal ==
  ASSUME NEW nm \in Tables, NEW ord \in Orders,
         NEW x \in 1 .. Len(nm), NEW y \in 1 .. Len(nm)
  PROVE  /\ x < y /\ Cmp(ord, nm, x, y) <= 0 => Before(ord, nm, x, y)
         /\ ~(Cmp(ord, nm, x, y) <= 0) => Before(ord, nm, y, x)
<1>1. nm[x] \in Int /\ nm[y] \in Int /\ x \in Int /\ y \in Int
  BY TableType
<1>2. CASE ord = 1  BY <1>1, <1>2 DEF Cmp, Before
<1>3. CASE ord = 0  BY <1>1, <1>3 DEF Cmp, Before
<1>4. CASE ord = -1 BY <1>1, <1>4 DEF Cmp, Before
<1> QED
  BY <1>2, <1>3, <1>4 DEF Orders

\* Before is transitive.
LEMMA BeforeTransitive ==
  ASSUME NEW nm \in Tables, NEW ord \in Orders,
         NEW x \in 1 .. Len(nm), NEW y \in 1 .. Len(nm), NEW z \in 1 .. Len(nm),
         Before(ord, nm, x, y), Before(ord, nm, y, z)
  PROVE  Before(ord, nm, x, z)
<1>1. nm[x] \in Int /\ nm[y] \in Int /\ nm[z] \in Int /\ x \in Int /\ y \in Int /\ z \in Int
  BY TableType
<1>2. CASE ord = 1  BY <1>1, <1>2 DEF Cmp, Before
<1>3. CASE ord = 0  BY <1>1, <1>3 DEF Cmp, Before
<1>4. CASE ord = -1 BY <1>1, <1>4, SMTT(30) DEF Cmp, Before
<1> QED
  BY <1>2, <1>3, <1>4 DEF Orders

\* merge's arrays -----------------------------------------------------------

\* A slice of at most one symbol is sorted.
LEMMA SmallSorted ==
  ASSUME NEW b \in Nat, NEW n \in Nat, n <= 1
  PROVE  SortedHalf(Slice(b, n), b, n)
BY DEF SortedHalf, SortedRange, Slice

\* What the two halves of a frame hold, seen from merge.
LEMMA HalvesType ==
  ASSUME name \in Tables, order \in Orders,
         NEW b \in Nat, NEW n \in Nat, NEW h \in Nat, h <= n, b + n <= Len(name),
         NEW l, NEW r, SortedHalf(l, b, h), SortedHalf(r, b + h, n - h)
  PROVE  /\ l \in [1 .. h -> 1 .. Len(name)]
         /\ r \in [1 .. n - h -> 1 .. Len(name)]
         /\ \A p, q \in 1 .. h : p < q => Before(order, name, l[p], l[q])
         /\ \A p, q \in 1 .. n - h : p < q => Before(order, name, r[p], r[q])
         /\ \A p \in 1 .. h, q \in 1 .. n - h : l[p] < r[q]
<1>1. Len(name) \in Nat
  BY TableType
<1>2. /\ l \in [1 .. h -> b + 1 .. b + h]
      /\ \A p, q \in 1 .. h : p < q => Before(order, name, l[p], l[q])
  BY DEF SortedHalf, SortedRange
<1>3. /\ r \in [1 .. n - h -> (b + h) + 1 .. (b + h) + (n - h)]
      /\ \A p, q \in 1 .. n - h : p < q => Before(order, name, r[p], r[q])
  BY DEF SortedHalf, SortedRange
<1>4. b + 1 .. b + h \subseteq 1 .. Len(name)
  BY <1>1
<1>5. (b + h) + 1 .. (b + h) + (n - h) \subseteq 1 .. Len(name)
  BY <1>1
<1>6. ASSUME NEW p \in 1 .. h, NEW q \in 1 .. n - h
      PROVE  l[p] < r[q]
  <2>1. l[p] \in b + 1 .. b + h
    BY <1>2
  <2>2. r[q] \in (b + h) + 1 .. (b + h) + (n - h)
    BY <1>3
  <2> QED
    BY <2>1, <2>2
<1> QED
  BY <1>2, <1>3, <1>4, <1>5, <1>6

\* The two halves play the same part in MergedPrefix.
LEMMA PrefixSymmetric ==
  ASSUME NEW a, NEW l, NEW r, NEW il \in Nat, NEW j \in Nat, NEW k,
         MergedPrefix(a, l, r, il, j, k)
  PROVE  MergedPrefix(a, r, l, j, il, k)
<1>1. k = j + il
  BY DEF MergedPrefix, MergedRange
<1> QED
  BY <1>1, Zenon DEF MergedPrefix, MergedRange

\* Copying the next symbol of l keeps what is merged in order, when that symbol
\* comes before all that remains.
LEMMA PrefixGrows ==
  ASSUME NEW n \in Nat, NEW N \in Nat, NEW a \in [1 .. n -> 1 .. N],
         NEW h \in Nat, NEW m \in Nat,
         NEW l \in [1 .. h -> 1 .. N], NEW r \in [1 .. m -> 1 .. N],
         NEW il \in Nat, NEW j \in Nat, NEW k \in Nat, il < h, j <= m, h + m <= n,
         MergedPrefix(a, l, r, il, j, k),
         \A q \in 1 .. h : q > il + 1 => Before(order, name, l[il + 1], l[q]),
         \A q \in 1 .. m : q > j => Before(order, name, l[il + 1], r[q])
  PROVE  /\ [a EXCEPT ![k + 1] = l[il + 1]] \in [1 .. n -> 1 .. N]
         /\ MergedPrefix([a EXCEPT ![k + 1] = l[il + 1]], l, r, il + 1, j, k + 1)
<1> DEFINE x  == l[il + 1]
           a2 == [a EXCEPT ![k + 1] = x]
<1>m0. k = il + j
  BY DEF MergedPrefix, MergedRange
<1>m1. \A p \in 1 .. k : (\E q \in 1 .. il : a[p] = l[q]) \/ (\E q \in 1 .. j : a[p] = r[q])
  BY DEF MergedPrefix, MergedRange
<1>m2. \A q \in 1 .. il : \E p \in 1 .. k : a[p] = l[q]
  BY DEF MergedPrefix, MergedRange
<1>m3. \A q \in 1 .. j : \E p \in 1 .. k : a[p] = r[q]
  BY DEF MergedPrefix, MergedRange
<1>m4. \A p, q \in 1 .. k : p < q => Before(order, name, a[p], a[q])
  BY DEF MergedPrefix, MergedRange
<1>m5. \A p \in 1 .. k : \A q \in 1 .. h : q > il => Before(order, name, a[p], l[q])
  BY DEF MergedPrefix, MergedRange
<1>m6. \A p \in 1 .. k : \A q \in 1 .. m : q > j => Before(order, name, a[p], r[q])
  BY DEF MergedPrefix, MergedRange
<1>1. \A q \in 1 .. h : q > il + 1 => Before(order, name, x, l[q])
  OBVIOUS
<1>2. \A q \in 1 .. m : q > j => Before(order, name, x, r[q])
  OBVIOUS
<1>3. \A p \in 1 .. k : Before(order, name, a[p], x)
  BY <1>m5
<1>4. /\ a2 \in [1 .. n -> 1 .. N]
      /\ a2[k + 1] = x
      /\ \A p \in 1 .. k : a2[p] = a[p]
  BY <1>m0
<1> HIDE DEF x, a2
<1>5. \A p \in 1 .. k + 1 :
        (\E q \in 1 .. il + 1 : a2[p] = l[q]) \/ (\E q \in 1 .. j : a2[p] = r[q])
  <2> SUFFICES ASSUME NEW p \in 1 .. k + 1
               PROVE  (\E q \in 1 .. il + 1 : a2[p] = l[q]) \/ (\E q \in 1 .. j : a2[p] = r[q])
    OBVIOUS
  <2>1. CASE p = k + 1
    BY <1>4, <2>1 DEF x
  <2>2. CASE p \in 1 .. k
    <3>1. 1 .. il \subseteq 1 .. il + 1 /\ a2[p] = a[p]
      BY <1>4, <2>2
    <3> QED
      BY <1>m1, <2>2, <3>1
  <2> QED
    BY <2>1, <2>2
<1>6. \A q \in 1 .. il + 1 : \E p \in 1 .. k + 1 : a2[p] = l[q]
  <2> SUFFICES ASSUME NEW q \in 1 .. il + 1
               PROVE  \E p \in 1 .. k + 1 : a2[p] = l[q]
    OBVIOUS
  <2>1. CASE q = il + 1
    BY <1>4, <2>1 DEF x
  <2>2. CASE q \in 1 .. il
    <3>1. PICK p \in 1 .. k : a[p] = l[q]
      BY <1>m2, <2>2
    <3> QED
      BY <1>4, <3>1
  <2> QED
    BY <2>1, <2>2
<1>7. \A q \in 1 .. j : \E p \in 1 .. k + 1 : a2[p] = r[q]
  <2> SUFFICES ASSUME NEW q \in 1 .. j
               PROVE  \E p \in 1 .. k + 1 : a2[p] = r[q]
    OBVIOUS
  <2>1. PICK p \in 1 .. k : a[p] = r[q]
    BY <1>m3
  <2> QED
    BY <1>4, <2>1
<1>8. \A p, q \in 1 .. k + 1 : p < q => Before(order, name, a2[p], a2[q])
  <2> SUFFICES ASSUME NEW p \in 1 .. k + 1, NEW q \in 1 .. k + 1, p < q
               PROVE  Before(order, name, a2[p], a2[q])
    OBVIOUS
  <2>1. p \in 1 .. k /\ a2[p] = a[p]
    BY <1>4
  <2>2. CASE q = k + 1
    BY <1>3, <1>4, <2>1, <2>2
  <2>3. CASE q \in 1 .. k
    BY <1>4, <1>m4, <2>1, <2>3
  <2> QED
    BY <2>2, <2>3
<1>9. \A p \in 1 .. k + 1 : \A q \in 1 .. h : q > il + 1 => Before(order, name, a2[p], l[q])
  <2> SUFFICES ASSUME NEW p \in 1 .. k + 1, NEW q \in 1 .. h, q > il + 1
               PROVE  Before(order, name, a2[p], l[q])
    OBVIOUS
  <2>1. CASE p = k + 1
    BY <1>1, <1>4, <2>1
  <2>2. CASE p \in 1 .. k
    BY <1>4, <1>m5, <2>2, SMTT(30)
  <2> QED
    BY <2>1, <2>2
<1>10. \A p \in 1 .. k + 1 : \A q \in 1 .. m : q > j => Before(order, name, a2[p], r[q])
  <2> SUFFICES ASSUME NEW p \in 1 .. k + 1, NEW q \in 1 .. m, q > j
               PROVE  Before(order, name, a2[p], r[q])
    OBVIOUS
  <2>1. CASE p = k + 1
    BY <1>2, <1>4, <2>1
  <2>2. CASE p \in 1 .. k
    BY <1>4, <1>m6, <2>2
  <2> QED
    BY <2>1, <2>2
<1>11. MergedPrefix(a2, l, r, il + 1, j, k + 1)
  <2>1. k + 1 = (il + 1) + j /\ DOMAIN l = 1 .. h /\ DOMAIN r = 1 .. m
    BY <1>m0
  <2> QED
    BY <1>5, <1>6, <1>7, <1>8, <1>9, <1>10, <2>1 DEF MergedPrefix, MergedRange
<1> QED
  BY <1>4, <1>11 DEF a2, x

\* A symbol of the left half that compares <= 0 goes first: stability.
LEMMA PrefixTakesLeft ==
  ASSUME name \in Tables, order \in Orders,
         NEW b \in Nat, NEW n \in Nat, NEW h \in Nat, h <= n, b + n <= Len(name),
         NEW a \in [1 .. n -> 1 .. Len(name)], NEW l, NEW r,
         NEW il \in Nat, NEW j \in Nat, NEW k \in Nat, il < h, j <= n - h,
         SortedHalf(l, b, h), SortedHalf(r, b + h, n - h),
         MergedPrefix(a, l, r, il, j, k),
         j < n - h => PrefersLeft(l[il + 1], r[j + 1])
  PROVE  /\ [a EXCEPT ![k + 1] = l[il + 1]] \in [1 .. n -> 1 .. Len(name)]
         /\ MergedPrefix([a EXCEPT ![k + 1] = l[il + 1]], l, r, il + 1, j, k + 1)
<1>1. Len(name) \in Nat
  BY TableType
<1>2. /\ l \in [1 .. h -> 1 .. Len(name)]
      /\ r \in [1 .. n - h -> 1 .. Len(name)]
      /\ \A p, q \in 1 .. h : p < q => Before(order, name, l[p], l[q])
      /\ \A p, q \in 1 .. n - h : p < q => Before(order, name, r[p], r[q])
      /\ \A p \in 1 .. h, q \in 1 .. n - h : l[p] < r[q]
  BY HalvesType, ZenonT(60)
<1>3. l[il + 1] \in 1 .. Len(name)
  BY <1>2
<1>4. \A q \in 1 .. n - h : q > j => Before(order, name, l[il + 1], r[q])
  <2> SUFFICES ASSUME NEW q \in 1 .. n - h, q > j
               PROVE  Before(order, name, l[il + 1], r[q])
    OBVIOUS
  <2>1. j + 1 \in 1 .. n - h /\ il + 1 \in 1 .. h /\ PrefersLeft(l[il + 1], r[j + 1])
    OBVIOUS
  <2>2. r[j + 1] \in 1 .. Len(name) /\ r[q] \in 1 .. Len(name) /\ l[il + 1] < r[j + 1]
    BY <1>2, <2>1
  <2>3. Before(order, name, l[il + 1], r[j + 1])
    BY <1>3, <2>1, <2>2, BeforeTotal DEF PrefersLeft
  <2>4. CASE q = j + 1
    BY <2>3, <2>4
  <2>5. CASE q > j + 1
    <3>1. Before(order, name, r[j + 1], r[q])
      BY <1>2, <2>1, <2>5
    <3> QED
      BY <1>3, <2>2, <2>3, <3>1, BeforeTransitive
  <2> QED
    BY <2>4, <2>5
<1>5. \A q \in 1 .. h : q > il + 1 => Before(order, name, l[il + 1], l[q])
  BY <1>2
<1>6. n - h \in Nat /\ h + (n - h) <= n
  OBVIOUS
<1> QED
  BY <1>1, <1>2, <1>4, <1>5, <1>6, PrefixGrows, ZenonT(60)

\* A symbol of the right half goes first only when it compares > 0.
LEMMA PrefixTakesRight ==
  ASSUME name \in Tables, order \in Orders,
         NEW b \in Nat, NEW n \in Nat, NEW h \in Nat, h <= n, b + n <= Len(name),
         NEW a \in [1 .. n -> 1 .. Len(name)], NEW l, NEW r,
         NEW il \in Nat, NEW j \in Nat, NEW k \in Nat, il <= h, j < n - h,
         SortedHalf(l, b, h), SortedHalf(r, b + h, n - h),
         MergedPrefix(a, l, r, il, j, k),
         il < h => ~PrefersLeft(l[il + 1], r[j + 1])
  PROVE  /\ [a EXCEPT ![k + 1] = r[j + 1]] \in [1 .. n -> 1 .. Len(name)]
         /\ MergedPrefix([a EXCEPT ![k + 1] = r[j + 1]], l, r, il, j + 1, k + 1)
<1>1. Len(name) \in Nat
  BY TableType
<1>2. /\ l \in [1 .. h -> 1 .. Len(name)]
      /\ r \in [1 .. n - h -> 1 .. Len(name)]
      /\ \A p, q \in 1 .. h : p < q => Before(order, name, l[p], l[q])
      /\ \A p, q \in 1 .. n - h : p < q => Before(order, name, r[p], r[q])
      /\ \A p \in 1 .. h, q \in 1 .. n - h : l[p] < r[q]
  BY HalvesType, ZenonT(60)
<1>3. r[j + 1] \in 1 .. Len(name)
  BY <1>2
<1>4. \A q \in 1 .. h : q > il => Before(order, name, r[j + 1], l[q])
  <2> SUFFICES ASSUME NEW q \in 1 .. h, q > il
               PROVE  Before(order, name, r[j + 1], l[q])
    OBVIOUS
  <2>1. il + 1 \in 1 .. h /\ ~PrefersLeft(l[il + 1], r[j + 1])
    OBVIOUS
  <2>2. l[il + 1] \in 1 .. Len(name) /\ l[q] \in 1 .. Len(name)
    BY <1>2, <2>1
  <2>3. Before(order, name, r[j + 1], l[il + 1])
    BY <1>3, <2>1, <2>2, BeforeTotal DEF PrefersLeft
  <2>4. CASE q = il + 1
    BY <2>3, <2>4
  <2>5. CASE q > il + 1
    <3>1. Before(order, name, l[il + 1], l[q])
      BY <1>2, <2>1, <2>5
    <3> QED
      BY <1>3, <2>2, <2>3, <3>1, BeforeTransitive
  <2> QED
    BY <2>4, <2>5
<1>5. \A q \in 1 .. n - h : q > j + 1 => Before(order, name, r[j + 1], r[q])
  BY <1>2
<1>6. n - h \in Nat /\ (n - h) + h <= n
  OBVIOUS
<1>7. MergedPrefix(a, r, l, j, il, k)
  BY PrefixSymmetric
<1>8. /\ [a EXCEPT ![k + 1] = r[j + 1]] \in [1 .. n -> 1 .. Len(name)]
      /\ MergedPrefix([a EXCEPT ![k + 1] = r[j + 1]], r, l, j + 1, il, k + 1)
  <2> DEFINE m == n - h
  <2>1. /\ m \in Nat /\ m + h <= n /\ j < m
        /\ r \in [1 .. m -> 1 .. Len(name)]
        /\ \A q \in 1 .. m : q > j + 1 => Before(order, name, r[j + 1], r[q])
    BY <1>2, <1>5, <1>6
  <2> HIDE DEF m
  <2> QED
    BY <1>1, <1>2, <1>4, <1>7, <2>1, PrefixGrows, ZenonT(60)
<1> QED
  BY <1>8, PrefixSymmetric, j + 1 \in Nat

\* When both halves are used up, the array is their stable arrangement.
LEMMA MergedAll ==
  ASSUME name \in Tables, order \in Orders,
         NEW b \in Nat, NEW n \in Nat, NEW h \in Nat, h <= n, b + n <= Len(name),
         NEW a \in [1 .. n -> 1 .. Len(name)], NEW l, NEW r, NEW k,
         SortedHalf(l, b, h), SortedHalf(r, b + h, n - h),
         MergedPrefix(a, l, r, h, n - h, k)
  PROVE  SortedHalf(a, b, n)
<1>1. k = n
  BY DEF MergedPrefix, MergedRange
<1>2. /\ l \in [1 .. h -> b + 1 .. b + h]
      /\ \A x \in b + 1 .. b + h : \E p \in 1 .. h : l[p] = x
  BY DEF SortedHalf, SortedRange
<1>3. /\ r \in [1 .. n - h -> (b + h) + 1 .. (b + h) + (n - h)]
      /\ \A x \in (b + h) + 1 .. (b + h) + (n - h) : \E p \in 1 .. n - h : r[p] = x
  BY DEF SortedHalf, SortedRange
<1>m1. \A p \in 1 .. n : (\E q \in 1 .. h : a[p] = l[q]) \/ (\E q \in 1 .. n - h : a[p] = r[q])
  BY <1>1 DEF MergedPrefix, MergedRange
<1>m2. \A q \in 1 .. h : \E p \in 1 .. n : a[p] = l[q]
  BY <1>1 DEF MergedPrefix, MergedRange
<1>m3. \A q \in 1 .. n - h : \E p \in 1 .. n : a[p] = r[q]
  BY <1>1 DEF MergedPrefix, MergedRange
<1>4. \A p, q \in 1 .. n : p < q => Before(order, name, a[p], a[q])
  BY <1>1 DEF MergedPrefix, MergedRange
<1>5. ASSUME NEW p \in 1 .. n
      PROVE  a[p] \in b + 1 .. b + n
  <2>1. CASE \E q \in 1 .. h : a[p] = l[q]
    <3>1. a[p] \in b + 1 .. b + h
      BY <1>2, <2>1
    <3> QED
      BY <3>1
  <2>2. CASE \E q \in 1 .. n - h : a[p] = r[q]
    <3>1. a[p] \in (b + h) + 1 .. (b + h) + (n - h)
      BY <1>3, <2>2
    <3> QED
      BY <3>1
  <2> QED
    BY <1>m1, <2>1, <2>2
<1>6. ASSUME NEW x \in b + 1 .. b + n
      PROVE  \E p \in 1 .. n : a[p] = x
  <2>1. CASE x \in b + 1 .. b + h
    BY <1>2, <1>m2, <2>1
  <2>2. CASE x \in (b + h) + 1 .. (b + h) + (n - h)
    BY <1>3, <1>m3, <2>2
  <2> QED
    BY <2>1, <2>2
<1>7. a \in [1 .. n -> b + 1 .. b + n]
  BY <1>5
<1> QED
  BY <1>4, <1>6, <1>7 DEF SortedHalf, SortedRange

\* The stack of calls --------------------------------------------------------

\* Popping, replacing and pushing frames leave the other frames alone.
LEMMA StackOps ==
  ASSUME NEW S, NEW s \in Seq(S), s # <<>>, NEW f \in S, NEW g \in S
  PROVE  LET D == Len(s)
             pop == SubSeq(s, 1, D - 1)
             rep == [s EXCEPT ![D] = f]
             push == Append(rep, g)
         IN /\ D \in Nat \ {0} /\ s[D] \in S
            /\ pop \in Seq(S) /\ Len(pop) = D - 1
            /\ \A d \in 1 .. D - 1 : pop[d] = s[d]
            /\ rep \in Seq(S) /\ Len(rep) = D /\ rep[D] = f
            /\ \A d \in 1 .. D - 1 : rep[d] = s[d]
            /\ push \in Seq(S) /\ Len(push) = D + 1
            /\ push[D + 1] = g /\ push[D] = f
            /\ \A d \in 1 .. D - 1 : push[d] = s[d]
<1> DEFINE D == Len(s)
           pop == SubSeq(s, 1, D - 1)
           rep == [s EXCEPT ![D] = f]
<1>1. D \in Nat \ {0} /\ s[D] \in S
  BY EmptySeq
<1>2. /\ pop \in Seq(S) /\ Len(pop) = D - 1
      /\ \A d \in 1 .. D - 1 : pop[d] = s[d]
  <2>1. 1 \in Int /\ D - 1 \in Int /\ \A d \in 1 .. D - 1 : s[d] \in S
    BY <1>1
  <2>2. /\ SubSeq(s, 1, D - 1) \in Seq(S)
        /\ Len(SubSeq(s, 1, D - 1)) = IF 1 <= D - 1 THEN (D - 1) - 1 + 1 ELSE 0
        /\ \A d \in 1 .. (D - 1) - 1 + 1 : SubSeq(s, 1, D - 1)[d] = s[1 + d - 1]
    BY <2>1, SubSeqProperties
  <2>3. (D - 1) - 1 + 1 = D - 1 /\ (IF 1 <= D - 1 THEN (D - 1) - 1 + 1 ELSE 0) = D - 1
    <3> HIDE DEF D
    <3> QED
      BY <1>1
  <2>4. \A d \in 1 .. D - 1 : SubSeq(s, 1, D - 1)[d] = s[d]
    <3> SUFFICES ASSUME NEW d \in 1 .. D - 1  PROVE SubSeq(s, 1, D - 1)[d] = s[d]
      OBVIOUS
    <3>1. SubSeq(s, 1, D - 1)[d] = s[1 + d - 1] /\ 1 + d - 1 = d
      BY <2>2, <2>3
    <3> QED
      BY <3>1
  <2> QED
    BY <2>2, <2>3, <2>4
<1>3. /\ rep \in Seq(S) /\ Len(rep) = D /\ rep[D] = f
      /\ \A d \in 1 .. D - 1 : rep[d] = s[d]
  BY <1>1, ExceptSeq
<1> HIDE DEF rep
<1>4. /\ Append(rep, g) \in Seq(S) /\ Len(Append(rep, g)) = D + 1
      /\ Append(rep, g)[D + 1] = g /\ Append(rep, g)[D] = f
      /\ \A d \in 1 .. D - 1 : Append(rep, g)[d] = s[d]
  BY <1>1, <1>3, AppendProperties
<1> QED
  BY <1>1, <1>2, <1>3, <1>4 DEF rep

\* mergeSort cuts a table into two parts that add up to it.
LEMMA HalfFacts ==
  ASSUME NEW n \in Nat
  PROVE  /\ Half(n) \in Nat /\ Half(n) <= n
         /\ n - Half(n) \in Nat /\ Half(n) + (n - Half(n)) = n
BY DEF Half

\* Slices of the file hold its symbols.
LEMMA SliceType ==
  ASSUME Len(name) \in Nat, NEW b \in Nat, NEW n \in Nat, b + n <= Len(name)
  PROVE  Slice(b, n) \in Array(n)
<1>1. \A p \in 1 .. n : b + p \in 1 .. Len(name)
  OBVIOUS
<1> QED
  BY <1>1 DEF Slice, Array

\* The invariant ---------------------------------------------------------------

\* The inductive invariant: types and the state of the recursion.
SortIInv == SortTypeOK /\ SortInv

\* A frame below or at the top uses no buffer of the frames above it.
LEMMA FrameFacts ==
  ASSUME SortIInv, NEW d \in 1 .. Depth
  PROVE  /\ Depth \in Nat /\ Len(name) \in Nat
         /\ stack[d] \in Frames
         /\ Linked(d) /\ Filled(d)
         /\ stack[d].array \in 0 .. 2 * (d - 1)
         /\ d = Depth /\ d > 1 =>
              stack[d].array \in {LeftBuf(d - 1), RightBuf(d - 1)}
<1>1. Depth \in Nat /\ stack[d] \in Frames
  BY DEF SortIInv, SortTypeOK, Depth
<1>2. Len(name) \in Nat
  BY TableType DEF SortIInv, SortTypeOK
<1>3. Linked(d) /\ Filled(d)
  BY DEF SortIInv, SortInv
<1>4. d > 1 => stack[d].array \in {LeftBuf(d - 1), RightBuf(d - 1)}
  BY <1>3 DEF Linked
<1>5. d = 1 => stack[d].array = 0
  BY <1>3 DEF Linked, Root
<1> QED
  BY <1>1, <1>2, <1>3, <1>4, <1>5 DEF LeftBuf, RightBuf

\* The first call of mergeSort establishes the invariant.
LEMMA InitInv ==
  ASSUME SortInit
  PROVE  SortIInv
<1>1. Len(name) \in Nat
  BY TableType DEF SortInit
<1> DEFINE f == Frame(Root, Len(name), 0)
<1>2. f \in Frames
  BY <1>1 DEF Frame, Frames, Root
<1>3. stack = <<f>> /\ Depth = 1 /\ Top = f /\ stack[1] = f
  BY DEF SortInit, Depth, Top
<1>4. /\ f.array = 0 /\ f.size = Len(name) /\ f.base = 0 /\ f.pc = "entry"
      /\ f.i = 0 /\ f.j = 0 /\ f.k = 0
  BY DEF Frame, Root
<1>5. /\ DOMAIN mem = {0} /\ mem[0] = Slice(0, Len(name)) /\ mem[0] \in Array(Len(name))
  BY <1>1 DEF SortInit, Root, FileOrder, Slice, Array
<1> HIDE DEF f
<1>6. SortTypeOK
  <2>1. stack \in Seq(Frames)
    BY <1>2, <1>3
  <2>2. \A b \in DOMAIN mem : \E n \in 0 .. Len(name) : mem[b] \in Array(n)
    BY <1>1, <1>5
  <2> QED
    BY <2>1, <2>2 DEF SortInit, SortTypeOK
<1>7. Linked(1)
  BY <1>1, <1>3, <1>4 DEF Linked, Root
<1>8. Filled(1)
  BY <1>3, <1>4, <1>5 DEF Filled
<1>9. DOMAIN mem = 0 .. 2 * Splits
  BY <1>3, <1>4, <1>5 DEF Splits
<1>10. ~crashed
  BY DEF SortInit
<1> QED
  BY <1>3, <1>6, <1>7, <1>8, <1>9, <1>10 DEF SortIInv, SortInv, Returned

\* A call that leaves its array sorted returns into a consistent caller.
LEMMA CallReturns ==
  ASSUME SortIInv, ~crashed, stack # <<>>, stack' = Pop, UNCHANGED <<name, order, crashed>>,
         DOMAIN mem' = 0 .. 2 * (Depth - 1),
         \A b \in 0 .. 2 * (Depth - 1) : b \in DOMAIN mem /\ mem'[b] = mem[b],
         SortedHalf(mem[Top.array], Top.base, Top.size)
  PROVE  SortIInv'
<1> DEFINE D == Depth
<1>1. /\ D \in Nat \ {0} /\ Top \in Frames /\ Top = stack[D]
      /\ stack' \in Seq(Frames) /\ Len(stack') = D - 1
      /\ \A d \in 1 .. D - 1 : stack'[d] = stack[d]
  BY StackOps DEF SortIInv, SortTypeOK, Depth, Top, Pop
<1>2. Depth' = D - 1
  BY <1>1 DEF Depth
<1>3. ASSUME NEW d \in 1 .. D
      PROVE  /\ Linked(d) /\ Filled(d) /\ stack[d] \in Frames
             /\ stack[d].array \in 0 .. 2 * (d - 1)
  BY FrameFacts
<1> HIDE DEF D
<1>4. SortTypeOK'
  <2>1. \A b \in DOMAIN mem' : \E n \in 0 .. Len(name) : mem'[b] \in Array(n)
    BY DEF D, SortIInv, SortTypeOK
  <2> QED
    BY <1>1, <2>1 DEF SortIInv, SortTypeOK, Array
<1>5. ASSUME NEW d \in 1 .. D - 1
      PROVE  Linked(d)'
  <2>1. d \in 1 .. D /\ stack'[d] = stack[d] /\ (d > 1 => stack'[d - 1] = stack[d - 1])
    BY <1>1
  <2>2. Linked(d) /\ d < Depth
    BY <1>1, <1>3, <2>1 DEF D
  <2> QED
    BY <2>1, <2>2 DEF Linked
<1>6. ASSUME NEW d \in 1 .. D - 1
      PROVE  Filled(d)'
  <2>1. /\ d \in 1 .. D /\ stack'[d] = stack[d] /\ stack[d].pc # "entry"
        /\ Filled(d) /\ stack[d] \in Frames /\ stack[d].array \in 0 .. 2 * (d - 1)
    BY <1>1, <1>3 DEF D, Linked
  <2>2. /\ mem'[stack[d].array] = mem[stack[d].array]
        /\ mem'[LeftBuf(d)] = mem[LeftBuf(d)]
        /\ mem'[RightBuf(d)] = mem[RightBuf(d)]
    BY <1>1, <2>1 DEF D, LeftBuf, RightBuf
  <2>3. CASE d < D - 1
    BY <1>1, <1>2, <2>1, <2>2, <2>3 DEF D, Filled, SortedHalf, Array
  <2>4. CASE d = D - 1
    <3>1. D > 1 /\ Linked(D) /\ D - 1 = d
      BY <1>1, <1>3, <2>4
    <3>2. CASE stack[d].pc = "right"
      <4>1. Top.array = LeftBuf(d) /\ Top.size = Half(stack[d].size) /\ Top.base = stack[d].base
        BY <1>1, <3>1, <3>2 DEF Linked
      <4> QED
        BY <1>1, <1>2, <2>1, <2>2, <2>4, <3>2, <4>1 DEF D, Filled, SortedHalf, Array
    <3>3. CASE stack[d].pc = "merge"
      <4>1. /\ Top.array = RightBuf(d)
            /\ Top.size = stack[d].size - Half(stack[d].size)
            /\ Top.base = stack[d].base + Half(stack[d].size)
            /\ stack[d].i = 0 /\ stack[d].j = 0 /\ stack[d].k = 0
        BY <1>1, <3>1, <3>3 DEF Linked
      <4>2. SortedHalf(mem[RightBuf(d)], stack[d].base + Half(stack[d].size),
                       stack[d].size - Half(stack[d].size))
        BY <4>1
      <4>3. \A a, l, r : MergedPrefix(a, l, r, 0, 0, 0)'
        BY DEF MergedPrefix, MergedRange
      <4>4. 0 <= Half(stack[d].size) /\ 0 <= stack[d].size - Half(stack[d].size)
        <5>1. stack[d].size \in Nat
          BY <2>1 DEF Frames
        <5>2. Half(stack[d].size) \in Nat /\ stack[d].size - Half(stack[d].size) \in Nat
          BY <5>1, HalfFacts
        <5> HIDE DEF D
        <5> QED
          BY <5>2
      <4>5. mem'[stack[d].array] = Slice(stack[d].base, stack[d].size)
        BY <1>1, <2>1, <2>2, <2>4 DEF D, Filled
      <4> QED
        BY <1>1, <1>2, <2>1, <2>2, <2>4, <3>3, <4>1, <4>2, <4>3, <4>4, <4>5
        DEF D, Filled, Slice, SortedHalf, Array
    <3> QED
      BY <2>1, <3>2, <3>3 DEF Frames
  <2> QED
    BY <1>1, <2>3, <2>4
<1>7. Splits' = D - 1
  <2>1. CASE D = 1
    BY <1>1, <1>2, <2>1 DEF Splits
  <2>2. CASE D > 1
    <3>1. stack' # <<>> /\ Top' = stack[D - 1]
      BY <1>1, <1>2, <2>2 DEF Top
    <3>2. stack[D - 1].pc # "entry"
      BY <1>1, <1>3, <2>2 DEF D, Linked
    <3> QED
      BY <1>2, <3>1, <3>2 DEF Splits
  <2> QED
    BY <1>1, <2>1, <2>2
<1>8. Returned' => SortedHalf(mem[Root], 0, Len(name))'
  <2> SUFFICES ASSUME stack' = <<>>
               PROVE  SortedHalf(mem[Root], 0, Len(name))'
    BY DEF Returned
  <2>1. D = 1 /\ Linked(1)
    BY <1>1, <1>3
  <2>2. Top.array = Root /\ Top.base = 0 /\ Top.size = Len(name)
    BY <1>1, <2>1 DEF Linked
  <2> QED
    BY <2>1, <2>2 DEF D, Root, SortedHalf
<1> QED
  BY <1>2, <1>4, <1>5, <1>6, <1>7, <1>8 DEF D, SortIInv, SortInv

\* The step that returns from a table of fewer than two symbols keeps it.
LEMMA ReturnSmallInv ==
  ASSUME SortIInv, ReturnSmall
  PROVE  SortIInv'
<1> DEFINE D == Depth
<1>1. ~crashed /\ stack # <<>> /\ stack' = Pop /\ mem' = mem /\ Top.pc = "entry" /\ Top.size <= 1
  BY DEF ReturnSmall, Running
<1>2. D \in Nat \ {0} /\ Top = stack[D]
  BY <1>1, StackOps DEF SortIInv, SortTypeOK, Depth, Top
<1>3. Linked(D) /\ Filled(D) /\ stack[D] \in Frames
  BY <1>2, FrameFacts
<1>4. DOMAIN mem = 0 .. 2 * (D - 1)
  BY <1>1 DEF SortIInv, SortInv, Splits
<1>5. SortedHalf(mem[Top.array], Top.base, Top.size)
  <2>1. mem[Top.array] = Slice(Top.base, Top.size)
    BY <1>1, <1>2, <1>3 DEF Filled
  <2>2. Top.base \in Nat /\ Top.size \in Nat
    BY <1>2, <1>3 DEF Frames
  <2> QED
    BY <1>1, <2>1, <2>2, SmallSorted
<1> QED
  BY <1>1, <1>4, <1>5, CallReturns DEF ReturnSmall

\* The step that frees both buffers of a sorted call and returns keeps it.
LEMMA FreeAndReturnInv ==
  ASSUME SortIInv, FreeAndReturn
  PROVE  SortIInv'
<1> DEFINE D == Depth
           h == Half(Top.size)
<1>1. /\ ~crashed /\ stack # <<>> /\ stack' = Pop /\ Top.pc = "merge"
      /\ Top.i = h /\ Top.j = Top.size - h
      /\ mem' = [b \in DOMAIN mem \ {LeftBuf(D), RightBuf(D)} |-> mem[b]]
  BY DEF FreeAndReturn, FreeTemps, Running, LeftSize, RightSize
<1>2. D \in Nat \ {0} /\ Top = stack[D]
  BY <1>1, StackOps DEF SortIInv, SortTypeOK, Depth, Top
<1>3. Linked(D) /\ Filled(D) /\ stack[D] \in Frames /\ Len(name) \in Nat
  BY <1>2, FrameFacts
<1>4. DOMAIN mem = 0 .. 2 * D
  BY <1>1 DEF SortIInv, SortInv, Splits
<1>5. /\ DOMAIN mem' = 0 .. 2 * (D - 1)
      /\ \A b \in 0 .. 2 * (D - 1) : b \in DOMAIN mem /\ mem'[b] = mem[b]
  BY <1>1, <1>2, <1>4 DEF LeftBuf, RightBuf
<1>6. SortedHalf(mem[Top.array], Top.base, Top.size)
  <2>1. Top.base \in Nat /\ Top.size \in Nat
    BY <1>2, <1>3 DEF Frames
  <2>2. h \in Nat /\ h <= Top.size
    BY <2>1, HalfFacts
  <2>3. /\ mem[Top.array] \in [1 .. Top.size -> 1 .. Len(name)]
        /\ SortedHalf(mem[LeftBuf(D)], Top.base, h)
        /\ SortedHalf(mem[RightBuf(D)], Top.base + h, Top.size - h)
        /\ MergedPrefix(mem[Top.array], mem[LeftBuf(D)], mem[RightBuf(D)], h, Top.size - h, Top.k)
    BY <1>1, <1>2, <1>3 DEF Filled, Array
  <2>4. Top.base + Top.size <= Len(name)
    BY <1>2, <1>3 DEF Linked
  <2>5. name \in Tables /\ order \in Orders
    BY DEF SortIInv, SortTypeOK
  <2> HIDE DEF D, h
  <2> QED
    BY <2>1, <2>2, <2>3, <2>4, <2>5, MergedAll
<1> QED
  BY <1>1, <1>5, <1>6, CallReturns DEF FreeAndReturn

\* A call that moves on, or makes a call of its own, leaves its callers as they
\* were: what they wait for is in buffers below its own, except for its array.
LEMMA LowerFrames ==
  ASSUME SortIInv, stack # <<>>, UNCHANGED <<name, order>>,
         Depth' \in {Depth, Depth + 1},
         \A d \in 1 .. Depth - 1 : stack'[d] = stack[d],
         \A b \in 0 .. 2 * (Depth - 1) : b # Top.array => mem'[b] = mem[b],
         NEW d \in 1 .. Depth - 1
  PROVE  Linked(d)' /\ Filled(d)'
<1> DEFINE D == Depth
<1>1. D \in Nat \ {0} /\ Top = stack[D]
  BY StackOps DEF SortIInv, SortTypeOK, Depth, Top
<1>2. d \in 1 .. D /\ Linked(d) /\ Filled(d) /\ stack[d] \in Frames /\ stack[d].array \in 0 .. 2 * (d - 1)
  BY <1>1, FrameFacts
<1>3. Linked(D) /\ Top.array \in {LeftBuf(D - 1), RightBuf(D - 1)}
  <2>1. D \in 1 .. Depth /\ D = Depth /\ D > 1
    BY <1>1
  <2> QED
    BY <1>1, <2>1, FrameFacts
<1> HIDE DEF D
<1>low. d \in 1 .. D - 1 /\ \A b \in 0 .. 2 * (D - 1) : b # Top.array => mem'[b] = mem[b]
  BY DEF D
<1>4. stack'[d] = stack[d] /\ (d > 1 => stack'[d - 1] = stack[d - 1])
  BY <1>low, <1>1 DEF D
<1>5. Linked(d)'
  BY <1>low, <1>1, <1>2, <1>4 DEF D, Linked
<1>6. stack[d].pc # "entry" /\ mem'[stack[d].array] = mem[stack[d].array]
  BY <1>low, <1>1, <1>2, <1>3, SMTT(30) DEF D, Linked, LeftBuf, RightBuf
<1>7. d # Depth /\ d # Depth' /\ d < Depth
  BY <1>low, <1>1 DEF D
<1>8. Filled(d)'
  <2>1. CASE stack[d].pc = "right"
    <3>1. mem'[RightBuf(d)] = mem[RightBuf(d)]
      <4>1. CASE d = D - 1
        <5>1. Top.array = LeftBuf(d)
          BY <1>1, <1>3, <2>1, <4>1 DEF D, Linked
        <5>2. RightBuf(d) \in 0 .. 2 * (D - 1) /\ RightBuf(d) # LeftBuf(d)
          BY <1>low, <1>1, <4>1 DEF LeftBuf, RightBuf
        <5> QED
          BY <1>low, <5>1, <5>2
      <4>2. CASE d < D - 1
        <5>1. RightBuf(d) \in 0 .. 2 * (D - 1) /\ RightBuf(d) < LeftBuf(D - 1)
          BY <1>low, <1>1, <4>2 DEF LeftBuf, RightBuf
        <5>2. RightBuf(d) # Top.array
          BY <1>low, <1>1, <1>3, <5>1 DEF LeftBuf, RightBuf
        <5> QED
          BY <1>low, <5>1, <5>2
      <4> QED
        BY <1>low, <1>1, <4>1, <4>2
    <3> QED
      BY <1>2, <1>4, <1>6, <1>7, <2>1, <3>1 DEF Filled, Array
  <2>2. CASE stack[d].pc = "merge"
    <3>1. mem'[LeftBuf(d)] = mem[LeftBuf(d)]
      <4>1. CASE d = D - 1
        <5>1. Top.array = RightBuf(d)
          BY <1>1, <1>3, <2>2, <4>1 DEF D, Linked
        <5>2. LeftBuf(d) \in 0 .. 2 * (D - 1) /\ RightBuf(d) # LeftBuf(d)
          BY <1>low, <1>1, <4>1 DEF LeftBuf, RightBuf
        <5> QED
          BY <1>low, <5>1, <5>2
      <4>2. CASE d < D - 1
        <5>1. LeftBuf(d) \in 0 .. 2 * (D - 1) /\ LeftBuf(d) < LeftBuf(D - 1)
          BY <1>low, <1>1, <4>2 DEF LeftBuf, RightBuf
        <5>2. LeftBuf(d) # Top.array
          BY <1>low, <1>1, <1>3, <5>1 DEF LeftBuf, RightBuf
        <5> QED
          BY <1>low, <5>1, <5>2
      <4> QED
        BY <1>low, <1>1, <4>1, <4>2
    <3> QED
      <4>1. mem'[stack[d].array] = Slice(stack[d].base, stack[d].size)
        BY <1>2, <1>6, <1>7 DEF Filled
      <4> QED
        BY <1>2, <1>4, <1>6, <1>7, <2>2, <3>1, <4>1 DEF Filled, Slice, SortedHalf, Array
  <2> QED
    BY <1>2, <1>6, <2>1, <2>2 DEF Frames
<1> QED
  BY <1>5, <1>8

\* The step that fills the two buffers and sorts the left one keeps it.
LEMMA SplitAndSortLeftInv ==
  ASSUME SortIInv, SplitAndSortLeft
  PROVE  SortIInv'
<1>0. PICK D \in Nat \ {0} : D = Depth /\ Top = stack[D] /\ D \in 1 .. Depth
  <2>1. stack # <<>>
    BY DEF SplitAndSortLeft, Running
  <2> QED
    BY <2>1, StackOps DEF SortIInv, SortTypeOK, Depth, Top
<1> DEFINE h == Half(Top.size)
           f == [Top EXCEPT !.pc = "right"]
           g == Frame(LeftBuf(D), h, Top.base)
           a == mem[Top.array]
<1>1. /\ ~crashed /\ stack # <<>> /\ Top.pc = "entry" /\ Top.size > 1
      /\ stack' = Append([stack EXCEPT ![D] = f], g)
      /\ UNCHANGED <<name, order, crashed>>
      /\ mem' = [b \in DOMAIN mem \cup {LeftBuf(D), RightBuf(D)} |->
                   CASE b = LeftBuf(D)  -> [p \in 1 .. h |-> a[p]]
                     [] b = RightBuf(D) -> [p \in 1 .. Top.size - h |-> a[h + p]]
                     [] OTHER           -> mem[b]]
  BY <1>0 DEF SplitAndSortLeft, Running, Goto, Replace
<1>3. Linked(D) /\ Filled(D) /\ Top \in Frames /\ Len(name) \in Nat
      /\ Top.array \in 0 .. 2 * (D - 1)
  BY <1>0, FrameFacts
<1>4. Top.size \in Nat /\ Top.base \in Nat
  BY <1>3 DEF Frames
<1>5. h \in Nat /\ h <= Top.size /\ Top.size - h \in Nat
  BY <1>4, HalfFacts
<1>6. f \in Frames /\ g \in Frames
  <2>1. f \in Frames
    BY <1>3 DEF Frames
  <2>2. LeftBuf(D) \in Nat
    BY DEF LeftBuf
  <2>3. g \in Frames
    BY <1>4, <1>5, <2>2 DEF Frames, Frame
  <2> QED
    BY <2>1, <2>3
<1>7. /\ stack' \in Seq(Frames) /\ Len(stack') = D + 1
      /\ stack'[D + 1] = g /\ stack'[D] = f
      /\ \A d \in 1 .. D - 1 : stack'[d] = stack[d]
  <2> HIDE DEF f, g
  <2>1. stack \in Seq(Frames) /\ D = Len(stack)
    BY <1>0 DEF SortIInv, SortTypeOK, Depth
  <2> QED
    BY <1>1, <1>6, <2>1, StackOps
<1>8. DOMAIN mem = 0 .. 2 * (D - 1)
  BY <1>0, <1>1 DEF SortIInv, SortInv, Splits
<1>9. a = Slice(Top.base, Top.size) /\ a \in Array(Top.size)
  BY <1>1, <1>0, <1>3 DEF Filled
<1>10. Top.base + Top.size <= Len(name)
  BY <1>0, <1>3 DEF Linked
<1>11. /\ g.array = LeftBuf(D) /\ g.size = h /\ g.base = Top.base /\ g.pc = "entry"
       /\ g.i = 0 /\ g.j = 0 /\ g.k = 0
       /\ f.array = Top.array /\ f.size = Top.size /\ f.base = Top.base /\ f.pc = "right"
       /\ f.i = Top.i /\ f.j = Top.j /\ f.k = Top.k
  BY <1>3 DEF Frame, Frames
<1>12. Depth' = D + 1
  BY <1>0, <1>7 DEF Depth
<1> HIDE DEF h, f, g, a
<1>13. /\ DOMAIN mem' = 0 .. 2 * D
       /\ \A b \in 0 .. 2 * (D - 1) : mem'[b] = mem[b]
       /\ mem'[LeftBuf(D)] = [p \in 1 .. h |-> a[p]]
       /\ mem'[RightBuf(D)] = [p \in 1 .. Top.size - h |-> a[h + p]]
  BY <1>1, <1>0, <1>8 DEF LeftBuf, RightBuf
<1>14. mem'[LeftBuf(D)] = Slice(Top.base, h) /\ mem'[LeftBuf(D)] \in Array(h)
  <2>1. mem'[LeftBuf(D)] = Slice(Top.base, h)
    <3>1. \A p \in 1 .. h : a[p] = Top.base + p
      BY <1>4, <1>5, <1>9 DEF Slice
    <3> QED
      BY <1>13, <3>1 DEF Slice
  <2>2. Top.base + h <= Len(name)
    BY <1>3, <1>4, <1>5, <1>10
  <2> QED
    BY <1>3, <1>4, <1>5, <2>1, <2>2, SliceType
<1>15. /\ mem'[RightBuf(D)] = Slice(Top.base + h, Top.size - h)
       /\ mem'[RightBuf(D)] \in Array(Top.size - h)
  <2>1. mem'[RightBuf(D)] = Slice(Top.base + h, Top.size - h)
    <3>1. \A p \in 1 .. Top.size - h : a[h + p] = (Top.base + h) + p
      BY <1>4, <1>5, <1>9 DEF Slice
    <3> QED
      BY <1>13, <3>1 DEF Slice
  <2>2. Top.base + h \in Nat /\ (Top.base + h) + (Top.size - h) <= Len(name)
    BY <1>3, <1>4, <1>5, <1>10
  <2> QED
    BY <1>3, <1>5, <2>1, <2>2, SliceType
<1>16. SortTypeOK'
  <2>1. ASSUME NEW b \in DOMAIN mem'
        PROVE  \E n \in 0 .. Len(name) : mem'[b] \in Array(n)
    <3>1. CASE b \in 0 .. 2 * (D - 1)
      BY <1>8, <1>13, <3>1 DEF SortIInv, SortTypeOK
    <3>2. CASE b = LeftBuf(D)
      BY <1>3, <1>4, <1>5, <1>10, <1>14, <3>2
    <3>3. CASE b = RightBuf(D)
      <4>1. Top.size - h \in 0 .. Len(name)
        BY <1>3, <1>4, <1>5, <1>10
      <4> QED
        BY <1>15, <3>3, <4>1
    <3> QED
      BY <1>0, <1>13, <3>1, <3>2, <3>3, SMTT(30) DEF LeftBuf, RightBuf
  <2> QED
    BY <1>1, <1>7, <2>1 DEF SortIInv, SortTypeOK, Array
<1>17. ASSUME NEW d \in 1 .. D - 1
       PROVE  Linked(d)' /\ Filled(d)'
  BY <1>1, <1>7, <1>12, <1>13, <1>0, LowerFrames
<1>18. Linked(D)'
  <2>1. Linked(D) /\ Top = stack[D] /\ (D > 1 => stack'[D - 1] = stack[D - 1])
    BY <1>0, <1>3, <1>7
  <2> QED
    BY <1>1, <1>0, <1>7, <1>11, <1>12, <2>1 DEF Linked
<1>19. Linked(D + 1)'
  BY <1>1, <1>0, <1>4, <1>5, <1>7, <1>10, <1>11, <1>12, SMTT(30) DEF Linked, h
<1>20. Filled(D)'
  <2>1. mem'[Top.array] \in Array(Top.size) /\ mem'[Top.array] = Slice(Top.base, Top.size)
    BY <1>3, <1>9, <1>13 DEF a
  <2>2. /\ stack'[D].array = Top.array /\ stack'[D].size = Top.size
        /\ stack'[D].base = Top.base /\ stack'[D].pc = "right"
    BY <1>7, <1>11
  <2>3. D # Depth' /\ Half(stack'[D].size) = h
    BY <1>12, <2>2 DEF h
  <2>4. Array(stack[D].size)' = Array(Top.size)
    BY <1>1, <2>2 DEF Array
  <2> QED
    BY <1>15, <2>1, <2>2, <2>3, <2>4 DEF Filled, Slice
<1>21. Filled(D + 1)'
  BY <1>1, <1>7, <1>11, <1>14 DEF Filled, Array
<1>22. Splits' = D
  BY <1>0, <1>7, <1>11, <1>12 DEF Splits, Top
<1>23. ~Returned'
  BY <1>0, <1>7 DEF Returned
<1> QED
  BY <1>0, <1>1, <1>12, <1>13, <1>16, <1>17, <1>18, <1>19, <1>20, <1>21, <1>22, <1>23 DEF SortIInv, SortInv

\* The step that goes on to the right buffer keeps it.
LEMMA SortRightInv ==
  ASSUME SortIInv, SortRight
  PROVE  SortIInv'
<1>0. PICK D \in Nat \ {0} : D = Depth /\ Top = stack[D] /\ D \in 1 .. Depth
  <2>1. stack # <<>>
    BY DEF SortRight, Running
  <2> QED
    BY <2>1, StackOps DEF SortIInv, SortTypeOK, Depth, Top
<1> DEFINE h == Half(Top.size)
           f == [Top EXCEPT !.pc = "merge"]
           g == Frame(RightBuf(D), Top.size - h, Top.base + h)
<1>1. /\ ~crashed /\ stack # <<>> /\ Top.pc = "right"
      /\ stack' = Append([stack EXCEPT ![D] = f], g)
      /\ UNCHANGED <<name, order, mem, crashed>>
  BY <1>0 DEF SortRight, Running, Goto, Replace
<1>3. Linked(D) /\ Filled(D) /\ Top \in Frames /\ Len(name) \in Nat
      /\ Top.array \in 0 .. 2 * (D - 1)
  BY <1>0, FrameFacts
<1>4. Top.size \in Nat /\ Top.base \in Nat
  BY <1>3 DEF Frames
<1>5. h \in Nat /\ h <= Top.size /\ Top.size - h \in Nat /\ h + (Top.size - h) = Top.size
  BY <1>4, HalfFacts
<1>6. f \in Frames /\ g \in Frames
  <2>1. f \in Frames
    BY <1>3 DEF Frames
  <2>2. RightBuf(D) \in Nat
    BY DEF RightBuf
  <2>3. g \in Frames
    BY <1>4, <1>5, <2>2 DEF Frames, Frame
  <2> QED
    BY <2>1, <2>3
<1>7. /\ stack' \in Seq(Frames) /\ Len(stack') = D + 1
      /\ stack'[D + 1] = g /\ stack'[D] = f
      /\ \A d \in 1 .. D - 1 : stack'[d] = stack[d]
  <2> HIDE DEF f, g
  <2>1. stack \in Seq(Frames) /\ D = Len(stack)
    BY <1>0 DEF SortIInv, SortTypeOK, Depth
  <2> QED
    BY <1>1, <1>6, <2>1, StackOps
<1>8. DOMAIN mem = 0 .. 2 * D
  BY <1>0, <1>1 DEF SortIInv, SortInv, Splits
<1>9. /\ Top.base + Top.size <= Len(name) /\ Top.size > 1
      /\ Top.i = 0 /\ Top.j = 0 /\ Top.k = 0
  BY <1>1, <1>0, <1>3 DEF Linked
<1>10. /\ g.array = RightBuf(D) /\ g.size = Top.size - h /\ g.base = Top.base + h
       /\ g.pc = "entry" /\ g.i = 0 /\ g.j = 0 /\ g.k = 0
       /\ f.array = Top.array /\ f.size = Top.size /\ f.base = Top.base /\ f.pc = "merge"
       /\ f.i = 0 /\ f.j = 0 /\ f.k = 0
  BY <1>3, <1>9 DEF Frame, Frames
<1>11. Depth' = D + 1
  BY <1>7 DEF Depth
<1>12. /\ mem[Top.array] \in Array(Top.size) /\ mem[Top.array] = Slice(Top.base, Top.size)
       /\ SortedHalf(mem[LeftBuf(D)], Top.base, h)
       /\ mem[RightBuf(D)] = Slice(Top.base + h, Top.size - h)
  BY <1>1, <1>0, <1>3 DEF Filled
<1> HIDE DEF h, f, g
<1>13. mem[RightBuf(D)] \in Array(Top.size - h)
  <2>1. Top.base + h \in Nat /\ (Top.base + h) + (Top.size - h) <= Len(name)
    BY <1>3, <1>4, <1>5, <1>9
  <2> QED
    BY <1>3, <1>5, <1>12, <2>1, SliceType
<1>14. SortTypeOK'
  BY <1>1, <1>7 DEF SortIInv, SortTypeOK, Array
<1>15. ASSUME NEW d \in 1 .. D - 1
       PROVE  Linked(d)' /\ Filled(d)'
  BY <1>1, <1>7, <1>11, <1>0, LowerFrames
<1>16. Linked(D)'
  <2>1. Linked(D) /\ Top = stack[D] /\ (D > 1 => stack'[D - 1] = stack[D - 1])
    BY <1>0, <1>3, <1>7
  <2> QED
    BY <1>1, <1>0, <1>7, <1>9, <1>10, <1>11, <2>1 DEF Linked
<1>17. Linked(D + 1)'
  BY <1>1, <1>0, <1>4, <1>5, <1>7, <1>9, <1>10, <1>11 DEF Linked, h
<1>18. Filled(D)'
  BY <1>1, <1>0, <1>7, <1>10, <1>11, <1>12 DEF Filled, Array, SortedHalf, h
<1>19. Filled(D + 1)'
  BY <1>1, <1>7, <1>10, <1>12, <1>13 DEF Filled, Array
<1>20. Splits' = D
  BY <1>0, <1>7, <1>10, <1>11 DEF Splits, Top
<1>21. ~Returned'
  BY <1>0, <1>7 DEF Returned
<1> QED
  BY <1>1, <1>0, <1>8, <1>11, <1>14, <1>15, <1>16, <1>17, <1>18, <1>19, <1>20, <1>21
  DEF SortIInv, SortInv

\* An iteration of merge's loops that keeps the merged prefix in order keeps
\* the invariant: the array it writes is no buffer of a lower call's halves.
LEMMA MergeStepInv ==
  ASSUME SortIInv, ~crashed, stack # <<>>, Top.pc = "merge", UNCHANGED <<name, order, crashed>>,
         NEW a2 \in Array(Top.size), NEW f2 \in Frames,
         mem' = [mem EXCEPT ![Top.array] = a2], stack' = Replace(f2),
         f2.array = Top.array, f2.size = Top.size, f2.base = Top.base, f2.pc = "merge",
         f2.i <= Half(Top.size), f2.j <= Top.size - Half(Top.size),
         MergedPrefix(a2, mem[LeftBuf(Depth)], mem[RightBuf(Depth)], f2.i, f2.j, f2.k)
  PROVE  SortIInv'
<1>0. PICK D \in Nat \ {0} : D = Depth /\ Top = stack[D] /\ D \in 1 .. Depth
  BY StackOps DEF SortIInv, SortTypeOK, Depth, Top
<1> DEFINE h == Half(Top.size)
<1>1. Linked(D) /\ Filled(D) /\ Top \in Frames /\ Len(name) \in Nat
      /\ Top.array \in 0 .. 2 * (D - 1)
  BY <1>0, FrameFacts
<1>2. /\ stack' \in Seq(Frames) /\ Len(stack') = D /\ stack'[D] = f2
      /\ \A d \in 1 .. D - 1 : stack'[d] = stack[d]
  BY <1>0, StackOps DEF SortIInv, SortTypeOK, Depth, Replace
<1>3. Depth' = D
  BY <1>2 DEF Depth
<1>4. DOMAIN mem = 0 .. 2 * D
  BY <1>0 DEF SortIInv, SortInv, Splits
<1>5. /\ DOMAIN mem' = 0 .. 2 * D
      /\ mem'[Top.array] = a2
      /\ \A b \in 0 .. 2 * D : b # Top.array => mem'[b] = mem[b]
  BY <1>0, <1>1, <1>4
<1>6. mem'[LeftBuf(D)] = mem[LeftBuf(D)] /\ mem'[RightBuf(D)] = mem[RightBuf(D)]
  BY <1>0, <1>1, <1>5 DEF LeftBuf, RightBuf
<1>7. SortTypeOK'
  <2>1. Top.size \in 0 .. Len(name)
    BY <1>0, <1>1, SMTT(30) DEF Linked, Frames
  <2>2. ASSUME NEW b \in DOMAIN mem'
        PROVE  \E n \in 0 .. Len(name) : mem'[b] \in Array(n)
    BY <1>4, <1>5, <2>1 DEF SortIInv, SortTypeOK
  <2> QED
    BY <1>2, <2>2 DEF SortIInv, SortTypeOK, Array
<1>8. ASSUME NEW d \in 1 .. D - 1
      PROVE  Linked(d)' /\ Filled(d)'
  BY <1>0, <1>2, <1>3, <1>5, LowerFrames
<1>9. Linked(D)'
  <2>1. Linked(D) /\ Top = stack[D] /\ (D > 1 => stack'[D - 1] = stack[D - 1])
    BY <1>0, <1>1, <1>2
  <2> QED
    BY <1>0, <1>2, <1>3, <2>1 DEF Linked
<1>10. Filled(D)'
  <2>1. SortedHalf(mem[LeftBuf(D)], Top.base, h) /\ SortedHalf(mem[RightBuf(D)], Top.base + h, Top.size - h)
    BY <1>0, <1>1 DEF Filled
  <2>2. /\ SortedHalf(mem[LeftBuf(D)], stack[D].base, Half(stack[D].size))'
        /\ SortedHalf(mem[RightBuf(D)], stack[D].base + Half(stack[D].size),
                      stack[D].size - Half(stack[D].size))'
    BY <1>2, <1>6, <2>1 DEF SortedHalf
  <2>3. MergedPrefix(mem[stack[D].array], mem[LeftBuf(D)], mem[RightBuf(D)],
                     stack[D].i, stack[D].j, stack[D].k)'
    BY <1>0, <1>2, <1>5, <1>6 DEF MergedPrefix
  <2>4. (mem[stack[D].array] \in Array(stack[D].size))'
    BY <1>2, <1>5 DEF Array
  <2> QED
    BY <1>2, <1>3, <2>2, <2>3, <2>4 DEF Filled
<1>11. Splits' = D
  BY <1>0, <1>2, <1>3 DEF Splits, Top
<1>12. ~Returned'
  BY <1>0, <1>2 DEF Returned
<1> QED
  BY <1>0, <1>3, <1>5, <1>7, <1>8, <1>9, <1>10, <1>11, <1>12 DEF SortIInv, SortInv

\* What merge reads and may assume about it.
LEMMA MergeFacts ==
  ASSUME SortIInv, Running("merge")
  PROVE  /\ name \in Tables /\ order \in Orders
         /\ Top \in Frames /\ Top.array \in DOMAIN mem
         /\ Top.base \in Nat /\ Top.size \in Nat
         /\ Top.i \in Nat /\ Top.j \in Nat /\ Top.k \in Nat
         /\ LeftSize \in Nat /\ LeftSize <= Top.size /\ RightSize = Top.size - LeftSize
         /\ Top.base + Top.size <= Len(name)
         /\ mem[Top.array] \in [1 .. Top.size -> 1 .. Len(name)]
         /\ SortedHalf(mem[LeftBuf(Depth)], Top.base, LeftSize)
         /\ SortedHalf(mem[RightBuf(Depth)], Top.base + LeftSize, Top.size - LeftSize)
         /\ Top.i <= LeftSize /\ Top.j <= Top.size - LeftSize
         /\ MergedPrefix(mem[Top.array], mem[LeftBuf(Depth)], mem[RightBuf(Depth)],
                         Top.i, Top.j, Top.k)
<1>0. ~crashed /\ stack # <<>> /\ Top.pc = "merge"
  BY DEF Running
<1>1. PICK D \in Nat \ {0} : D = Depth /\ Top = stack[D] /\ D \in 1 .. Depth
  BY <1>0, StackOps DEF SortIInv, SortTypeOK, Depth, Top
<1>2. Linked(D) /\ Filled(D) /\ Top \in Frames /\ Len(name) \in Nat
      /\ Top.array \in 0 .. 2 * (D - 1)
  BY <1>1, FrameFacts
<1>3. DOMAIN mem = 0 .. 2 * D
  BY <1>0, <1>1 DEF SortIInv, SortInv, Splits
<1>4. /\ Top.base \in Nat /\ Top.size \in Nat
      /\ Top.i \in Nat /\ Top.j \in Nat /\ Top.k \in Nat
  BY <1>2 DEF Frames
<1>5. LeftSize \in Nat /\ LeftSize <= Top.size /\ RightSize = Top.size - LeftSize
  BY <1>4, HalfFacts DEF LeftSize, RightSize
<1>6. Top.base + Top.size <= Len(name)
  BY <1>1, <1>2 DEF Linked
<1>7. /\ mem[Top.array] \in [1 .. Top.size -> 1 .. Len(name)]
      /\ SortedHalf(mem[LeftBuf(D)], Top.base, LeftSize)
      /\ SortedHalf(mem[RightBuf(D)], Top.base + LeftSize, Top.size - LeftSize)
      /\ Top.i <= LeftSize /\ Top.j <= Top.size - LeftSize
      /\ MergedPrefix(mem[Top.array], mem[LeftBuf(D)], mem[RightBuf(D)], Top.i, Top.j, Top.k)
  BY <1>0, <1>1, <1>2 DEF Filled, LeftSize, Array
<1>8. name \in Tables /\ order \in Orders
  BY DEF SortIInv, SortTypeOK
<1>9. Top.array \in DOMAIN mem
  BY <1>2, <1>3
<1> QED
  BY <1>1, <1>2, <1>4, <1>5, <1>6, <1>7, <1>8, <1>9

\* The step of merge that stores from the left buffer keeps it.
LEMMA TakeLeftInv ==
  ASSUME SortIInv, TakeLeft
  PROVE  SortIInv'
<1> DEFINE f2 == [Top EXCEPT !.i = Top.i + 1, !.k = Top.k + 1]
           a2 == [mem[Top.array] EXCEPT ![Top.k + 1] = NextLeft]
<1>1. /\ ~crashed /\ Running("merge") /\ stack # <<>> /\ Top.pc = "merge"
      /\ Top.i < LeftSize
      /\ Top.j < RightSize => PrefersLeft(NextLeft, NextRight)
      /\ mem' = [mem EXCEPT ![Top.array] = a2]
      /\ stack' = Replace(f2)
      /\ UNCHANGED <<name, order, crashed>>
  BY DEF TakeLeft, Running, Store
<1>2. /\ a2 \in [1 .. Top.size -> 1 .. Len(name)]
      /\ MergedPrefix(a2, mem[LeftBuf(Depth)], mem[RightBuf(Depth)], Top.i + 1, Top.j, Top.k + 1)
  <2> DEFINE l == mem[LeftBuf(Depth)]
             r == mem[RightBuf(Depth)]
             a == mem[Top.array]
             b == Top.base   n == Top.size   h == LeftSize
             il == Top.i     j == Top.j      k == Top.k
  <2>1. /\ name \in Tables /\ order \in Orders
        /\ b \in Nat /\ n \in Nat /\ h \in Nat /\ h <= n /\ b + n <= Len(name)
        /\ a \in [1 .. n -> 1 .. Len(name)]
        /\ il \in Nat /\ j \in Nat /\ k \in Nat /\ RightSize = n - h
        /\ SortedHalf(l, b, h) /\ SortedHalf(r, b + h, n - h)
        /\ il <= h /\ j <= n - h
        /\ MergedPrefix(a, l, r, il, j, k)
    BY <1>1, MergeFacts
  <2>2. /\ il < h /\ j <= n - h
        /\ j < n - h => PrefersLeft(l[il + 1], r[j + 1])
    BY <1>1, <2>1 DEF NextLeft, NextRight
  <2>3. a2 = [a EXCEPT ![k + 1] = l[il + 1]]
    BY DEF NextLeft, NextRight
  <2> HIDE DEF l, r, a, b, n, h, il, j, k, a2
  <2>4. /\ [a EXCEPT ![k + 1] = l[il + 1]] \in [1 .. n -> 1 .. Len(name)]
        /\ MergedPrefix([a EXCEPT ![k + 1] = l[il + 1]], l, r, il + 1, j, k + 1)
    BY <2>1, <2>2, PrefixTakesLeft
  <2> QED
    BY <2>3, <2>4 DEF l, r, n, il, j, k
<1>3. /\ f2 \in Frames /\ f2.array = Top.array /\ f2.size = Top.size /\ f2.base = Top.base
      /\ f2.pc = "merge" /\ f2.i = Top.i + 1 /\ f2.j = Top.j /\ f2.k = Top.k + 1
  <2>1. Top \in Frames
    BY <1>1, MergeFacts
  <2>2. /\ Top.i \in Nat /\ Top.j \in Nat /\ Top.k \in Nat /\ Top.pc = "merge"
        /\ Top.i + 1 \in Nat /\ Top.j + 1 \in Nat /\ Top.k + 1 \in Nat
    BY <1>1, <2>1 DEF Frames
  <2> QED
    BY <2>1, <2>2 DEF Frames
<1>4. Top.i + 1 <= LeftSize /\ Top.j <= Top.size - LeftSize
  BY <1>1, MergeFacts
<1> HIDE DEF f2, a2
<1> QED
  BY <1>1, <1>2, <1>3, <1>4, MergeStepInv DEF LeftSize, Array

\* The step of merge that stores from the right buffer keeps it.
LEMMA TakeRightInv ==
  ASSUME SortIInv, TakeRight
  PROVE  SortIInv'
<1> DEFINE f2 == [Top EXCEPT !.j = Top.j + 1, !.k = Top.k + 1]
           a2 == [mem[Top.array] EXCEPT ![Top.k + 1] = NextRight]
<1>1. /\ ~crashed /\ Running("merge") /\ stack # <<>> /\ Top.pc = "merge"
      /\ Top.j < RightSize
      /\ Top.i < LeftSize => ~PrefersLeft(NextLeft, NextRight)
      /\ mem' = [mem EXCEPT ![Top.array] = a2]
      /\ stack' = Replace(f2)
      /\ UNCHANGED <<name, order, crashed>>
  BY DEF TakeRight, Running, Store
<1>2. /\ a2 \in [1 .. Top.size -> 1 .. Len(name)]
      /\ MergedPrefix(a2, mem[LeftBuf(Depth)], mem[RightBuf(Depth)], Top.i, Top.j + 1, Top.k + 1)
  <2> DEFINE l == mem[LeftBuf(Depth)]
             r == mem[RightBuf(Depth)]
             a == mem[Top.array]
             b == Top.base   n == Top.size   h == LeftSize
             il == Top.i     j == Top.j      k == Top.k
  <2>1. /\ name \in Tables /\ order \in Orders
        /\ b \in Nat /\ n \in Nat /\ h \in Nat /\ h <= n /\ b + n <= Len(name)
        /\ a \in [1 .. n -> 1 .. Len(name)]
        /\ il \in Nat /\ j \in Nat /\ k \in Nat /\ RightSize = n - h
        /\ SortedHalf(l, b, h) /\ SortedHalf(r, b + h, n - h)
        /\ il <= h /\ j <= n - h
        /\ MergedPrefix(a, l, r, il, j, k)
    BY <1>1, MergeFacts
  <2>2. /\ il <= h /\ j < n - h
        /\ il < h => ~PrefersLeft(l[il + 1], r[j + 1])
    BY <1>1, <2>1 DEF NextLeft, NextRight
  <2>3. a2 = [a EXCEPT ![k + 1] = r[j + 1]]
    BY DEF NextLeft, NextRight
  <2> HIDE DEF l, r, a, b, n, h, il, j, k, a2
  <2>4. /\ [a EXCEPT ![k + 1] = r[j + 1]] \in [1 .. n -> 1 .. Len(name)]
        /\ MergedPrefix([a EXCEPT ![k + 1] = r[j + 1]], l, r, il, j + 1, k + 1)
    BY <2>1, <2>2, PrefixTakesRight, ZenonT(60)
  <2> QED
    BY <2>3, <2>4 DEF l, r, n, il, j, k
<1>3. /\ f2 \in Frames /\ f2.array = Top.array /\ f2.size = Top.size /\ f2.base = Top.base
      /\ f2.pc = "merge" /\ f2.i = Top.i /\ f2.j = Top.j + 1 /\ f2.k = Top.k + 1
  <2>1. Top \in Frames
    BY <1>1, MergeFacts
  <2>2. /\ Top.i \in Nat /\ Top.j \in Nat /\ Top.k \in Nat /\ Top.pc = "merge"
        /\ Top.i + 1 \in Nat /\ Top.j + 1 \in Nat /\ Top.k + 1 \in Nat
    BY <1>1, <2>1 DEF Frames
  <2> QED
    BY <2>1, <2>2 DEF Frames
<1>4. Top.i <= LeftSize /\ Top.j + 1 <= Top.size - LeftSize
  BY <1>1, MergeFacts
<1> HIDE DEF f2, a2
<1> QED
  BY <1>1, <1>2, <1>3, <1>4, MergeStepInv DEF LeftSize, Array

\* The stopped system changes nothing the invariant is about.
LEMMA StutterInv ==
  ASSUME SortIInv, UNCHANGED sortVars
  PROVE  SortIInv'
<1> USE DEF sortVars
<1>1. SortTypeOK'
  BY DEF SortIInv, SortTypeOK, Array
<1>2. Depth' = Depth /\ Splits' = Splits /\ Returned' = Returned
  BY DEF Depth, Splits, Top, Returned
<1>3. ASSUME NEW d \in 1 .. Depth
      PROVE  Linked(d)' /\ Filled(d)'
  <2>1. Linked(d) /\ Filled(d)
    BY DEF SortIInv, SortInv
  <2>2. Linked(d)'
    BY <1>2, <2>1 DEF Linked
  <2>3. Filled(d)'
    BY <1>2, <2>1 DEF Filled, Array, SortedHalf, MergedPrefix
  <2> QED
    BY <2>2, <2>3
<1>4. Returned' => SortedHalf(mem[Root], 0, Len(name))'
  BY <1>2 DEF SortIInv, SortInv, SortedHalf
<1>5. /\ ~crashed' => DOMAIN mem' = 0 .. 2 * Splits'
      /\ crashed' => stack' # <<>> /\ Top'.pc = "entry" /\ DOMAIN mem' \in LeftByFault(Depth')
  BY <1>2 DEF SortIInv, SortInv, Top, Depth
<1> QED
  BY <1>1, <1>2, <1>3, <1>4, <1>5 DEF SortIInv, SortInv, Depth

\* A failed malloc keeps it: one new buffer at most, the others as they were.
LEMMA FaultOnNullInv ==
  ASSUME SortIInv, FaultOnNull
  PROVE  SortIInv'
<1>0. PICK D \in Nat \ {0} : D = Depth /\ Top = stack[D] /\ D \in 1 .. Depth
  <2>1. stack # <<>>
    BY DEF FaultOnNull, Running
  <2> QED
    BY <2>1, StackOps DEF SortIInv, SortTypeOK, Depth, Top
<1> DEFINE h == Half(Top.size)
           a == mem[Top.array]
<1>1. /\ ~crashed /\ stack # <<>> /\ Top.pc = "entry" /\ Top.size > 1
      /\ crashed' = TRUE /\ UNCHANGED <<name, order, stack>>
  BY DEF FaultOnNull, Running
<1>2. PICK got \in OneAtMost(D) :
        mem' = [b \in DOMAIN mem \cup got |->
                  CASE b = LeftBuf(D)  -> [p \in 1 .. h |-> a[p]]
                    [] b = RightBuf(D) -> <<>>
                    [] OTHER           -> mem[b]]
  BY <1>0 DEF FaultOnNull
<1>3. Linked(D) /\ Filled(D) /\ Top \in Frames /\ Len(name) \in Nat
  BY <1>0, FrameFacts
<1>4. Top.size \in Nat /\ Top.base \in Nat
  BY <1>3 DEF Frames
<1>5. h \in Nat /\ h <= Top.size
  BY <1>4, HalfFacts
<1>6. DOMAIN mem = 0 .. 2 * (D - 1)
  BY <1>0, <1>1 DEF SortIInv, SortInv, Splits
<1>7. a \in Array(Top.size) /\ Top.size <= Len(name)
  <2>1. a \in Array(Top.size)
    BY <1>0, <1>3 DEF Filled
  <2>2. Top.base + Top.size <= Len(name)
    BY <1>0, <1>3 DEF Linked
  <2> QED
    BY <1>3, <1>4, <2>1, <2>2
<1> HIDE DEF h, a
<1>8. /\ got \subseteq {LeftBuf(D), RightBuf(D)}
      /\ DOMAIN mem' = 0 .. 2 * (D - 1) \cup got
      /\ \A b \in 0 .. 2 * (D - 1) : mem'[b] = mem[b]
  BY <1>0, <1>2, <1>6 DEF OneAtMost, LeftBuf, RightBuf
<1>9. SortTypeOK'
  <2>1. ASSUME NEW b \in DOMAIN mem'
        PROVE  \E n \in 0 .. Len(name) : mem'[b] \in Array(n)
    <3>1. CASE b \in 0 .. 2 * (D - 1)
      BY <1>6, <1>8, <3>1 DEF SortIInv, SortTypeOK
    <3>2. CASE b \in got /\ b = LeftBuf(D)
      <4>1. mem'[b] = [p \in 1 .. h |-> a[p]]
        BY <1>0, <1>2, <3>2 DEF LeftBuf, RightBuf
      <4>2. h \in 0 .. Len(name)
        BY <1>3, <1>4, <1>5, <1>7
      <4>3. [p \in 1 .. h |-> a[p]] \in Array(h)
        BY <1>4, <1>5, <1>7 DEF Array
      <4> QED
        BY <4>1, <4>2, <4>3
    <3>3. CASE b \in got /\ b = RightBuf(D)
      <4>1. mem'[b] = <<>>
        BY <1>0, <1>2, <3>3 DEF LeftBuf, RightBuf
      <4>2. <<>> \in Array(0) /\ 0 \in 0 .. Len(name)
        BY <1>3 DEF Array
      <4> QED
        BY <4>1, <4>2
    <3> QED
      BY <1>8, <3>1, <3>2, <3>3
  <2> QED
    BY <1>1, <2>1 DEF SortIInv, SortTypeOK, Array
<1>10. ASSUME NEW d \in 1 .. D - 1
       PROVE  Linked(d)' /\ Filled(d)'
  <2>1. Depth' = Depth /\ \A e \in 1 .. Depth - 1 : stack'[e] = stack[e]
    BY <1>1 DEF Depth
  <2> QED
    BY <1>0, <1>1, <1>8, <2>1, LowerFrames
<1>11. Linked(D)'
  BY <1>1, <1>3 DEF Linked, Depth
<1>12. Filled(D)'
  <2>1. stack[D].array \in 0 .. 2 * (D - 1)
    BY <1>0, FrameFacts
  <2>2. mem'[stack[D].array] = mem[stack[D].array] /\ stack' = stack /\ stack[D].pc = "entry"
    BY <1>0, <1>1, <1>8, <2>1
  <2> QED
    BY <1>1, <1>3, <2>2 DEF Filled, Array
<1>13. /\ crashed' /\ stack' # <<>> /\ Top'.pc = "entry" /\ DOMAIN mem' \in LeftByFault(Depth')
       /\ ~Returned' /\ Depth' = D
  BY <1>0, <1>1, <1>2, <1>8 DEF LeftByFault, Depth, Top, Returned
<1> QED
  BY <1>0, <1>9, <1>10, <1>11, <1>12, <1>13 DEF SortIInv, SortInv

\* Every step of the sort keeps the invariant.
LEMMA NextInv ==
  ASSUME SortIInv, [SortNext]_sortVars
  PROVE  SortIInv'
<1>1. CASE ReturnSmall
  BY <1>1, ReturnSmallInv
<1>2. CASE SplitAndSortLeft
  BY <1>2, SplitAndSortLeftInv
<1>3. CASE FaultOnNull
  BY <1>3, FaultOnNullInv
<1>4. CASE SortRight
  BY <1>4, SortRightInv
<1>5. CASE TakeLeft
  BY <1>5, TakeLeftInv
<1>6. CASE TakeRight
  BY <1>6, TakeRightInv
<1>7. CASE FreeAndReturn
  BY <1>7, FreeAndReturnInv
<1>8. CASE UNCHANGED sortVars
  BY <1>8, StutterInv
<1> QED
  BY <1>1, <1>2, <1>3, <1>4, <1>5, <1>6, <1>7, <1>8 DEF SortNext, SortStopped

\* The invariant holds throughout the sort.
LEMMA InvHolds == SortSpec => []SortIInv
<1>1. SortInit => SortIInv
  BY InitInv
<1>2. SortIInv /\ [SortNext]_sortVars => SortIInv'
  BY NextInv
<1> QED
  BY <1>1, <1>2, PTL DEF SortSpec

\* The theorems ----------------------------------------------------------------

\* The frames, counters and buffers of the recursion are well typed.
THEOREM SortTypeCorrect == SortSpec => []SortTypeOK
<1>1. SortIInv => SortTypeOK
  BY DEF SortIInv
<1> QED
  BY <1>1, InvHolds, PTL

\* The recursion keeps to its halves (SortInv), for tables of any size.
THEOREM RecursionSound == SortSpec => []SortInv
<1>1. SortIInv => SortInv
  BY DEF SortIInv
<1> QED
  BY <1>1, InvHolds, PTL

\* When mergeSort returns, its caller's array is the stable arrangement of the
\* symbols of the file, none lost and none doubled.
THEOREM SortCorrect == SortSpec => []SortedWhenDone
<1>1. SortIInv => SortedWhenDone
  BY DEF SortIInv, SortInv, SortedWhenDone, StableSorted, SortedHalf
<1> QED
  BY <1>1, InvHolds, PTL

\* mergeSort frees every buffer it allocates before it returns; a failed malloc
\* leaves the caller's array as the file has it, and allocated what the calls
\* that wait hold and one half at most.
THEOREM BuffersAccounted == SortSpec => []BuffersHeld
<1>1. ASSUME SortIInv, stack = <<>>
      PROVE  DOMAIN mem = {Root}
  <2>1. Depth = 0 /\ Splits = 0 /\ ~crashed
    BY <1>1 DEF Splits, Depth, SortIInv, SortInv
  <2> QED
    BY <1>1, <2>1 DEF SortIInv, SortInv, Root
<1>2. ASSUME SortIInv, crashed
      PROVE  DOMAIN mem \in LeftByFault(Depth) /\ mem[Root] = FileOrder(name)
  <2>1. stack # <<>> /\ Top.pc = "entry" /\ DOMAIN mem \in LeftByFault(Depth)
    BY <1>2 DEF SortIInv, SortInv
  <2>2. PICK D \in Nat \ {0} : D = Depth /\ Top = stack[D] /\ 1 \in 1 .. Depth
    BY <1>2, <2>1, StackOps DEF SortIInv, SortTypeOK, Depth, Top
  <2>3. Linked(1) /\ Filled(1) /\ Len(name) \in Nat
    BY <1>2, <2>2, FrameFacts
  <2>4. stack[1].array = Root /\ stack[1].base = 0 /\ stack[1].size = Len(name)
    BY <2>3 DEF Linked
  <2>5. 1 < Depth \/ stack[1].pc # "merge"
    BY <2>1, <2>2
  <2>6. mem[Root] = Slice(0, Len(name))
    BY <2>3, <2>4, <2>5 DEF Filled
  <2> QED
    BY <2>1, <2>3, <2>6 DEF Slice, FileOrder
<1>3. SortIInv => BuffersHeld
  BY <1>1, <1>2 DEF BuffersHeld, Returned
<1> QED
  BY <1>3, InvHolds, PTL

\* mergeSort implements StableSort: its steps are steps of the recursion nobody
\* sees, and one, the return of the outermost call, that sorts the table.
THEOREM ImplementsStableSort == SortSpec => SortsStably
<1>1. SortInit => Abs!Init
  <2> SUFFICES ASSUME SortInit
               PROVE  Abs!Init
    OBVIOUS
  <2>1. ~Returned
    BY DEF SortInit, Returned
  <2> QED
    BY <2>1 DEF SortInit, Abs!Init, Abs!FileOrder, FileOrder, Abs!Tables, Tables, Abs!Orders, Orders
<1>2. SortIInv' /\ [SortNext]_sortVars => [Abs!Sort]_(Abs!vars)
  <2> SUFFICES ASSUME SortIInv', [SortNext]_sortVars
               PROVE  [Abs!Sort]_(Abs!vars)
    OBVIOUS
  <2>1. name' = name /\ order' = order
    BY DEF SortNext, SortStopped, sortVars, ReturnSmall, SplitAndSortLeft, FaultOnNull, SortRight,
           TakeLeft, TakeRight, FreeAndReturn
  <2>2. CASE ~Returned /\ Returned'
    <3>1. SortedRange(mem'[Root], 0, Len(name), order, name)
      BY <2>1, <2>2 DEF SortIInv, SortInv, SortedHalf
    <3>2. Abs!StableSorted(mem'[Root], order, name)
      BY <3>1 DEF SortedRange, Before, Cmp, Abs!StableSorted, Abs!SortedRange, Abs!Before, Abs!Cmp
    <3> QED
      BY <2>1, <2>2, <3>2 DEF Abs!Sort
  <2>3. CASE ~Returned /\ ~Returned'
    <3>1. Returned' = Returned
      BY <2>3 DEF Returned
    <3> QED
      BY <2>1, <2>3, <3>1 DEF Abs!vars, FileOrder
  <2>4. CASE Returned
    <3>1. UNCHANGED sortVars
      BY <2>4 DEF Returned, Running, SortNext, SortStopped, ReturnSmall, SplitAndSortLeft, FaultOnNull,
                  SortRight, TakeLeft, TakeRight, FreeAndReturn
    <3> QED
      BY <3>1 DEF sortVars, Abs!vars, Returned, FileOrder
  <2> QED
    BY <2>2, <2>3, <2>4
<1> QED
  BY <1>1, <1>2, InvHolds, PTL DEF SortSpec, SortsStably, Abs!Spec

-----------------------------------------------------------------------------
\* Symbol n of the table, as it may be loaded.
LettersOf(n) ==
  LET s == Named(TableOf(file)[n])
  IN IF ReadsOutside(s) THEN {CaseOf(s, x) : x \in {"B", "D", "N", "R", "T"}}
     ELSE {determine_symb(file, s)}
AsLoaded(n, c) ==
  LET s == Named(TableOf(file)[n])
  IN [at |-> n, name |-> s.name, binding |-> s.binding, shndx |-> s.shndx,
      value |-> s.value, isSection |-> s.isSection, char |-> c]
LoadedSymbols == UNION {{AsLoaded(n, c) : c \in LettersOf(n)} : n \in DOMAIN TableOf(file)}

InTableOrder == \A p \in DOMAIN symb : symb[p].at = p
Complete == \A n \in DOMAIN TableOf(file) : \E p \in DOMAIN symb : symb[p].at = n
SortedAs(ord) == \A p, q \in DOMAIN symb : p < q => Before(ord, RankAt, symb[p].at, symb[q].at)

\* The printer an option has, and the symbols that one shows.
Turn(o) ==
  IF o = "UNDEFINED_SYMBOLS_ONLY" THEN 1
  ELSE IF o = "DISPLAY_ALL" THEN 2
  ELSE IF o = "EXTERNAL_ONLY" THEN 3
  ELSE 4
Wanted(s) ==
  CASE option = "UNDEFINED_SYMBOLS_ONLY" -> undifined_symbols_only(s)
    [] option = "DISPLAY_ALL"            -> display_all(s)
    [] option = "EXTERNAL_ONLY"          -> external_only(s)
    [] option \in NoFlagOptions          -> no_flag(s)
WantedLines == {Output(s) : s \in {x \in LoadedSymbols : Wanted(x)}}

ScanInv ==
  /\ file \in Files /\ option \in Options
  /\ pc \in {"scan", "load", "sort", "start", "print", "done", "exit1", "fault"}
  /\ scan \in 0 .. Len(file)
  /\ \A n \in 1 .. scan : file[n].type # "SYMTAB"
  /\ pc = "load" => scan < Len(file) /\ Section(scan).type = "SYMTAB"
  /\ pc # "scan" => TableOf(file) \in Seq(SymbolEntry)

SymbInv ==
  /\ symb \in Seq(LoadedSymbols)
  /\ pc = "scan" => symb = <<>>
  /\ pc \in {"load", "sort"} => InTableOrder
  /\ pc = "load" => Len(symb) <= Len(TableOf(file))
  /\ pc \in {"sort", "start", "print", "done"} => Len(symb) = Len(TableOf(file)) /\ Complete

OrderInv ==
  /\ printer \in 1 .. 5
  /\ pc \in {"scan", "load", "sort"} => printer = 1
  /\ pc = "start" /\ printer <= Turn(option) =>
       IF option \in NoFlagOptions THEN SortedAs(OrderOf[option]) ELSE InTableOrder
  /\ pc = "print" => printer = Turn(option) /\ SortedAs(OrderOf[option])
  /\ pc = "done" => printer = 5

PrintInv ==
  /\ i \in 0 .. Len(symb)
  /\ out \in Seq(WantedLines)
  /\ OutSorted
  /\ pc # "print" /\ printer <= Turn(option) => out = <<>>
  /\ pc = "print" =>
       /\ \A l \in DOMAIN out : \E p \in 1 .. i : out[l].at = symb[p].at
       /\ \A p \in 1 .. i : Wanted(symb[p]) => \E l \in DOMAIN out : out[l].at = symb[p].at
  /\ pc \in {"start", "done"} /\ printer > Turn(option) =>
       \A p \in DOMAIN symb : Wanted(symb[p]) => \E l \in DOMAIN out : out[l].at = symb[p].at

IInv == ScanInv /\ SymbInv /\ OrderInv /\ PrintInv

-----------------------------------------------------------------------------
\* Whatever a symbol and the sections are, its letter is one of nm's.
LEMMA OwnLetter ==
  ASSUME NEW s
  PROVE  get_symb_type_and_visibility(s) \in {"u", "v", "V", "w", "W", "A", "i", "U", "C", "?"}
BY DEF get_symb_type_and_visibility

\* get_symbol_section_char yields one of six letters.
LEMMA SectionLetter ==
  ASSUME NEW sec
  PROVE  get_symbol_section_char(sec) \in {"N", "B", "D", "T", "R", "?"}
BY DEF get_symbol_section_char

\* The ranges of section indices yield one of seven.
LEMMA RangeLetter ==
  ASSUME NEW r
  PROVE  RangeChar(r) \in {"A", "B", "D", "N", "R", "T", "?"}
BY DEF RangeChar

\* What determine_symb chooses before it looks at the binding.
Chosen == {"A", "B", "C", "D", "N", "R", "T", "U", "V", "W", "u", "v", "w", "i"}

\* The letter that was chosen is written small or large as the binding says,
\* but for u, v, w and i.
LEMMA CaseLetters ==
  ASSUME NEW s, NEW c \in Chosen
  PROVE  /\ CaseOf(s, c) \in Letters
         /\ c \in DOMAIN Capitals <=> c \notin {"u", "v", "w", "i"}
         /\ c \in DOMAIN Capitals => c \notin LowerCase /\ ToLower(c) = Capitals[c]
         /\ c \notin DOMAIN Capitals => ToLower(c) = c
         /\ c \in {"u", "v", "w", "i"} => CaseOf(s, c) = c
<1>1. DOMAIN Capitals = {"A", "B", "C", "D", "N", "R", "T", "U", "V", "W"}
  BY DEF Capitals
<1> QED
  BY <1>1 DEF CaseOf, ToLower, Letters, LowerCase, Chosen, Capitals

\* The rows of get_section_name's table: the number of a row is in the range of
\* its letter, and no name stands under two letters.
LEMMA RowLetter ==
  ASSUME NEW g \in DOMAIN SectionNames, NEW row \in SectionNames[g]
  PROVE  RangeChar(row[1]) = g
<1>0. DOMAIN SectionNames = {"A", "B", "D", "N", "R", "T"}
  BY DEF SectionNames
<1>1. CASE g = "A"
  BY <1>1 DEF SectionNames, RangeChar
<1>2. CASE g = "B"
  BY <1>2 DEF SectionNames, RangeChar
<1>3. CASE g = "D"
  BY <1>3 DEF SectionNames, RangeChar
<1>4. CASE g = "N"
  BY <1>4 DEF SectionNames, RangeChar
<1>5. CASE g = "R"
  BY <1>5 DEF SectionNames, RangeChar
<1>6. CASE g = "T"
  BY <1>6 DEF SectionNames, RangeChar
<1> QED
  BY <1>0, <1>1, <1>2, <1>3, <1>4, <1>5, <1>6

\* No section name stands in two rows of the table of get_section_name.
LEMMA NamesApart ==
  ASSUME NEW g \in DOMAIN SectionNames, NEW row \in SectionNames[g], NEW nm \in row[2],
         NEW h \in DOMAIN SectionNames, NEW other \in SectionNames[h], nm \in other[2]
  PROVE  g = h /\ nm \notin EhFrame
<1>0. DOMAIN SectionNames = {"A", "B", "D", "N", "R", "T"}
  BY DEF SectionNames
<1> QED
  BY <1>0, SMTT(60) DEF SectionNames, EhFrame

\* A symbol under the name of a section gets the letter of that name.
LEMMA NamedLetter ==
  ASSUME NEW g \in DOMAIN SectionNames, NEW nm \in NamesUnder(g), NEW flags
  PROVE  RangeChar(get_section_name(flags, nm)) = g /\ nm # NoName /\ nm \in Dotted
<1> DEFINE rows == {row \in UNION {SectionNames[h] : h \in DOMAIN SectionNames} : nm \in row[2]}
<1>1. PICK row \in SectionNames[g] : nm \in row[2]
  BY DEF NamesUnder
<1>2. nm \notin EhFrame
  BY <1>1, NamesApart
<1>3. \A r \in rows : RangeChar(r[1]) = g
  <2> SUFFICES ASSUME NEW h \in DOMAIN SectionNames, NEW r \in SectionNames[h], nm \in r[2]
               PROVE  RangeChar(r[1]) = g
    OBVIOUS
  <2> QED
    BY <1>1, NamesApart, RowLetter
<1>4. row \in rows
  BY <1>1
<1>5. (CHOOSE r \in rows : TRUE) \in rows
  BY <1>4
<1>6. get_section_name(flags, nm) = (CHOOSE r \in rows : TRUE)[1]
  BY <1>2, <1>4 DEF get_section_name
<1>7. nm # NoName /\ nm \in Dotted
  BY DottedAssumption
<1> QED
  BY <1>3, <1>5, <1>6, <1>7

-----------------------------------------------------------------------------
\* What is known of a file, and of its first table.
LEMMA FileFacts ==
  ASSUME ScanInv
  PROVE  /\ file \in Seq(SectionHeader) /\ Len(file) \in Nat /\ DOMAIN file = 1 .. Len(file)
         /\ Len(file) > 0 => Section(0).name = NoName
<1>1. file \in Seq(SectionHeader) /\ (Len(file) > 0 => file[1].name = NoName)
  BY FilesAssumption DEF ScanInv
<1> QED
  BY <1>1 DEF Section

\* The table that is loaded is that of the first section that has one.
LEMMA FirstTable ==
  ASSUME ScanInv, scan < Len(file), Section(scan).type = "SYMTAB"
  PROVE  TableOf(file) = Table /\ TableOf(file) \in Seq(SymbolEntry)
<1>1. scan \in Nat /\ scan + 1 \in 1 .. Len(file) /\ \A n \in 1 .. scan : file[n].type # "SYMTAB"
  BY FileFacts DEF ScanInv
<1>2. scan + 1 \in SymtabsOf(file) /\ \A n \in SymtabsOf(file) : scan + 1 <= n /\ n \in Nat
  BY <1>1, FileFacts DEF SymtabsOf, Section
<1>3. (CHOOSE n \in SymtabsOf(file) : \A m \in SymtabsOf(file) : n <= m) = scan + 1
  BY <1>1, <1>2
<1>4. TableOf(file) = Table
  BY <1>2, <1>3 DEF TableOf, Table, Section
<1>5. file[scan + 1] \in SectionHeader
  BY <1>1, FileFacts
<1> QED
  BY <1>4, <1>5 DEF Table, Section, SectionHeader

\* A file without one has no symbols.
LEMMA NoTable ==
  ASSUME ScanInv, scan = Len(file)
  PROVE  TableOf(file) = <<>> /\ TableOf(file) \in Seq(SymbolEntry)
<1>1. SymtabsOf(file) = {}
  BY FileFacts DEF ScanInv, SymtabsOf
<1> QED
  BY <1>1 DEF TableOf

\* Each option is answered by the printer Turn tells, which shows what is Wanted.
LEMMA TurnOf ==
  ASSUME option \in Options
  PROVE  /\ Len(Printers) = 4 /\ Turn(option) \in 1 .. 4
         /\ \A k \in 1 .. 4 : option \in OptionsOf[Printers[k]] <=> k = Turn(option)
         /\ Turn(option) = 4 <=> option \in NoFlagOptions
         /\ OrderOf[option] = IF option = "NO_SORT" THEN 0 ELSE IF option = "REVERSE_SORT" THEN -1 ELSE 1
BY DEF Options, Printers, OptionsOf, NoFlagOptions, Turn, OrderOf

\* Of the four printers in a row just one handles an option.
LEMMA TurnHere ==
  ASSUME option \in Options, printer \in 1 .. 5
  PROVE  /\ printer <= Len(Printers) <=> printer # 5
         /\ printer <= Len(Printers) => (option \in OptionsOf[Printers[printer]] <=> printer = Turn(option))
         /\ Turn(option) \in 1 .. 4
<1>1. Len(Printers) = 4 /\ Turn(option) \in 1 .. 4
  BY TurnOf
<1>2. \A k \in 1 .. 4 : option \in OptionsOf[Printers[k]] <=> k = Turn(option)
  BY TurnOf
<1> QED
  BY <1>1, <1>2

\* That printer shows a symbol exactly when the option asks for it.
LEMMA ShowsWanted ==
  ASSUME option \in Options, printer = Turn(option), NEW s
  PROVE  Shows(s) <=> Wanted(s)
BY DEF Options, Printers, NoFlagOptions, Turn, Shows, Wanted

\* What is said of the file is said of the same file a step later.
LEMMA SameFile ==
  ASSUME file' = file, option' = option
  PROVE  /\ LoadedSymbols' = LoadedSymbols /\ WantedLines' = WantedLines
         /\ RankAt' = RankAt /\ TableOf(file)' = TableOf(file)
         /\ \A s : Wanted(s)' <=> Wanted(s)
<1>1. \A s : Wanted(s)' <=> Wanted(s)
  BY DEF Wanted, undifined_symbols_only, display_all, external_only, no_flag
<1>2. LoadedSymbols' = LoadedSymbols
  <2>1. TableOf(file)' = TableOf(file)
    BY DEF TableOf, SymtabsOf
  <2>2. \A e : Named(e)' = Named(e)
    BY DEF Named, Fields, Unnamed, Section
  <2>3. \A n : LettersOf(n)' = LettersOf(n)
    BY <2>1, <2>2 DEF LettersOf, ReadsOutside
  <2>4. \A n, c : AsLoaded(n, c)' = AsLoaded(n, c)
    BY <2>1, <2>2 DEF AsLoaded
  <2> QED
    BY <2>1, <2>3, <2>4 DEF LoadedSymbols
<1>3. RankAt' = RankAt
  BY DEF RankAt, TableOf, SymtabsOf, Named, Fields, Unnamed, Section
<1>4. WantedLines' = WantedLines
  BY <1>1, <1>2 DEF WantedLines, Output
<1> QED
  BY <1>1, <1>2, <1>3, <1>4

-----------------------------------------------------------------------------
\* A loaded symbol is the symbol of the table it says, with a letter it may have.
LEMMA LoadedFacts ==
  ASSUME NEW s \in LoadedSymbols
  PROVE  /\ s.at \in DOMAIN TableOf(file) /\ s.char \in LettersOf(s.at) /\ s = AsLoaded(s.at, s.char)
         /\ s.name = Named(TableOf(file)[s.at]).name
<1>1. PICK n \in DOMAIN TableOf(file) : s \in {AsLoaded(n, c) : c \in LettersOf(n)}
  BY DEF LoadedSymbols
<1>2. PICK c \in LettersOf(n) : s = AsLoaded(n, c)
  BY <1>1
<1>3. s.at = n /\ s.char = c /\ s.name = Named(TableOf(file)[n]).name
  BY <1>2 DEF AsLoaded
<1> QED
  BY <1>2, <1>3

\* mergeSort leaves every symbol in symb once, in the order it is asked for.
LEMMA Sorts ==
  ASSUME file' = file, option' = option, TableOf(file) \in Seq(SymbolEntry),
         symb \in Seq(LoadedSymbols), InTableOrder, Len(symb) = Len(TableOf(file)),
         NEW ord, SortSymbols(ord)
  PROVE  symb' \in Seq(LoadedSymbols)' /\ Len(symb') = Len(symb) /\ Complete' /\ SortedAs(ord)'
<1> DEFINE n == Len(symb)
           ranks == [p \in DOMAIN symb |-> NameRank[symb[p].name]]
<1>1. n \in Nat /\ DOMAIN symb = 1 .. n /\ DOMAIN TableOf(file) = 1 .. n
  OBVIOUS
<1>2. ranks = [p \in 1 .. n |-> NameRank[symb[p].name]] /\ Len(ranks) = n
  BY <1>1
<1>3. PICK arr : StableSorted(arr, ord, ranks) /\ symb' = [p \in DOMAIN symb |-> symb[arr[p]]]
  BY DEF SortSymbols
<1> HIDE DEF ranks
<1>4. /\ arr \in [1 .. n -> 1 .. n]
      /\ \A x \in 1 .. n : \E p \in 1 .. n : arr[p] = x
      /\ \A p, q \in 1 .. n : p < q => Before(ord, ranks, arr[p], arr[q])
  BY <1>1, <1>2, <1>3 DEF StableSorted, SortedRange
<1>5. \A x \in 1 .. n : symb[x] \in LoadedSymbols /\ symb[x].at = x
  BY <1>1 DEF InTableOrder
<1>6. symb' = [p \in 1 .. n |-> symb[arr[p]]]
  BY <1>1, <1>3
<1>7. \A p \in 1 .. n : symb'[p] \in LoadedSymbols /\ symb'[p].at = arr[p]
  BY <1>4, <1>5, <1>6
<1>8. symb' \in Seq(LoadedSymbols) /\ Len(symb') = n /\ DOMAIN symb' = 1 .. n
  BY <1>1, <1>6, <1>7
<1>9. \A x \in 1 .. n : ranks[x] = RankAt[x]
  BY <1>1, <1>2, <1>5, LoadedFacts DEF RankAt
<1>10. Complete'
  BY <1>1, <1>4, <1>7, <1>8, SameFile DEF Complete
<1>11. SortedAs(ord)'
  <2> SUFFICES ASSUME NEW p \in 1 .. n, NEW q \in 1 .. n, p < q
               PROVE  Before(ord, RankAt, symb'[p].at, symb'[q].at)
    BY <1>8, SameFile DEF SortedAs
  <2>1. Before(ord, ranks, arr[p], arr[q]) /\ arr[p] \in 1 .. n /\ arr[q] \in 1 .. n
    BY <1>4
  <2> QED
    BY <1>7, <1>9, <2>1 DEF Before, Cmp
<1> QED
  BY <1>8, <1>10, <1>11, SameFile

-----------------------------------------------------------------------------
\* The file and the option stay what they are.
LEMMA FileStays ==
  ASSUME [Next]_vars
  PROVE  file' = file /\ option' = option
BY DEF Next, LoadNext, vars, SkipSection, EnterSymtab, MallocFails, NoSymtab, LoadSymbol, LoadFaults,
       LoadDone, SortByOption, StartPrinter, SortFaults, SkipPrinter, PrintSymbol, SkipSymbol,
       EndPrinter, ListingDone, Stopped

\* The scan for the table.
LEMMA ScanStep ==
  ASSUME ScanInv, [Next]_vars
  PROVE  ScanInv'
<1>0. file' = file /\ option' = option /\ TableOf(file)' = TableOf(file)
  BY FileStays, SameFile
<1>1. CASE SkipSection
  <2>1. scan \in Nat /\ scan' = scan + 1 /\ scan' \in 0 .. Len(file) /\ pc' = pc /\ pc = "scan"
    BY <1>1, FileFacts DEF SkipSection, ScanInv
  <2>2. \A n \in 1 .. scan' : file[n].type # "SYMTAB"
    <3> SUFFICES ASSUME NEW n \in 1 .. scan + 1 PROVE file[n].type # "SYMTAB"
      BY <2>1
    <3>1. n = scan + 1 \/ n \in 1 .. scan
      BY <2>1
    <3> QED
      BY <1>1, <3>1 DEF SkipSection, Section, ScanInv
  <2> QED
    BY <1>0, <2>1, <2>2 DEF ScanInv
<1>2. CASE EnterSymtab \/ MallocFails
  <2>1. /\ pc = "scan" /\ scan < Len(file) /\ Section(scan).type = "SYMTAB"
        /\ pc' \in {"load", "exit1"} /\ scan' = scan
    BY <1>2 DEF EnterSymtab, MallocFails, AtSymtab
  <2>2. TableOf(file) \in Seq(SymbolEntry)
    BY <2>1, FirstTable
  <2>3. Section(scan)' = Section(scan)
    BY <1>0, <2>1 DEF Section
  <2> QED
    BY <1>0, <2>1, <2>2, <2>3 DEF ScanInv
<1>3. CASE NoSymtab
  BY <1>0, <1>3, NoTable DEF NoSymtab, ScanInv
<1>4. ASSUME pc # "scan", scan' = scan,
             pc' = pc \/ pc' \in {"sort", "start", "print", "done", "fault"}
      PROVE  ScanInv'
  <2>1. Section(scan)' = Section(scan)
    BY <1>0, <1>4 DEF Section
  <2> QED
    BY <1>0, <1>4, <2>1 DEF ScanInv
<1>5. CASE LoadSymbol \/ LoadFaults \/ LoadDone
  BY <1>4, <1>5 DEF LoadSymbol, LoadFaults, LoadDone, Loading
<1>6. CASE SortByOption \/ StartPrinter \/ SortFaults \/ SkipPrinter
  BY <1>4, <1>6 DEF SortByOption, StartPrinter, SortFaults, SkipPrinter
<1>7. CASE PrintSymbol \/ SkipSymbol \/ EndPrinter \/ ListingDone
  BY <1>4, <1>7 DEF PrintSymbol, SkipSymbol, EndPrinter, ListingDone
<1>8. CASE Stopped \/ UNCHANGED vars
  BY <1>8, <1>0 DEF Stopped, vars, ScanInv, Section
<1> QED
  BY <1>1, <1>2, <1>3, <1>5, <1>6, <1>7, <1>8 DEF Next, LoadNext

-----------------------------------------------------------------------------
\* What is loaded.
LEMMA LoadsNext ==
  ASSUME ScanInv, SymbInv, LoadSymbol
  PROVE  /\ symb' \in Seq(LoadedSymbols) /\ Len(symb') = Len(symb) + 1 /\ InTableOrder'
         /\ Len(symb') <= Len(TableOf(file))
<1>1. Table = TableOf(file) /\ TableOf(file) \in Seq(SymbolEntry) /\ Len(symb) < Len(Table) /\ pc = "load"
  BY FirstTable DEF LoadSymbol, Loading, ScanInv
<1>2. symb \in Seq(LoadedSymbols) /\ Len(symb) \in Nat
  BY DEF SymbInv
<1>3. Len(symb) + 1 \in DOMAIN TableOf(file)
  BY <1>1, <1>2
<1>4. PICK c \in LettersOf(Len(symb) + 1) : symb' = Append(symb, Loaded(Named(Entry), c))
  BY <1>1 DEF LoadSymbol, LettersOf, Entry
<1>5. Loaded(Named(Entry), c) = AsLoaded(Len(symb) + 1, c)
  BY <1>1 DEF Loaded, AsLoaded, Entry
<1>6. AsLoaded(Len(symb) + 1, c) \in LoadedSymbols
  BY <1>3 DEF LoadedSymbols
<1>7. AsLoaded(Len(symb) + 1, c).at = Len(symb) + 1
  BY DEF AsLoaded
<1>8. symb' = Append(symb, AsLoaded(Len(symb) + 1, c))
  BY <1>4, <1>5
<1> HIDE DEF AsLoaded
<1>9. symb' \in Seq(LoadedSymbols) /\ Len(symb') = Len(symb) + 1 /\ DOMAIN symb' = 1 .. Len(symb) + 1
  BY <1>2, <1>6, <1>8
<1>10. InTableOrder'
  <2>1. \A p \in 1 .. Len(symb) : symb'[p] = symb[p] /\ symb[p].at = p
    BY <1>1, <1>2, <1>8 DEF SymbInv, InTableOrder
  <2>2. symb'[Len(symb) + 1].at = Len(symb) + 1
    BY <1>2, <1>7, <1>8
  <2> QED
    BY <1>2, <1>9, <2>1, <2>2 DEF InTableOrder
<1> QED
  BY <1>1, <1>2, <1>9, <1>10

\* Every step keeps what is said of the loaded symbols.
LEMMA SymbStep ==
  ASSUME IInv, [Next]_vars
  PROVE  SymbInv'
<1> USE DEF IInv
<1>0. /\ file' = file /\ option' = option /\ TableOf(file)' = TableOf(file)
      /\ LoadedSymbols' = LoadedSymbols
  BY FileStays, SameFile
<1>1. CASE LoadSymbol
  BY <1>0, <1>1, LoadsNext DEF LoadSymbol, Loading, SymbInv
<1>2. CASE LoadDone
  <2>1. Len(symb) = Len(TableOf(file)) /\ TableOf(file) \in Seq(SymbolEntry)
    BY <1>2, FirstTable DEF LoadDone, ScanInv
  <2>2. Complete
    BY <1>2, <2>1 DEF LoadDone, SymbInv, InTableOrder, Complete
  <2> QED
    BY <1>0, <1>2, <2>1, <2>2 DEF LoadDone, SymbInv, InTableOrder, Complete
<1>3. CASE NoSymtab
  <2>1. TableOf(file) = <<>> /\ symb = <<>>
    BY <1>3, NoTable DEF NoSymtab, SymbInv
  <2>2. Len(symb) = Len(TableOf(file)) /\ Complete /\ InTableOrder
    BY <2>1 DEF Complete, InTableOrder
  <2> QED
    BY <1>0, <1>3, <2>2 DEF NoSymtab, SymbInv, InTableOrder, Complete
<1>4. CASE EnterSymtab
  <2>1. symb = <<>> /\ Len(symb) = 0 /\ InTableOrder
    BY <1>4 DEF EnterSymtab, AtSymtab, SymbInv, InTableOrder
  <2>2. TableOf(file) \in Seq(SymbolEntry)
    BY <1>4, FirstTable DEF EnterSymtab, AtSymtab
  <2> QED
    BY <1>0, <1>4, <2>1, <2>2 DEF EnterSymtab, SymbInv, InTableOrder
<1>5. ASSUME pc \in {"sort", "start"}, pc' \in {"start", "print"},
             symb' = symb \/ \E ord \in {-1, 0, 1} : InTableOrder /\ SortSymbols(ord)
      PROVE  SymbInv'
  <2>1. /\ symb \in Seq(LoadedSymbols) /\ Len(symb) = Len(TableOf(file)) /\ Complete
        /\ TableOf(file) \in Seq(SymbolEntry)
    BY <1>5 DEF SymbInv, ScanInv
  <2>2. CASE symb' = symb
    BY <1>0, <1>5, <2>1, <2>2 DEF SymbInv, Complete
  <2>3. ASSUME NEW ord \in {-1, 0, 1}, InTableOrder, SortSymbols(ord)
        PROVE  SymbInv'
    <3>1. symb' \in Seq(LoadedSymbols)' /\ Len(symb') = Len(symb) /\ Complete'
      BY <1>0, <2>1, <2>3, Sorts
    <3> QED
      BY <1>0, <1>5, <2>1, <3>1 DEF SymbInv
  <2> QED
    BY <1>5, <2>2, <2>3
<1>6. CASE SortByOption
  <2>1. symb' = symb \/ \E ord \in {-1, 0, 1} : SortSymbols(ord)
    BY <1>6 DEF SortByOption
  <2> QED
    BY <1>5, <1>6, <2>1 DEF SortByOption, SymbInv
<1>7. CASE StartPrinter
  <2>1. printer = Turn(option) /\ Turn(option) \in 1 .. 4
    BY <1>7, TurnHere DEF StartPrinter, ScanInv, OrderInv
  <2>2. CASE option \in NoFlagOptions
    BY <1>5, <1>7, <2>2 DEF StartPrinter
  <2>3. CASE option \notin NoFlagOptions
    BY <1>5, <1>7, <2>1, <2>3 DEF StartPrinter, OrderInv
  <2> QED
    BY <2>2, <2>3
<1>8. CASE MallocFails \/ LoadFaults \/ SortFaults
  BY <1>0, <1>8 DEF MallocFails, LoadFaults, SortFaults, SymbInv
<1>9. CASE SkipSection \/ Stopped \/ UNCHANGED vars
  BY <1>0, <1>9 DEF SkipSection, Stopped, vars, SymbInv, InTableOrder, Complete
<1>10. CASE SkipPrinter \/ EndPrinter \/ ListingDone \/ PrintSymbol \/ SkipSymbol
  BY <1>0, <1>10 DEF SkipPrinter, EndPrinter, ListingDone, PrintSymbol, SkipSymbol, SymbInv, Complete
<1> QED
  BY <1>1, <1>2, <1>3, <1>4, <1>6, <1>7, <1>8, <1>9, <1>10 DEF Next, LoadNext

-----------------------------------------------------------------------------
\* When symb is in the order of the table, and when it is sorted.
LEMMA OrderStep ==
  ASSUME IInv, [Next]_vars
  PROVE  OrderInv'
<1> USE DEF IInv
<1>0. /\ file' = file /\ option' = option /\ RankAt' = RankAt /\ TableOf(file)' = TableOf(file)
      /\ option \in Options /\ printer \in 1 .. 5
  BY FileStays, SameFile DEF ScanInv, OrderInv
<1>a. /\ printer <= Len(Printers) <=> printer # 5
      /\ printer <= Len(Printers) => (option \in OptionsOf[Printers[printer]] <=> printer = Turn(option))
      /\ Turn(option) \in 1 .. 4
  BY <1>0, TurnHere
<1>b. ASSUME symb' = symb
      PROVE  /\ InTableOrder' <=> InTableOrder
             /\ SortedAs(OrderOf[option])' <=> SortedAs(OrderOf[option])
  BY <1>0, <1>b DEF InTableOrder, SortedAs
<1>c. ASSUME pc \in {"sort", "start"}, InTableOrder, NEW ord, SortSymbols(ord)
      PROVE  SortedAs(ord)'
  BY <1>0, <1>c, Sorts DEF ScanInv, SymbInv
<1>d. Turn(option)' = Turn(option) /\ OrderOf[option]' = OrderOf[option]
  BY <1>0
<1>1. CASE SortByOption
  <2>1. pc = "sort" /\ pc' = "start" /\ printer' = printer /\ printer = 1 /\ InTableOrder
    BY <1>1 DEF SortByOption, SymbInv, OrderInv
  <2>2. CASE option \in NoFlagOptions
    <3>1. SortSymbols(OrderOf[option])
      BY <1>1, <2>2 DEF SortByOption, NoFlagOptions, OrderOf, Options
    <3>2. PICK ord : ord = OrderOf[option]
      OBVIOUS
    <3>3. SortedAs(ord)'
      BY <1>c, <2>1, <3>1, <3>2
    <3> QED
      BY <1>0, <1>d, <2>1, <2>2, <3>2, <3>3 DEF OrderInv
  <2>3. CASE option \notin NoFlagOptions
    <3>1. symb' = symb
      BY <1>0, <1>1, <2>3 DEF SortByOption, NoFlagOptions, Options
    <3> QED
      BY <1>0, <1>b, <2>1, <2>3, <3>1 DEF OrderInv
  <2> QED
    BY <2>2, <2>3
<1>2. CASE StartPrinter
  <2>1. printer = Turn(option) /\ pc = "start" /\ pc' = "print" /\ printer' = printer
    BY <1>a, <1>2 DEF StartPrinter
  <2>2. SortedAs(OrderOf[option])'
    <3>1. CASE option \in NoFlagOptions
      BY <1>2, <1>a, <1>b, <2>1, <3>1 DEF StartPrinter, OrderInv
    <3>2. CASE option \notin NoFlagOptions
      <4>1. OrderOf[option] = 1
        BY <1>0, <3>2 DEF OrderOf, Options, NoFlagOptions
      <4>2. SortSymbols(1) /\ InTableOrder
        BY <1>2, <1>a, <2>1, <3>2 DEF StartPrinter, OrderInv
      <4>3. SortedAs(1)'
        BY <1>c, <2>1, <4>2
      <4> QED
        BY <1>0, <4>1, <4>3
    <3> QED
      BY <3>1, <3>2
  <2> QED
    BY <1>0, <1>d, <2>1, <2>2 DEF OrderInv
<1>3. CASE SkipPrinter
  <2>1. /\ pc = "start" /\ pc' = "start" /\ symb' = symb /\ printer' = printer + 1
        /\ printer \in 1 .. 4 /\ printer # Turn(option)
    BY <1>0, <1>a, <1>3 DEF SkipPrinter
  <2>2. printer' \in 1 .. 5 /\ (printer' <= Turn(option) => printer <= Turn(option))
    BY <1>a, <2>1
  <2> QED
    BY <1>0, <1>b, <1>d, <2>1, <2>2 DEF OrderInv
<1>4. CASE EndPrinter
  <2>1. printer = Turn(option) /\ printer' = Turn(option) + 1 /\ pc' = "start"
    BY <1>4 DEF EndPrinter, OrderInv
  <2> QED
    BY <1>0, <1>a, <2>1 DEF OrderInv
<1>5. CASE ListingDone
  BY <1>0, <1>a, <1>5 DEF ListingDone, OrderInv
<1>6. CASE SkipSection \/ EnterSymtab \/ NoSymtab \/ LoadSymbol \/ LoadDone
  BY <1>0, <1>6 DEF SkipSection, EnterSymtab, AtSymtab, NoSymtab, LoadSymbol, Loading, LoadDone, OrderInv
<1>7. CASE MallocFails \/ LoadFaults \/ SortFaults
  BY <1>0, <1>7 DEF MallocFails, LoadFaults, SortFaults, OrderInv
<1>8. CASE PrintSymbol \/ SkipSymbol \/ Stopped \/ UNCHANGED vars
  BY <1>0, <1>b, <1>d, <1>8 DEF PrintSymbol, SkipSymbol, Stopped, vars, OrderInv
<1> QED
  BY <1>1, <1>2, <1>3, <1>4, <1>5, <1>6, <1>7, <1>8 DEF Next, LoadNext

-----------------------------------------------------------------------------
\* What is printed.
LEMMA PrintStep ==
  ASSUME IInv, [Next]_vars
  PROVE  PrintInv'
<1> USE DEF IInv
<1>0. /\ file' = file /\ option' = option /\ RankAt' = RankAt /\ WantedLines' = WantedLines
      /\ option \in Options /\ printer \in 1 .. 5 /\ Turn(option)' = Turn(option)
      /\ \A s : Wanted(s)' <=> Wanted(s)
  BY FileStays, SameFile DEF ScanInv, OrderInv
<1>a. /\ printer <= Len(Printers) <=> printer # 5
      /\ printer <= Len(Printers) => (option \in OptionsOf[Printers[printer]] <=> printer = Turn(option))
      /\ Turn(option) \in 1 .. 4
  BY <1>0, TurnHere
<1>b. /\ symb \in Seq(LoadedSymbols) /\ Len(symb) \in Nat /\ DOMAIN symb = 1 .. Len(symb)
      /\ i \in 0 .. Len(symb) /\ i \in Nat
  BY DEF SymbInv, PrintInv
<1>c. ASSUME out' = out
      PROVE  OutSorted' /\ out' \in Seq(WantedLines)'
  BY <1>0, <1>c DEF OutSorted, PrintInv
<1>1. CASE PrintSymbol
  <2> DEFINE line == Output(symb[i + 1])
  <2>1. /\ pc = "print" /\ pc' = "print" /\ out' = Append(out, line) /\ i' = i + 1 /\ symb' = symb
        /\ i < Len(symb) /\ Shows(symb[i + 1]) /\ printer = Turn(option) /\ printer' = printer
    BY <1>1 DEF PrintSymbol, OrderInv
  <2>2. i + 1 \in DOMAIN symb /\ symb[i + 1] \in LoadedSymbols
    BY <1>b, <2>1
  <2>3. Wanted(symb[i + 1])
    BY <1>0, <2>1, ShowsWanted
  <2>4. line \in WantedLines /\ line.at = symb[i + 1].at
    BY <2>2, <2>3 DEF WantedLines, Output
  <2> HIDE DEF line
  <2>5. out \in Seq(WantedLines) /\ Len(out) \in Nat /\ DOMAIN out = 1 .. Len(out)
    BY DEF PrintInv
  <2>6. /\ out' \in Seq(WantedLines) /\ DOMAIN out' = 1 .. Len(out) + 1 /\ out'[Len(out) + 1] = line
        /\ \A l \in DOMAIN out : out'[l] = out[l]
    BY <2>1, <2>4, <2>5
  <2>7. OutSorted'
    <3> SUFFICES ASSUME NEW p \in DOMAIN out', NEW q \in DOMAIN out', p < q
                 PROVE  Before(OrderOf[option], RankAt, out'[p].at, out'[q].at)
      BY <1>0 DEF OutSorted
    <3>1. p \in DOMAIN out /\ (q \in DOMAIN out \/ q = Len(out) + 1)
      BY <2>5, <2>6
    <3>2. CASE q \in DOMAIN out
      BY <2>6, <3>1, <3>2 DEF PrintInv, OutSorted
    <3>3. CASE q = Len(out) + 1
      <4>1. PICK k \in 1 .. i : out[p].at = symb[k].at
        BY <2>1, <3>1 DEF PrintInv
      <4>2. k \in DOMAIN symb /\ k < i + 1
        BY <1>b, <4>1
      <4>3. Before(OrderOf[option], RankAt, symb[k].at, symb[i + 1].at)
        BY <2>1, <2>2, <4>2 DEF OrderInv, SortedAs
      <4> QED
        BY <2>4, <2>6, <3>1, <3>3, <4>1, <4>3
    <3> QED
      BY <3>1, <3>2, <3>3
  <2>8. \A l \in DOMAIN out' : \E p \in 1 .. i + 1 : out'[l].at = symb[p].at
    <3> SUFFICES ASSUME NEW l \in DOMAIN out'
                 PROVE  \E p \in 1 .. i + 1 : out'[l].at = symb[p].at
      OBVIOUS
    <3>1. CASE l \in DOMAIN out
      <4>1. PICK p \in 1 .. i : out[l].at = symb[p].at
        BY <2>1, <3>1 DEF PrintInv
      <4> QED
        BY <1>b, <2>6, <3>1, <4>1
    <3>2. CASE l = Len(out) + 1
      BY <1>b, <2>4, <2>6, <3>2
    <3> QED
      BY <2>5, <2>6, <3>1, <3>2
  <2>9. \A p \in 1 .. i + 1 : Wanted(symb[p]) => \E l \in DOMAIN out' : out'[l].at = symb[p].at
    <3> SUFFICES ASSUME NEW p \in 1 .. i + 1, Wanted(symb[p])
                 PROVE  \E l \in DOMAIN out' : out'[l].at = symb[p].at
      OBVIOUS
    <3>1. CASE p \in 1 .. i
      <4>1. PICK l \in DOMAIN out : out[l].at = symb[p].at
        BY <2>1, <3>1 DEF PrintInv
      <4> QED
        BY <2>5, <2>6, <4>1
    <3>2. CASE p = i + 1
      BY <2>4, <2>5, <2>6, <3>2
    <3> QED
      BY <1>b, <3>1, <3>2
  <2> QED
    BY <1>0, <1>b, <2>1, <2>6, <2>7, <2>8, <2>9 DEF PrintInv
<1>2. CASE SkipSymbol
  <2>1. /\ pc = "print" /\ pc' = "print" /\ out' = out /\ i' = i + 1 /\ symb' = symb
        /\ i < Len(symb) /\ ~Shows(symb[i + 1]) /\ printer = Turn(option) /\ printer' = printer
    BY <1>2 DEF SkipSymbol, OrderInv
  <2>2. ~Wanted(symb[i + 1])
    BY <1>0, <2>1, ShowsWanted
  <2>3. \A l \in DOMAIN out : \E p \in 1 .. i + 1 : out[l].at = symb[p].at
    <3> SUFFICES ASSUME NEW l \in DOMAIN out
                 PROVE  \E p \in 1 .. i + 1 : out[l].at = symb[p].at
      OBVIOUS
    <3>1. PICK p \in 1 .. i : out[l].at = symb[p].at
      BY <2>1 DEF PrintInv
    <3> QED
      BY <1>b, <3>1
  <2>4. \A p \in 1 .. i + 1 : Wanted(symb[p]) => \E l \in DOMAIN out : out[l].at = symb[p].at
    <3> SUFFICES ASSUME NEW p \in 1 .. i + 1, Wanted(symb[p])
                 PROVE  \E l \in DOMAIN out : out[l].at = symb[p].at
      OBVIOUS
    <3>1. p \in 1 .. i
      BY <1>b, <2>2
    <3> QED
      BY <2>1, <3>1 DEF PrintInv
  <2>5. i + 1 \in 0 .. Len(symb)
    BY <1>b, <2>1
  <2> QED
    BY <1>0, <1>c, <2>1, <2>3, <2>4, <2>5 DEF PrintInv
<1>3. CASE StartPrinter
  <2>1. printer = Turn(option) /\ pc = "start" /\ pc' = "print" /\ i' = 0 /\ out' = out
    BY <1>a, <1>3 DEF StartPrinter
  <2>2. out = <<>> /\ DOMAIN out = {}
    BY <1>a, <2>1 DEF PrintInv
  <2>3. Len(symb') \in Nat
    <3>1. SymbInv'
      BY SymbStep
    <3> QED
      BY <3>1 DEF SymbInv
  <2> QED
    BY <1>0, <1>c, <2>1, <2>2, <2>3 DEF PrintInv
<1>4. CASE EndPrinter
  <2>1. /\ pc = "print" /\ i = Len(symb) /\ printer = Turn(option) /\ printer' = printer + 1
        /\ pc' = "start" /\ symb' = symb /\ out' = out /\ i' = i
    BY <1>4 DEF EndPrinter, OrderInv
  <2>2. \A p \in DOMAIN symb : Wanted(symb[p]) => \E l \in DOMAIN out : out[l].at = symb[p].at
    BY <1>b, <2>1 DEF PrintInv
  <2> QED
    BY <1>0, <1>a, <1>b, <1>c, <2>1, <2>2 DEF PrintInv
<1>5. CASE SkipPrinter
  <2>1. /\ pc = "start" /\ pc' = "start" /\ symb' = symb /\ out' = out /\ i' = i
        /\ printer' = printer + 1 /\ printer # Turn(option)
    BY <1>a, <1>5 DEF SkipPrinter
  <2>2. printer' <= Turn(option) <=> printer <= Turn(option)
    BY <1>0, <1>a, <2>1
  <2>3. printer' > Turn(option) <=> printer > Turn(option)
    BY <1>0, <1>a, <2>1
  <2> QED
    BY <1>0, <1>b, <1>c, <2>1, <2>2, <2>3 DEF PrintInv
<1>6. CASE ListingDone
  BY <1>0, <1>b, <1>c, <1>6 DEF ListingDone, PrintInv
<1>7. ASSUME pc \notin {"start", "print", "done"}, pc' \notin {"print", "done"}, printer' = printer,
             pc' = "start" => printer <= Turn(option),
             UNCHANGED <<i, out>>, Len(symb') \in Nat, Len(symb') >= Len(symb)
      PROVE  PrintInv'
  <2>1. i' \in 0 .. Len(symb')
    BY <1>b, <1>7
  <2>2. ~(printer > Turn(option) /\ printer <= Turn(option))
    BY <1>0, <1>a
  <2> QED
    BY <1>0, <1>c, <1>7, <2>1, <2>2 DEF PrintInv
<1>8. CASE SkipSection \/ EnterSymtab \/ MallocFails \/ NoSymtab \/ LoadFaults \/ LoadDone
  BY <1>b, <1>7, <1>8 DEF SkipSection, EnterSymtab, MallocFails, NoSymtab, LoadFaults, LoadDone, AtSymtab, Loading
<1>9. CASE LoadSymbol
  BY <1>b, <1>7, <1>9, LoadsNext DEF LoadSymbol, Loading
<1>10. CASE SortByOption
  <2>1. pc = "sort" /\ pc' = "start" /\ printer' = printer /\ printer = 1 /\ UNCHANGED <<i, out>>
    BY <1>10 DEF SortByOption, OrderInv
  <2>2. SymbInv' /\ TableOf(file)' = TableOf(file)
    BY <1>0, SymbStep, SameFile
  <2>3. Len(symb') = Len(symb)
    BY <2>1, <2>2 DEF SymbInv
  <2> QED
    BY <1>a, <1>b, <1>7, <2>1, <2>3
<1>11. CASE SortFaults
  BY <1>0, <1>b, <1>c, <1>11 DEF SortFaults, PrintInv
<1>12. CASE Stopped \/ UNCHANGED vars
  BY <1>0, <1>b, <1>c, <1>12, SMTT(30) DEF Stopped, vars, PrintInv
<1> QED
  BY <1>1, <1>2, <1>3, <1>4, <1>5, <1>6, <1>8, <1>9, <1>10, <1>11, <1>12 DEF Next, LoadNext

-----------------------------------------------------------------------------
\* The invariant holds when the table is handed over.
LEMMA InitOK ==
  ASSUME Init
  PROVE  IInv
<1>1. ScanInv /\ OrderInv
  BY FilesAssumption DEF Init, ScanInv, OrderInv
<1>2. SymbInv
  BY DEF Init, SymbInv
<1>3. OutSorted /\ out = <<>> /\ symb = <<>> /\ i = 0 /\ pc = "scan"
  BY DEF Init, OutSorted
<1>4. PrintInv
  BY <1>3 DEF PrintInv
<1> QED
  BY <1>1, <1>2, <1>4 DEF IInv

\* The invariant holds of every run of Listing.
THEOREM Invariance == Spec => []IInv
<1>1. IInv /\ [Next]_vars => IInv'
  BY ScanStep, SymbStep, OrderStep, PrintStep DEF IInv
<1> QED
  BY <1>1, InitOK, PTL DEF Spec

-----------------------------------------------------------------------------
\* Where a letter comes from: a symbol with a name of its own has its own letter,
\* or the letter of its section when it has none.
LEMMA LetterCases ==
  ASSUME NEW n \in DOMAIN TableOf(file), NEW c \in LettersOf(n)
  PROVE  LET s   == Named(TableOf(file)[n])
             own == get_symb_type_and_visibility(s)
         IN \E x \in Chosen :
              /\ c = CaseOf(s, x)
              /\ s.isSection /\ s.name \in Dotted /\ ~ReadsOutside(s) =>
                   x = Resolved(get_symb_based_on_section(SectionOf(file, s), s.name))
              /\ ~(s.isSection /\ s.name \in Dotted) =>
                   IF own = "?"
                     THEN /\ x \in {"B", "D", "N", "R", "T"}
                          /\ ~ReadsOutside(s) =>
                               x = Resolved(get_symbol_section_char(SectionOf(file, s)))
                     ELSE x = own
              /\ x \in {"U", "u", "V", "v", "W", "w", "i", "C"} => x = own
<1> DEFINE s   == Named(TableOf(file)[n])
           own == get_symb_type_and_visibility(s)
           sec == SectionOf(file, s)
           dot == s.isSection /\ s.name \in Dotted
<1>1. CASE ReadsOutside(s)
  <2>1. own = "?"
    BY <1>1 DEF ReadsOutside, NeedsSection
  <2>2. PICK x \in {"B", "D", "N", "R", "T"} : c = CaseOf(s, x)
    BY <1>1 DEF LettersOf
  <2> HIDE DEF s, own
  <2> QED
    BY <1>1, <2>1, <2>2 DEF Chosen, s, own
<1>2. CASE ~ReadsOutside(s)
  <2> DEFINE chosen == IF dot THEN get_symb_based_on_section(sec, s.name)
                       ELSE IF own = "?" THEN get_symbol_section_char(sec)
                       ELSE own
  <2>1. c = CaseOf(s, Resolved(chosen))
    BY <1>2 DEF LettersOf, determine_symb
  <2>2. /\ own \in {"u", "v", "V", "w", "W", "A", "i", "U", "C", "?"}
        /\ get_symbol_section_char(sec) \in {"N", "B", "D", "T", "R", "?"}
        /\ get_symb_based_on_section(sec, s.name) \in {"A", "B", "D", "N", "R", "T", "?"}
    BY OwnLetter, SectionLetter, RangeLetter DEF get_symb_based_on_section
  <2> HIDE DEF s, own, sec
  <2>3. Resolved(chosen) \in Chosen
    BY <2>2 DEF Resolved, Chosen
  <2>4. ~dot => IF own = "?" THEN /\ Resolved(chosen) \in {"B", "D", "N", "R", "T"}
                                  /\ Resolved(chosen) = Resolved(get_symbol_section_char(sec))
                ELSE Resolved(chosen) = own
    BY <2>2 DEF Resolved
  <2>5. dot => Resolved(chosen) = Resolved(get_symb_based_on_section(sec, s.name))
    OBVIOUS
  <2>6. Resolved(chosen) \in {"U", "u", "V", "v", "W", "w", "i", "C"} => Resolved(chosen) = own
    BY <2>2 DEF Resolved
  <2> QED
    BY <1>2, <2>1, <2>3, <2>4, <2>5, <2>6 DEF s, own, sec
<1> QED
  BY <1>1, <1>2

\* The fields of a loaded symbol, in terms of its entry in the table.
LEMMA EntryFacts ==
  ASSUME NEW s \in LoadedSymbols
  PROVE  LET e == TableOf(file)[s.at]
         IN /\ s.binding = e.binding /\ s.shndx = e.shndx /\ s.value = e.value
            /\ s.isSection = Unnamed(e)
            /\ s.name = IF Unnamed(e) THEN Section(e.shndx).name ELSE e.name
            /\ s.name = Named(e).name /\ s.binding = Named(e).binding
            /\ s.isSection = Named(e).isSection /\ s.shndx = Named(e).shndx
            /\ s.value = Named(e).value /\ e.type = Named(e).type
            /\ e.visibility = Named(e).visibility
BY LoadedFacts DEF AsLoaded, Named, Fields

\* What was loaded comes from an entry of the table.
LEMMA EntryTypes ==
  ASSUME TableOf(file) \in Seq(SymbolEntry), NEW s \in LoadedSymbols
  PROVE  TableOf(file)[s.at] \in SymbolEntry /\ TableOf(file)[s.at].shndx \in Nat
<1>1. s.at \in DOMAIN TableOf(file)
  BY LoadedFacts
<1>2. TableOf(file)[s.at] \in SymbolEntry
  BY <1>1
<1> QED
  BY <1>2 DEF SymbolEntry

\* A line is the line of a loaded symbol that its printer shows.
LEMMA LineFacts ==
  ASSUME PrintInv, NEW l \in Lines
  PROVE  \E s \in LoadedSymbols : l = Output(s) /\ Wanted(s)
<1>1. l \in WantedLines
  BY DEF PrintInv, Lines
<1> QED
  BY <1>1 DEF WantedLines

\* Types: what is loaded are symbols of the table of the file, each under a
\* letter of nm, and so are the lines.
THEOREM TypeCorrect == Spec => []TypeOK
<1>1. ASSUME IInv PROVE TypeOK
  <2>1. \A s \in LoadedSymbols : s.at \in DOMAIN TableOf(file) /\ s.char \in Letters
    <3> SUFFICES ASSUME NEW s \in LoadedSymbols
                 PROVE  s.at \in DOMAIN TableOf(file) /\ s.char \in Letters
      OBVIOUS
    <3>1. s.at \in DOMAIN TableOf(file) /\ s.char \in LettersOf(s.at)
      BY LoadedFacts
    <3>2. PICK x \in Chosen : s.char = CaseOf(Named(TableOf(file)[s.at]), x)
      BY <3>1, LetterCases
    <3> QED
      BY <3>1, <3>2, CaseLetters
  <2>2. \A p \in DOMAIN symb : symb[p] \in LoadedSymbols
    BY <1>1 DEF IInv, SymbInv
  <2>3. \A l \in Lines : \E s \in LoadedSymbols : l.at = s.at
    BY <1>1, LineFacts DEF IInv, Output
  <2>4. printer \in 1 .. Len(Printers) + 1
    <3>1. printer \in 1 .. 5
      BY <1>1 DEF IInv, OrderInv
    <3>2. Len(Printers) + 1 = 5
      BY DEF Printers
    <3> QED
      BY <3>1, <3>2
  <2> QED
    BY <1>1, <2>1, <2>2, <2>3, <2>4 DEF TypeOK, IInv, ScanInv, PrintInv
<1> QED
  BY <1>1, Invariance, PTL

\* At any moment the lines are in the order of the option, equal names in the
\* order of the table.
THEOREM SortedOutput == Spec => []OutSorted
<1>1. IInv => OutSorted
  BY DEF IInv, PrintInv
<1> QED
  BY <1>1, Invariance, PTL

-----------------------------------------------------------------------------
\* What a printer shows is what its option promises.
LEMMA WantedPromised ==
  ASSUME ScanInv, pc # "scan", option # "EXTERNAL_ONLY", NEW s \in LoadedSymbols
  PROVE  Wanted(s) <=> Promised(option, TableOf(file)[s.at])
<1> DEFINE e == TableOf(file)[s.at]
<1>1. /\ s.shndx = e.shndx /\ s.value = e.value /\ s.isSection = Unnamed(e)
      /\ s.name = IF Unnamed(e) THEN Section(e.shndx).name ELSE e.name
      /\ s.name = Named(e).name /\ e.binding = Named(e).binding
      /\ e.shndx = Named(e).shndx /\ Unnamed(e) = Named(e).isSection
  BY EntryFacts
<1>2. s.shndx = UNDEF => (s.name # NoName <=> e.name # NoName)
  BY <1>1, FileFacts DEF Unnamed, UNDEF
<1>4. CASE option = "UNDEFINED_SYMBOLS_ONLY"
  <2>1. Wanted(s) <=> s.shndx = UNDEF /\ s.name # NoName
    BY <1>4 DEF Wanted, NoFlagOptions, undifined_symbols_only
  <2> HIDE DEF e
  <2>2. Promised(option, e) <=> e.name # NoName /\ e.shndx = UNDEF
    BY <1>4 DEF Promised, NoFlagOptions
  <2> QED
    BY <1>1, <1>2, <2>1, <2>2 DEF e
<1>5. CASE option = "DISPLAY_ALL"
  <2>1. Wanted(s) <=> ~(s.shndx = UNDEF /\ s.name = NoName)
    BY <1>5 DEF Wanted, NoFlagOptions, display_all
  <2> HIDE DEF e
  <2>2. Promised(option, e) <=> e.name # NoName \/ e.shndx # UNDEF
    BY <1>5 DEF Promised, NoFlagOptions
  <2> QED
    BY <1>1, <1>2, <2>1, <2>2 DEF e
<1>6. CASE option \in NoFlagOptions
  <2>1. (Wanted(s) <=> no_flag(s)) /\ option \in {"NO_SORT", "SORT_ORDER", "REVERSE_SORT"}
    BY <1>6 DEF Wanted, NoFlagOptions
  <2>2. ASSUME ~Unnamed(e)
        PROVE  s.char = "a" <=> e.binding = "LOCAL" /\ e.shndx = ABS /\ e.name \notin DebugNames
    <3>1. s.at \in DOMAIN TableOf(file) /\ s.char \in LettersOf(s.at)
      BY LoadedFacts
    <3>2. PICK x \in Chosen :
            /\ s.char = CaseOf(Named(e), x)
            /\ IF get_symb_type_and_visibility(Named(e)) = "?" THEN x \in {"B", "D", "N", "R", "T"}
               ELSE x = get_symb_type_and_visibility(Named(e))
      BY <1>1, <2>2, <3>1, LetterCases
    <3>3. s.char = "a" <=> x = "A" /\ e.binding = "LOCAL" /\ e.name \notin DebugNames
      BY <1>1, <2>2, <3>2 DEF CaseOf, ToLower, Capitals, Chosen
    <3>4. e.binding = "LOCAL" => (x = "A" <=> e.shndx = ABS)
      BY <1>1, <3>2 DEF get_symb_type_and_visibility, ABS, UNDEF, COMMON
    <3> QED
      BY <3>3, <3>4
  <2>3. no_flag(s) <=> ~Unnamed(e) /\ ~(e.name = NoName /\ e.value = 0)
                       /\ ~(s.char = "a" /\ e.value = 0)
    BY <1>1 DEF no_flag
  <2>4. Promised(option, e) <=>
           /\ ~Unnamed(e) /\ ~(e.name = NoName /\ e.value = 0)
           /\ ~(e.binding = "LOCAL" /\ e.shndx = ABS /\ e.value = 0 /\ e.name \notin DebugNames)
    <3>1. e.name # NoName \/ (e.shndx >= Len(file) /\ e.value # 0) <=>
            ~Unnamed(e) /\ ~(e.name = NoName /\ e.value = 0)
      <4>1. e.shndx \in Nat /\ Len(file) \in Nat
        BY EntryTypes, FileFacts DEF ScanInv
      <4> QED
        BY <4>1 DEF Unnamed
    <3> HIDE DEF e
    <3> QED
      BY <2>1, <3>1 DEF Promised, NoFlagOptions
  <2> QED
    BY <2>1, <2>2, <2>3, <2>4
<1> QED
  BY <1>4, <1>5, <1>6 DEF ScanInv, Options, NoFlagOptions

\* Each option lists exactly the symbols it promises, for every file.
THEOREM ExactListing == Spec => []ListsExactly
<1>1. ASSUME IInv, pc = "done", option # "EXTERNAL_ONLY"
      PROVE  {l.at : l \in Lines} = {p \in DOMAIN TableOf(file) : Promised(option, TableOf(file)[p])}
  <2>1. ScanInv /\ SymbInv /\ OrderInv /\ PrintInv /\ option \in Options
    BY <1>1 DEF IInv, ScanInv
  <2>2. \A p \in DOMAIN symb : Wanted(symb[p]) => \E k \in DOMAIN out : out[k].at = symb[p].at
    <3>1. printer > Turn(option)
      BY <1>1, <2>1, TurnOf DEF OrderInv
    <3> QED
      BY <1>1, <2>1, <3>1 DEF PrintInv
  <2>3. ASSUME NEW l \in Lines
        PROVE  l.at \in DOMAIN TableOf(file) /\ Promised(option, TableOf(file)[l.at])
    <3>1. PICK s \in LoadedSymbols : l = Output(s) /\ Wanted(s)
      BY <2>1, LineFacts
    <3>2. l.at = s.at
      BY <3>1 DEF Output
    <3> QED
      BY <1>1, <2>1, <3>1, <3>2, LoadedFacts, WantedPromised
  <2>4. ASSUME NEW p \in DOMAIN TableOf(file), Promised(option, TableOf(file)[p])
        PROVE  \E l \in Lines : l.at = p
    <3>1. PICK q \in DOMAIN symb : symb[q].at = p
      BY <1>1, <2>1 DEF SymbInv, Complete
    <3>2. symb[q] \in LoadedSymbols
      BY <2>1 DEF SymbInv
    <3>3. Wanted(symb[q])
      BY <1>1, <2>1, <2>4, <3>1, <3>2, WantedPromised
    <3> QED
      BY <2>2, <3>1, <3>3 DEF Lines
  <2> QED
    BY <2>3, <2>4
<1>2. IInv => ListsExactly
  BY <1>1 DEF ListsExactly
<1> QED
  BY <1>2, Invariance, PTL

\* -g lists no local symbol, and every global one that is undefined, absolute or
\* in a section that is loaded, written or run.
THEOREM ExternalListing == Spec => []ListsExternal
<1>1. ASSUME IInv, option = "EXTERNAL_ONLY", NEW l \in Lines
      PROVE  Source(l).binding # "LOCAL"
  <2>1. PICK s \in LoadedSymbols : l = Output(s) /\ Wanted(s)
    BY <1>1, LineFacts DEF IInv
  <2>2. s.binding # "LOCAL"
    BY <1>1, <2>1 DEF Wanted, external_only, NoFlagOptions
  <2>3. Source(l) = TableOf(file)[s.at]
    BY <2>1 DEF Source, Output
  <2> QED
    BY <2>2, <2>3, EntryFacts
<1>2. ASSUME IInv, option = "EXTERNAL_ONLY", pc = "done", NEW p \in DOMAIN TableOf(file),
             TableOf(file)[p].binding = "GLOBAL", TableOf(file)[p].name # NoName,
             \/ TableOf(file)[p].shndx \in {UNDEF, ABS}
             \/ /\ TableOf(file)[p].shndx # COMMON /\ TableOf(file)[p].shndx < Len(file)
                /\ Section(TableOf(file)[p].shndx).flags # {}
      PROVE  \E l \in Lines : l.at = p
  <2> DEFINE e == TableOf(file)[p]
  <2>1. ScanInv /\ SymbInv /\ OrderInv /\ PrintInv /\ option \in Options
    BY <1>2 DEF IInv, ScanInv
  <2>2. PICK q \in DOMAIN symb : symb[q].at = p
    BY <1>2, <2>1 DEF SymbInv, Complete
  <2>3. symb[q] \in LoadedSymbols
    BY <2>1 DEF SymbInv
  <2>4. /\ symb[q].binding = "GLOBAL" /\ Named(e).binding = "GLOBAL" /\ ~Named(e).isSection
        /\ Named(e).shndx = e.shndx /\ symb[q].char \in LettersOf(p)
    <3>1. ~Unnamed(e)
      BY <1>2 DEF Unnamed
    <3> QED
      BY <1>2, <2>2, <2>3, <3>1, EntryFacts, LoadedFacts
  <2> DEFINE own == get_symb_type_and_visibility(Named(e))
             sec == SectionOf(file, Named(e))
  <2>5. PICK x \in Chosen :
          /\ symb[q].char = CaseOf(Named(e), x)
          /\ IF own = "?" THEN ~ReadsOutside(Named(e)) => x = Resolved(get_symbol_section_char(sec))
             ELSE x = own
    BY <1>2, <2>4, LetterCases
  <2>6. symb[q].char = x
    BY <2>4, <2>5 DEF CaseOf
  <2>7. x \in {"R", "D", "B", "U", "T", "A", "i"}
    <3>1. CASE e.shndx \in {UNDEF, ABS}
      <4>1. own \in {"U", "A", "i"}
        BY <2>4, <3>1 DEF get_symb_type_and_visibility, UNDEF, ABS
      <4> HIDE DEF own
      <4> QED
        BY <2>5, <4>1
    <3>2. CASE e.shndx \notin {UNDEF, ABS}
      <4>1. own \in {"i", "?"}
        BY <1>2, <2>4, <3>2 DEF get_symb_type_and_visibility
      <4>2. ~ReadsOutside(Named(e)) /\ sec.flags # {}
        <5>1. e.shndx < Len(file) /\ Section(e.shndx).flags # {}
          BY <1>2, <3>2
        <5>2. e.shndx \in Nat /\ Len(file) \in Nat
          BY <1>2, <2>1, <2>2, <2>3, EntryTypes, FileFacts DEF ScanInv
        <5>3. ~(e.shndx >= Len(file))
          BY <5>1, <5>2
        <5> QED
          BY <2>4, <5>1, <5>3 DEF ReadsOutside, SectionOf, Section
      <4>3. get_symbol_section_char(sec) \in {"B", "D", "T", "R", "?"}
        BY <4>2 DEF get_symbol_section_char
      <4> HIDE DEF own, sec
      <4> QED
        BY <2>5, <4>1, <4>2, <4>3 DEF Resolved
    <3> QED
      BY <3>1, <3>2
  <2>8. Wanted(symb[q])
    BY <1>2, <2>4, <2>6, <2>7 DEF Wanted, external_only, NoFlagOptions
  <2>9. \E k \in DOMAIN out : out[k].at = symb[q].at
    <3>1. printer > Turn(option)
      BY <1>2, <2>1, TurnOf DEF OrderInv
    <3> QED
      BY <1>2, <2>1, <2>8, <3>1 DEF PrintInv
  <2> QED
    BY <2>2, <2>9 DEF Lines
<1>3. IInv => ListsExternal
  BY <1>1, <1>2 DEF ListsExternal
<1> QED
  BY <1>3, Invariance, PTL

\* The letter of a line agrees with its value column and with the binding of its
\* symbol.
THEOREM LettersCorrect == Spec => []LettersAgree
<1>1. ASSUME IInv, NEW l \in Lines
      PROVE  /\ l.blank => l.char \in {"U", "u", "v", "w", "i"}
             /\ l.char \in {"U", "v", "w"} => l.blank
             /\ l.char \notin {"u", "v", "w", "i"} /\ l.name \notin DebugNames =>
                  (l.char \in LowerCase <=> Source(l).binding = "LOCAL")
  <2>1. PICK s \in LoadedSymbols : l = Output(s) /\ Wanted(s)
    BY <1>1, LineFacts DEF IInv
  <2> DEFINE e   == TableOf(file)[s.at]
             m   == Named(e)
             own == get_symb_type_and_visibility(m)
  <2>2. /\ l.char = s.char /\ l.name = m.name /\ Source(l).binding = m.binding
        /\ l.blank <=> m.shndx = UNDEF
    BY <2>1, EntryFacts DEF Output, Source
  <2>3. s.at \in DOMAIN TableOf(file) /\ s.char \in LettersOf(s.at)
    BY LoadedFacts
  <2>4. PICK x \in Chosen :
          /\ s.char = CaseOf(m, x)
          /\ ~(m.isSection /\ m.name \in Dotted) =>
               IF own = "?" THEN x \in {"B", "D", "N", "R", "T"} ELSE x = own
          /\ x \in {"U", "u", "V", "v", "W", "w", "i", "C"} => x = own
    BY <2>3, LetterCases
  <2>5. m.shndx = UNDEF => ~(m.isSection /\ m.name \in Dotted)
    <3> SUFFICES ASSUME m.shndx = UNDEF, m.isSection
                 PROVE  m.name = NoName
      BY DottedAssumption
    <3>1. Unnamed(e) /\ e.shndx = 0 /\ m.name = Section(e.shndx).name
      BY EntryFacts DEF UNDEF
    <3>2. 0 < Len(file)
      BY <3>1 DEF Unnamed
    <3> HIDE DEF m, e
    <3> QED
      BY <1>1, <3>1, <3>2, FileFacts DEF IInv
  <2>6. m.shndx = UNDEF => own \in {"u", "v", "w", "i", "U"}
    BY DEF get_symb_type_and_visibility, UNDEF, ABS
  <2>7. /\ own \in {"v", "w", "U"} => m.shndx = UNDEF
        /\ own \in {"v", "V", "w", "W"} => m.binding # "LOCAL"
    BY DEF get_symb_type_and_visibility
  <2> HIDE DEF m, own
  <2>8. m.shndx = UNDEF => s.char \in {"U", "u", "v", "w", "i"}
    BY <2>4, <2>5, <2>6 DEF CaseOf, ToLower, Capitals
  <2>9. s.char \in {"U", "v", "w"} => m.shndx = UNDEF
    BY <2>4, <2>7 DEF CaseOf, ToLower, Capitals, Chosen
  <2>10. s.char \notin {"u", "v", "w", "i"} /\ m.name \notin DebugNames =>
           (s.char \in LowerCase <=> m.binding = "LOCAL")
    BY <2>4, CaseLetters DEF CaseOf, ToLower, Capitals, Chosen, LowerCase
  <2> QED
    BY <2>2, <2>8, <2>9, <2>10
<1>2. IInv => LettersAgree
  BY <1>1 DEF LettersAgree
<1> QED
  BY <1>2, Invariance, PTL

\* Under the name of its section a symbol has the letter the table of names puts
\* that name under.
THEOREM SectionLettersCorrect == Spec => []SectionLetters
<1>1. ASSUME IInv, NEW l \in Lines, NEW g \in DOMAIN SectionNames,
             Source(l).name = NoName, l.name \in NamesUnder(g)
      PROVE  l.char = IF Source(l).binding = "LOCAL" /\ l.name \notin DebugNames THEN ToLower(g) ELSE g
  <2>1. PICK s \in LoadedSymbols : l = Output(s) /\ Wanted(s)
    BY <1>1, LineFacts DEF IInv
  <2> DEFINE e == TableOf(file)[s.at]
             m == Named(e)
  <2>2. l.char = s.char /\ l.name = m.name /\ Source(l) = e /\ m.binding = e.binding
    BY <2>1, EntryFacts DEF Output, Source
  <2>3. s.at \in DOMAIN TableOf(file) /\ s.char \in LettersOf(s.at)
    BY LoadedFacts
  <2>4. m.name # NoName /\ m.name \in Dotted
    BY <1>1, <2>2, NamedLetter
  <2>5. Unnamed(e) /\ m.isSection /\ m.shndx = e.shndx
    BY <1>1, <2>2, <2>4, EntryFacts
  <2>6. ~ReadsOutside(m)
    <3>1. TableOf(file) \in Seq(SymbolEntry) /\ Len(file) \in Nat
      <4>1. pc # "scan"
        <5>1. out # <<>> /\ option \in Options
          BY <1>1 DEF Lines, IInv, ScanInv
        <5>2. 1 <= Turn(option)
          BY <5>1, TurnOf
        <5> QED
          BY <1>1, <5>1, <5>2 DEF IInv, OrderInv, PrintInv
      <4> QED
        BY <1>1, <4>1, FileFacts DEF IInv, ScanInv
    <3>2. e.shndx \in Nat /\ e.shndx < Len(file)
      BY <2>5, <3>1, EntryTypes DEF Unnamed
    <3> QED
      BY <2>5, <3>1, <3>2 DEF ReadsOutside
  <2>7. s.char = CaseOf(m, Resolved(get_symb_based_on_section(SectionOf(file, m), m.name)))
    BY <2>3, <2>4, <2>5, <2>6, LetterCases
  <2>8. get_symb_based_on_section(SectionOf(file, m), m.name) = g
    BY <1>1, <2>2, NamedLetter DEF get_symb_based_on_section
  <2>9. Resolved(g) = g
    BY DEF Resolved, SectionNames
  <2> QED
    BY <2>2, <2>7, <2>8, <2>9 DEF CaseOf
<1>2. IInv => SectionLetters
  BY <1>1 DEF SectionLetters
<1> QED
  BY <1>2, Invariance, PTL
==============================================================================
