---------------------------- MODULE SymbolOrder ----------------------------
(***************************************************************************)
(* The order in which ft_nm lists the symbols of a file (srcs/printer.c).  *)
(* A symbol is its position in the table the file holds, a name is its     *)
(* rank in the order of ft_strcmp, a table gives each symbol its name.     *)
(***************************************************************************)
EXTENDS Integers, Sequences

CONSTANTS
  Names,    \* ranks of the names that occur in a table
  MaxSyms   \* bound on the number of symbols of a table

ASSUME NamesAssumption == Names \subseteq Int
ASSUME MaxSymsAssumption == MaxSyms \in Nat

\* The last argument of mergeSort: 1 ascending, -1 descending, 0 not at all.
Orders == {-1, 0, 1}

\* The tables of at most MaxSyms symbols, and the order a file lists them in.
Tables == UNION {[1 .. n -> Names] : n \in 0 .. MaxSyms}
FileOrderFromZero(nm) == [p \in 1 .. Len(nm) |-> p - 1]   \* mutant
FileOrder(nm) == [p \in 1 .. Len(nm) |-> p]

\* order * ft_strcmp(a, b), up to a positive factor.
Cmp(ord, nm, a, b) == ord * (nm[a] - nm[b])

\* Where a stable sort puts a in front of b.  Under ord = 0 all names compare
\* equal and only the positions count.
Before(ord, nm, a, b) ==
  \/ Cmp(ord, nm, a, b) < 0
  \/ Cmp(ord, nm, a, b) = 0 /\ a < b

\* arr is the n symbols that follow the first b of the file, each of them
\* once, arranged stably.
SortedRange(arr, b, n, ord, nm) ==
  /\ arr \in [1 .. n -> b + 1 .. b + n]
  /\ \A x \in b + 1 .. b + n : \E p \in 1 .. n : arr[p] = x
  /\ \A p, q \in 1 .. n : p < q => Before(ord, nm, arr[p], arr[q])

StableSorted(arr, ord, nm) == SortedRange(arr, 0, Len(nm), ord, nm)

\* merge has moved the first i symbols of l and the first j of r, stably
\* arranged, to the front of a, and they all come before those still to move.
MergedRange(a, l, r, i, j, k, ord, nm) ==
  /\ k = i + j
  /\ \A p \in 1 .. k : (\E q \in 1 .. i : a[p] = l[q]) \/ (\E q \in 1 .. j : a[p] = r[q])
  /\ \A q \in 1 .. i : \E p \in 1 .. k : a[p] = l[q]
  /\ \A q \in 1 .. j : \E p \in 1 .. k : a[p] = r[q]
  /\ \A p, q \in 1 .. k : p < q => Before(ord, nm, a[p], a[q])
  /\ \A p \in 1 .. k : \A q \in DOMAIN l : q > i => Before(ord, nm, a[p], l[q])
  /\ \A p \in 1 .. k : \A q \in DOMAIN r : q > j => Before(ord, nm, a[p], r[q])
=============================================================================
