----------------------------- MODULE StableSort -----------------------------
(***************************************************************************)
(* What mergeSort (srcs/printer.c) promises its callers: in one step the   *)
(* symbol table of a file becomes its stable arrangement by name, in the   *)
(* direction of `order`: 1 ascending, -1 descending (-r), 0 not at all     *)
(* (-p).                                                                   *)
(***************************************************************************)
EXTENDS SymbolOrder

VARIABLES
  name,     \* the table: the name of each symbol
  order,    \* the argument of mergeSort
  listing,  \* file->syms.symb: the symbols in their current order
  sorted    \* mergeSort has returned

vars == <<name, order, listing, sorted>>

Init ==
  /\ name \in Tables
  /\ order \in Orders
  /\ listing = FileOrder(name)
  /\ sorted = FALSE

Sort ==
  /\ ~sorted
  /\ sorted' = TRUE
  /\ StableSorted(listing', order, name)
  /\ UNCHANGED <<name, order>>

Spec == Init /\ [][Sort]_vars
=============================================================================
