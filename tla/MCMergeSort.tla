----------------------------- MODULE MCMergeSort ----------------------------
(***************************************************************************)
(* Three names on up to five symbols: equal neighbours, runs of equal      *)
(* names that two calls split between them, halves of unequal size, and a  *)
(* recursion of four calls.                                                *)
(***************************************************************************)
EXTENDS MergeSort

MCNames == 1 .. 3
MCMaxSyms == 5
=============================================================================
