------------------------------- MODULE MCFtNm -------------------------------
(***************************************************************************)
(* Command lines of up to three words from two flags and two files, with   *)
(* room for two files; disks on which at most one file is not as it should *)
(* be.                                                                     *)
(***************************************************************************)
EXTENDS FtNm, TLC

MCArgs == {"-r", "-g", "x", "y"}
MCMeaning == ("-r" :> "REVERSE_SORT") @@ ("-g" :> "EXTERNAL_ONLY")
MCPaths == {"x", "y", "a.out"}

Good == [opens |-> TRUE, magic |-> TRUE, class |-> TRUE, encoding |-> TRUE, type |-> TRUE,
         shoff |-> "inside", sections |-> TRUE, symtab |-> TRUE]
Bad == {[Good EXCEPT !.opens = FALSE], [Good EXCEPT !.magic = FALSE, !.class = FALSE],
        [Good EXCEPT !.class = FALSE], [Good EXCEPT !.encoding = FALSE, !.type = FALSE],
        [Good EXCEPT !.type = FALSE], [Good EXCEPT !.sections = FALSE],
        [Good EXCEPT !.symtab = FALSE]}
         \cup {[Good EXCEPT !.shoff = o] : o \in {"zero", "across", "tail", "past"}}
MCHeaders == {Good} \cup Bad

AllGood == [p \in MCPaths |-> Good]
MCDisks == {AllGood} \cup {[AllGood EXCEPT ![p] = h] : p \in MCPaths \ {"y"}, h \in Bad}
=============================================================================
