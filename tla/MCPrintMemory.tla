--------------------------- MODULE MCPrintMemory ----------------------------
(***************************************************************************)
(* Directives with the sets of flags that the parser can leave, without    *)
(* width and precision, with a small one and with a large one; values with *)
(* and without sign, of one digit and two; texts, no text and no string;   *)
(* numbers, nan and the infinities.                                        *)
(***************************************************************************)
EXTENDS PrintMemory

FlagSets == {fl \in SUBSET {"PLUS", "SPACE", "MINUS", "ZERO", "HASH"} :
               ~({"PLUS", "SPACE"} \subseteq fl) /\ ~({"MINUS", "ZERO"} \subseteq fl)}
Directives(spec, flags, precisions) ==
  {x \in [spec : {spec}, flag : {fl \in FlagSets : fl \subseteq flags}, modifier : {{}},
          width : {0, 1, 5}, precision : precisions] :
     spec \in SpecsDI \cup SpecsPOUBX /\ x.precision >= 0 => "ZERO" \notin x.flag}

Precise == {-1, 0, 3}
Floats(p) ==
  {[word |-> <<>>, neg |-> n, decimal |-> <<"1">>, fract |-> [k \in 1 .. p |-> "5"]] : n \in BOOLEAN}
    \cup {[word |-> w, neg |-> FALSE, decimal |-> <<>>, fract |-> <<>>] :
            w \in {<<"n", "a", "n">>, <<"i", "n", "f">>, <<"-", "i", "n", "f">>}}

MCConversion ==
  (Directives("d", {"PLUS", "SPACE", "MINUS", "ZERO"}, Precise) \X {0, 7, -12})
    \cup UNION {Directives(s, {"PLUS", "MINUS", "ZERO", "HASH"}, Precise) \X {0, 13} : s \in SpecsPOUBX}
    \cup (Directives("s", {"MINUS", "ZERO"}, Precise) \X {NoString, <<>>, <<"a", "b", "c", "d">>})
    \cup (Directives("k", {"MINUS", "ZERO"}, {-1}) \X {0})
    \cup UNION {Directives("f", {"PLUS", "MINUS", "ZERO", "HASH"}, {p}) \X Floats(p) : p \in {0, 2}}
=============================================================================
