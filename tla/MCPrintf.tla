------------------------------ MODULE MCPrintf ------------------------------
(***************************************************************************)
(* Formats for Printf: one directive with flags, width, precision and      *)
(* specifier of every kind, or with length modifiers; and all short        *)
(* strings over the characters that steer the loop.  Integers have four    *)
(* bits, so that a literal of one digit may be out of range: the width 9   *)
(* becomes -7, the width 19 becomes 3.                                     *)
(***************************************************************************)
EXTENDS Printf

MCSlots == {0, 1, 5, 9, 19, 31}
MCStrings == {<<>>, <<"a", " ", "c">>}
MCFloatTexts == {<<"-", "1", ".", "5">>, <<"n", "a", "n">>, <<"i", "n", "f">>}
MCColors == {<<"a">>}

Upto(S, n) == UNION {[1 .. k -> S] : k \in 0 .. n}
Specs == {"d", "u", "o", "x", "X", "p", "b", "s", "c", "f", "%", "k"}
Flags == Upto(FlagSet, 1)
           \cup {<<"-", "0">>, <<"0", "-">>, <<"+", " ">>, <<" ", "+">>, <<"#", "0">>, <<"+", "0">>}
Widths == {<<>>, <<"3">>, <<"6">>, <<"9">>, <<"*">>}
Precisions == {<<>>, <<".">>, <<".", "2">>, <<".", "9">>, <<".", "*">>, <<".", "-", "3">>}
Modifiers == {<<"h">>, <<"h", "h">>, <<"l">>, <<"l", "l">>, <<"z">>, <<"j">>, <<"L">>}

Directives ==
  {<<"%">> \o f \o w \o p \o <<s>> : f \in Flags, w \in Widths, p \in Precisions, s \in Specs}
    \cup {<<"%">> \o w \o p \o m \o <<s>> :
            w \in {<<>>, <<"*">>}, p \in {<<>>, <<".", "*">>}, m \in Modifiers, s \in Specs}
    \cup {<<"%">> \o f \o <<"1", "9", s>> : f \in Flags, s \in Specs}
    \cup {<<"%", "3", "*", "d">>, <<"%", "*", "3", "d">>, <<"%", ".", "TAB", "-", "3", "d">>}
Strings4 == Upto({"a", "%", "{", "}", "d", "h", " "}, 4)

MCFormats == Directives \cup Strings4
=============================================================================
