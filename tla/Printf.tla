------------------------------- MODULE Printf -------------------------------
(***************************************************************************)
(* One call of ft_printf (libft/ft_printf/src/ft_printf.c, parse.c,        *)
(* color.c): the format is walked once, what follows a % is read twice,    *)
(* first for its specifier, then for flags, width, precision and length    *)
(* modifiers, and the conversion is printed.                               *)
(*                                                                         *)
(* The arguments of the call are not known in advance: each va_arg takes   *)
(* any slot.  The text of a floating point number is the subject of        *)
(* FloatText; here it is any of a few.                                     *)
(***************************************************************************)
EXTENDS Conversions, FiniteSets

CONSTANTS
  Formats,      \* the format strings
  Slots,        \* the arguments: integers of LongBits bits
  Strings,      \* the arguments of %s, the null pointer apart
  FloatTexts,   \* what ft_print_f hands to ft_width
  Colors        \* the names of g_colors

NUL == "NUL"
LeftBrace == "{"
RightBrace == "}"
ESC == "ESC"

ASSUME SlotsAssumption == Slots \subseteq 0 .. 2^LongBits - 1
ASSUME TextsAssumption ==
  \A t \in Formats \cup Strings \cup FloatTexts :
    t \in Seq({t[n] : n \in DOMAIN t}) /\ \A n \in DOMAIN t : t[n] \notin {NUL, ESC}

VARIABLES
  str,      \* the format
  i, j,     \* where the loop and the parsers are in it, counted from 0
  args,     \* t_args
  counter,  \* var->counter
  out,      \* what has been written; the escape sequence of a color is one item
  pc,       \* next, spec, flags, width, precision, modifier, print; end, overrun
  conv      \* history: the conversions printed

vars == <<str, i, j, args, counter, out, pc, conv>>

Ch(n) == IF n < Len(str) THEN str[n + 1] ELSE NUL

initialize_args ==
  [specIndex |-> -1, flag |-> {}, width |-> 0, precision |-> -1, spec |-> NUL, modifier |-> {}]

Init ==
  /\ str \in Formats
  /\ i = -1 /\ j = 0 /\ args = initialize_args
  /\ counter = 0 /\ out = <<>> /\ pc = "next" /\ conv = <<>>

\* The first position from n on where the format has a character of the kind K.
FirstFrom(n, K(_)) == CHOOSE m \in n .. Len(str) : K(Ch(m)) /\ \A k \in n .. m - 1 : ~K(Ch(k))

-----------------------------------------------------------------------------
\* ft_printf_helper and set_color

\* The loop looks at the next character, unless the terminator is behind it.
AtNext(K(_)) == pc = "next" /\ i < Len(str) /\ K(Ch(i + 1))

Write(text, n) == out' = out \o text /\ counter' = counter + n

EndOfFormat ==
  /\ AtNext(LAMBDA c : c = NUL)
  /\ i' = i + 1 /\ pc' = "end"
  /\ UNCHANGED <<str, j, args, counter, out, conv>>

\* A directive without a specifier has left i on the terminator: what is read
\* next is not the format.
ReadPastEnd ==
  /\ pc = "next" /\ i = Len(str)
  /\ pc' = "overrun"
  /\ UNCHANGED <<str, i, j, args, counter, out, conv>>

StartDirective ==
  /\ AtNext(LAMBDA c : c = "%")
  /\ i' = i + 1 /\ j' = i + 2 /\ args' = initialize_args
  /\ pc' = IF Ch(i + 2) = NUL THEN "end" ELSE "spec"
  /\ UNCHANGED <<str, counter, out, conv>>

PlainChar ==
  /\ AtNext(LAMBDA c : c \notin {NUL, "%", LeftBrace})
  /\ Write(<<Ch(i + 1)>>, 1)
  /\ i' = i + 1
  /\ UNCHANGED <<str, j, args, pc, conv>>

\* An opening brace: the name of a color up to the closing one, else itself.
BraceStop == FirstFrom(i + 2, LAMBDA c : c \in {RightBrace, "%", NUL})
ColorName == SubSeq(str, i + 3, BraceStop)

OpenBraceStays ==   \* mutant: var->i is set one short
  /\ AtNext(LAMBDA c : c = LeftBrace)
  /\ IF Ch(BraceStop) = RightBrace
       THEN /\ out' = IF ColorName \in Colors THEN Append(out, ESC) ELSE out
            /\ i' = i /\ UNCHANGED counter
       ELSE Write(<<LeftBrace>>, 1) /\ i' = i + 1
  /\ UNCHANGED <<str, j, args, pc, conv>>

OpenBrace ==
  /\ AtNext(LAMBDA c : c = LeftBrace)
  /\ IF Ch(BraceStop) = RightBrace
       THEN /\ out' = IF ColorName \in Colors THEN Append(out, ESC) ELSE out
            /\ i' = BraceStop /\ UNCHANGED counter
       ELSE Write(<<LeftBrace>>, 1) /\ i' = i + 1
  /\ UNCHANGED <<str, j, args, pc, conv>>

-----------------------------------------------------------------------------
\* The parsers

DigitSet == {Digits[n] : n \in 1 .. 10}
FlagSet == {"-", "+", "#", "0", Blank}
ModifierSet == {"h", "l", "L", "z", "j"}
NoModifiersSkipped == FlagSet \cup {"*", "."} \cup DigitSet   \* mutant
Skipped == FlagSet \cup {"*", "."} \cup ModifierSet \cup DigitSet

get_specifier ==
  /\ pc = "spec"
  /\ LET n == FirstFrom(j, LAMBDA c : c \notin Skipped)
     IN IF Ch(n) # NUL
          THEN /\ args' = [args EXCEPT !.specIndex = n, !.spec = Ch(n)]
               /\ j' = i + 1 /\ pc' = "flags" /\ UNCHANGED i
          ELSE /\ args' = initialize_args
               /\ j' = n /\ i' = n /\ pc' = "next"
  /\ UNCHANGED <<str, counter, out, conv>>

\* What a flag adds to those before it: - is stronger than 0, + than a space.
WithFlag(flag, c) ==
  CASE c = "-" -> (flag \cup {"MINUS"}) \ {"ZERO"}
    [] c = "0" -> IF "MINUS" \in flag THEN flag ELSE flag \cup {"ZERO"}
    [] c = "#" -> flag \cup {"HASH"}
    [] c = "+" -> (flag \cup {"PLUS"}) \ {"SPACE"}
    [] c = Blank -> IF "PLUS" \in flag THEN flag ELSE flag \cup {"SPACE"}

get_flags ==
  /\ pc = "flags"
  /\ IF Ch(j) \in FlagSet
       THEN args' = [args EXCEPT !.flag = WithFlag(@, Ch(j))] /\ j' = j + 1 /\ UNCHANGED pc
       ELSE pc' = "width" /\ UNCHANGED <<args, j>>
  /\ UNCHANGED <<str, i, counter, out, conv>>

\* ft_atoll of the digits from n on, as the int it is stored in.
DigitsEnd(n) == FirstFrom(n, LAMBDA c : c \notin DigitSet)
DigitValue == [c \in DigitSet |-> CHOOSE n \in 0 .. 9 : Digits[n + 1] = c]
ft_atoll(n) ==
  LET value[m \in n .. DigitsEnd(n)] == IF m = n THEN 0 ELSE 10 * value[m - 1] + DigitValue[Ch(m - 1)]
  IN value[DigitsEnd(n)]

WidthDigitsClamped ==   \* mutant: w is a long long, and w > INT_MAX can be true
  /\ pc = "width" /\ Ch(j) \in DigitSet
  /\ args' = [args EXCEPT !.width = IF ft_atoll(j) >= 2^(IntBits - 1) THEN 0 ELSE ft_atoll(j)]
  /\ j' = DigitsEnd(j)
  /\ UNCHANGED <<str, i, counter, out, pc, conv>>

WidthDigits ==
  /\ pc = "width" /\ Ch(j) \in DigitSet
  /\ args' = [args EXCEPT !.width = Signed(ft_atoll(j), IntBits)]
  /\ j' = DigitsEnd(j)
  /\ UNCHANGED <<str, i, counter, out, pc, conv>>

\* A negative width asks for the flag - .
WidthStar ==
  /\ pc = "width" /\ Ch(j) = "*"
  /\ \E v \in Slots :
       LET w == Signed(v, IntBits)
       IN args' = IF w < 0
                    THEN [args EXCEPT !.width = Signed(-w, IntBits),
                                      !.flag = (@ \cup {"MINUS"}) \ {"ZERO"}]
                    ELSE [args EXCEPT !.width = w]
  /\ j' = j + 1
  /\ UNCHANGED <<str, i, counter, out, pc, conv>>

WidthDone ==
  /\ pc = "width" /\ Ch(j) \notin DigitSet \cup {"*"}
  /\ pc' = "precision"
  /\ UNCHANGED <<str, i, j, args, counter, out, conv>>

FloatPrecision == 6
NoPrecision ==
  /\ pc = "precision" /\ Ch(j) # "."
  /\ args' = IF args.spec = "f" THEN [args EXCEPT !.precision = FloatPrecision] ELSE args
  /\ pc' = "modifier"
  /\ UNCHANGED <<str, i, j, counter, out, conv>>

\* A precision takes the flag 0 from integers.
ZeroUnset(a, p) ==
  IF p >= 0 /\ a.spec \in SpecsDI \cup SpecsPOUBX THEN a.flag \ {"ZERO"} ELSE a.flag

\* va_arg_precision with a star, which j stays on.
StarPrecision ==
  /\ pc = "precision" /\ Ch(j) = "." /\ Ch(j + 1) = "*"
  /\ \E v \in Slots :
       LET p == IF args.spec = "f" /\ Signed(v, IntBits) < 0 THEN FloatPrecision ELSE Signed(v, IntBits)
       IN args' = [args EXCEPT !.precision = p, !.flag = ZeroUnset(args, p)]
  /\ j' = j + 1 /\ pc' = "modifier"
  /\ UNCHANGED <<str, i, counter, out, conv>>

\* ft_atoll of what follows the point: it reads over white space and a sign,
\* which j does not.  A negative precision is taken for a width.
Spaces == {Blank, "TAB", "LF", "VT", "FF", "CR"}   \* ft_isspace
NumberStart == FirstFrom(j + 1, LAMBDA c : c \notin Spaces)
LiteralPrecision ==
  /\ pc = "precision" /\ Ch(j) = "." /\ Ch(j + 1) # "*"
  /\ LET n == NumberStart
         p == CASE Ch(n) = "-" -> Signed(-ft_atoll(n + 1), IntBits)
                [] Ch(n) = "+" -> Signed(ft_atoll(n + 1), IntBits)
                [] OTHER       -> Signed(ft_atoll(n), IntBits)
     IN args' = IF p >= 0 THEN [args EXCEPT !.precision = p, !.flag = ZeroUnset(args, p)]
                ELSE IF args.spec = "f" THEN [args EXCEPT !.precision = FloatPrecision]
                ELSE [args EXCEPT !.precision = p, !.width = Signed(-p, IntBits),
                                  !.flag = @ \cup {"MINUS"}]
  /\ j' = DigitsEnd(j + 1) /\ pc' = "modifier"
  /\ UNCHANGED <<str, i, counter, out, conv>>

\* What a length modifier adds to those before it; next is the one behind it.
WithModifier(m, c, next) ==
  CASE c = "h" -> IF next = "h" THEN (m \cup {"HH"}) \ {"H"}
                  ELSE IF "HH" \in m THEN m ELSE m \cup {"H"}
    [] c = "l" -> IF next = "l" THEN (m \cup {"LL"}) \ {"L"}
                  ELSE IF "LL" \in m THEN m ELSE m \cup {"L"}
    [] c = "L" -> m \cup {"UPL"}
    [] c = "z" -> m \cup {"Z"}
    [] c = "j" -> m \cup {"J"}

get_modifier ==
  /\ pc = "modifier"
  /\ IF Ch(j) \in ModifierSet
       THEN /\ args' = [args EXCEPT !.modifier = WithModifier(@, Ch(j), Ch(j + 1))]
            /\ j' = j + 1 /\ UNCHANGED pc
       ELSE pc' = "print" /\ UNCHANGED <<args, j>>
  /\ UNCHANGED <<str, i, counter, out, conv>>

-----------------------------------------------------------------------------
\* manage_args

Emit(text, n, value) ==
  /\ Write(text, n)
  /\ conv' = Append(conv, [args |-> args, from |-> i, text |-> text, value |-> value])
  /\ i' = args.specIndex /\ pc' = "next"
  /\ UNCHANGED <<str, j, args>>

PrintD ==
  /\ pc = "print" /\ args.spec \in SpecsDI
  /\ \E v \in Slots :
       LET t == ft_print_d(args, ft_signed(args, v)) IN Emit(t, Len(t), ft_signed(args, v))

PrintPoubx ==
  /\ pc = "print" /\ args.spec \in SpecsPOUBX
  /\ \E v \in Slots :
       LET t == ft_print_poubx(args, ft_unsigned(args, v)) IN Emit(t, Len(t), ft_unsigned(args, v))

PrintS ==
  /\ pc = "print" /\ args.spec = "s"
  /\ \E s \in Strings \cup {Null} : LET t == ft_print_s(args, s) IN Emit(t, Len(t), s)

PrintF ==
  /\ pc = "print" /\ args.spec = "f"
  /\ \E s \in FloatTexts : LET t == ft_width(args, s, 0) IN Emit(t, Len(t), s)

\* Everything else is a character to print: the argument of %c, or itself.  The
\* first two count the width for it.
CharCountsOne == 1   \* mutant
CharCounts ==
  IF args.width <= 0 THEN 1
  ELSE IF args.spec \in {"c", "%"} THEN args.width
  ELSE Len(ft_print_c(args, args.spec))
PrintC ==
  /\ pc = "print" /\ args.spec \notin SpecsDI \cup SpecsPOUBX \cup {"s", "f"}
  /\ \E c \in IF args.spec = "c" THEN {"a", "0"} ELSE {args.spec} :
       Emit(ft_print_c(args, c), CharCounts, 0)

Ended == pc \in {"end", "overrun"}

Next ==
  \/ EndOfFormat \/ ReadPastEnd \/ StartDirective \/ PlainChar \/ OpenBrace
  \/ get_specifier \/ get_flags \/ WidthDigits \/ WidthStar \/ WidthDone
  \/ NoPrecision \/ StarPrecision \/ LiteralPrecision \/ get_modifier
  \/ PrintD \/ PrintPoubx \/ PrintS \/ PrintF \/ PrintC
  \/ (Ended /\ UNCHANGED vars)

\* One thread; no call in it waits.
Spec == Init /\ [][Next]_vars /\ WF_vars(Next)
-----------------------------------------------------------------------------
\* What is printed, read as the reader of the output does.
\* The text without the blanks around it.
Solid(t) == {n \in DOMAIN t : t[n] # Blank}
Shown(t) ==
  IF Solid(t) = {} THEN <<>>
  ELSE SubSeq(t, CHOOSE m \in Solid(t) : \A n \in Solid(t) : m <= n,
                 CHOOSE m \in Solid(t) : \A n \in Solid(t) : n <= m)
PrefixEnds == [x |-> {"x"}, X |-> {"X"}, p |-> {"x"}, b |-> {"b"}, o |-> {}, u |-> {}, d |-> {}, i |-> {}]
SignLength(t) == IF t # <<>> /\ t[1] \in {"-", "+"} THEN 1 ELSE 0
DigitsShown(c) ==
  LET t == Drop(Shown(c.text), SignLength(Shown(c.text)))
  IN IF Len(t) > 1 /\ t[2] \in PrefixEnds[c.args.spec] THEN Drop(t, 2) ELSE t
NumericBase(c) == IF c.args.spec \in SpecsDI THEN 10 ELSE Base[c.args.spec]
HexValue == [c \in {Digits[n] : n \in DOMAIN Digits} \cup {Uppers[n] : n \in DOMAIN Uppers} |->
               CHOOSE n \in 0 .. 15 : c = Digits[n + 1] \/ (n > 9 /\ c = Uppers[Digits[n + 1]])]
ValueShown(c) ==
  LET t == DigitsShown(c)
      value[n \in 0 .. Len(t)] == IF n = 0 THEN 0 ELSE NumericBase(c) * value[n - 1] + HexValue[t[n]]
  IN IF Negative(Shown(c.text)) THEN -value[Len(t)] ELSE value[Len(t)]

Converted == {conv[n] : n \in DOMAIN conv}
Integral(c) == c.args.spec \in SpecsDI \cup SpecsPOUBX

\* Types.  While a directive is parsed j is inside it: the second reading never
\* gets past the specifier that the first one found.
TypeOK ==
  /\ str \in Formats
  /\ i \in -1 .. Len(str) /\ j \in 0 .. Len(str) + 1
  /\ args.flag \subseteq {"MINUS", "PLUS", "HASH", "SPACE", "ZERO"}
  /\ args.modifier \subseteq {"H", "HH", "L", "LL", "UPL", "Z", "J"}
  /\ {args.width, args.precision} \subseteq Int
  /\ counter \in Nat
  /\ pc \in {"next", "spec", "flags", "width", "precision", "modifier", "print", "end", "overrun"}
  /\ pc \in {"flags", "width", "precision", "modifier", "print"} =>
       i < j /\ j <= args.specIndex /\ Ch(args.specIndex) = args.spec

\* What ft_printf returns is the number of characters written, the escape
\* sequences of colors apart.
CounterCounts == counter = Cardinality({n \in DOMAIN out : out[n] # ESC})

\* The width that the directive behind the % at n asks for: the number behind
\* its flags, as much of it as an int holds, unless an argument or a negative
\* precision of the format takes its place.
WidthStart(n) == FirstFrom(n + 1, LAMBDA c : c \notin FlagSet)
WidthEnd(n) == DigitsEnd(WidthStart(n))
WidthAsked(n, a) ==
  IF \/ Ch(WidthEnd(n)) = "*"
     \/ Ch(WidthEnd(n)) = "." /\ Ch(WidthEnd(n) + 1) # "*" /\ a.precision < 0
    THEN a.width
    ELSE Signed(ft_atoll(WidthStart(n)), IntBits)

\* A field is never shorter than the width that the format asks for, blanks only
\* fill it up to the width - but for the one that the flag of that name asks
\* for, and those of the argument -, and an integer has the digits its precision
\* asks for.  A width that no int holds is one more, taken modulo 2^IntBits: it
\* asks for another width, or for none when it has become negative.
OwnBlank(c) == c.args.spec \in {"s", "f"} /\ Solid(c.value) # DOMAIN c.value
FieldKept ==
  \A c \in Converted :
    /\ Len(c.text) >= WidthAsked(c.from, c.args)
    /\ Len(c.text) > WidthAsked(c.from, c.args) =>
         \A n \in DOMAIN c.text \ Solid(c.text) : (n = 1 /\ "SPACE" \in c.args.flag) \/ OwnBlank(c)
    /\ Integral(c) => Len(DigitsShown(c)) >= c.args.precision

\* The digits of an integer denote the argument, whatever sign, prefix, zeros
\* and blanks surround them.  Only a negative precision in the format itself
\* can bring the flags - and 0 together, and put the zeros behind the digits.
ValueKept ==
  \A c \in Converted :
    Integral(c) /\ ~({"MINUS", "ZERO"} \subseteq c.args.flag) =>
      /\ {DigitsShown(c)[n] : n \in DOMAIN DigitsShown(c)} \subseteq DOMAIN HexValue
      /\ ValueShown(c) = c.value

\* The call ends, and at the terminator of the format; only one whose last
\* directive has no specifier is read on behind it.
LacksSpecifier ==
  \E n \in DOMAIN str : str[n] = "%" /\ n < Len(str) /\ \A m \in n + 1 .. Len(str) : str[m] \in Skipped
EndsAtTerminator == <>(pc = "end" \/ (pc = "overrun" /\ LacksSpecifier))

\* What the documentation says ----------------------------------------------

\* parse.c 48: the format is parsed and its length modifiers are stored.
ModifiersStored ==
  pc = "print" =>
    \A n \in i + 1 .. args.specIndex - 1 :
      Ch(n) = "l" => args.modifier \cap {"L", "LL"} # {}
=============================================================================
