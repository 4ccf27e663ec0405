---------------------------- MODULE PrintMemory -----------------------------
(***************************************************************************)
(* The memory of one conversion of ft_printf: which strings ft_print_d,    *)
(* ft_print_poubx, ft_print_s, ft_print_f and non_spec_char allocate, hand *)
(* on, free and leave, with malloc failing anywhere.  Conversions says     *)
(* what they are to print.                                                 *)
(*                                                                         *)
(* A function is the sequence of the calls it makes (BodyOf), which        *)
(* depends on the texts at the time it is entered; todo holds the calls    *)
(* still to come, and there is one action for each kind of call.  A        *)
(* pointer is the number of a block, NULL, or what an uninitialized        *)
(* variable holds.  The locals of different functions share a name where   *)
(* their lives do not overlap; new stands for an argument without a name.  *)
(*                                                                         *)
(* The digits of a floating point number are FloatText's concern: here the *)
(* integer part and the fraction have their final text all the time, and   *)
(* the branches that depend on digits are taken either way.                *)
(***************************************************************************)
EXTENDS Conversions, FiniteSets

CONSTANTS
  Conversion,   \* pairs <<directive, value>>: an integer for d and i, a natural
                \* number for poubx, a text or NoString for s, a float for f
  MantBits      \* bits of a mantissa: 63

\* A float is [word, neg, decimal, fract]; word is <<>> but for nan and infinities.
DecimalDigits == {"0", "1", "2", "3", "4", "5", "6", "7", "8", "9"}
Words == {NaN, <<"i", "n", "f">>, <<"-", "i", "n", "f">>}
FloatRecord ==
  {x \in [word : {<<>>} \cup Words, neg : BOOLEAN,
           decimal : Seq(DecimalDigits), fract : Seq(DecimalDigits)] :
     x.word = <<>> => x.decimal # <<>>}
ASSUME ConversionAssumption ==
  /\ MantBits \in Nat \ {0}
  /\ \A c \in Conversion :
       /\ c[1].spec \in STRING /\ {c[1].width, c[1].precision} \subseteq Int
       /\ c[1].spec \in SpecsDI => c[2] \in Int
       /\ c[1].spec \in SpecsPOUBX => c[2] \in Nat
       /\ c[1].spec = "s" => c[2] \in Seq(STRING)
       /\ c[1].spec = "f" => c[2] \in FloatRecord

NoString == <<"no string">>
NULL == 0
Wild == -1
Pointers ==
  {"result", "mantiss", "decimal", "fract", "tmp", "new", "prefix", "res", "s", "fsum", "carry"}

VARIABLES
  directive, value,   \* the directive and the value
  todo,               \* the calls to come
  ptr,                \* the pointers
  heap,               \* the live blocks: [text, size, used, for]
  blocks,             \* history: blocks allocated so far
  written,            \* what was written
  end,                \* "": running; done; fault: NULL was dereferenced; misused: a
                      \* pointer to no live block was
  failed              \* history: a malloc has failed

memoryVars == <<directive, value, todo, ptr, heap, blocks, written, end, failed>>

-----------------------------------------------------------------------------
\* The calls

\* An allocation that is filled with text: size is what malloc is asked for,
\* used what is written; without memory the pointer is NULL, or is written to.
Make(to, text, size, used, lack) ==
  [op |-> "make", to |-> to, text |-> text, size |-> size, used |-> used, lack |-> lack]
ft_strdup(to, text) == Make(to, text, Len(text) + 1, Len(text) + 1, "null")
\* ft_strnew and ft_memset.
Filled(to, text) == Make(to, text, Len(text) + 1, Len(text) + 1, "fault")

\* ft_strdup, ft_strsub, ft_strjoin of a string: front, then len characters of it.
Copy(to, front, from, start, len) ==
  [op |-> "copy", to |-> to, front |-> front, from |-> from, start |-> start, len |-> len]
ft_strjoin_free(to, a, b) == [op |-> "join", to |-> to, a |-> a, b |-> b]
Padded(to, from, skip, n, c, side) ==
  [op |-> "padd", to |-> to, from |-> from, skip |-> skip, n |-> n, c |-> c, side |-> side]
\* sum_string, multiply_string, ft_large_pow: they free what they are given.
Computed(to, from, text) == [op |-> "digits", to |-> to, from |-> from, text |-> text]
ft_strdel(p) == [op |-> "del", p |-> p]
Move(to, from) == [op |-> "move", to |-> to, from |-> from]
ft_putstr(p) == [op |-> "put", p |-> p]
Enter(f) == [op |-> "enter", f |-> f]

\* tmp = p; p = ...; ft_strdel(&tmp).  Mutants: the old string stays, or goes first.
ReplaceKept(p, calls) == calls
ReplaceFreesFirst(p, calls) == <<Move("tmp", p), ft_strdel("tmp")>> \o calls
Replace(p, calls) == <<Move("tmp", p)>> \o calls \o <<ft_strdel("tmp")>>

-----------------------------------------------------------------------------
\* The functions

Text(p) == heap[ptr[p]].text
result == Text("result")
When(c, calls) == IF c THEN calls ELSE <<>>

\* ft_ltoa counts the digits before it allocates; shift_bits too, and faults
\* without memory; the block of ft_utoa has no room for the terminator.
DigitCount(n, b) ==
  LET len[k \in 0 .. n] == IF k < b THEN 1 ELSE 1 + len[k \div b]
  IN len[n]
nb_length(n) == DigitCount(IF n < 0 THEN -n ELSE n, 10)
nbase_length(n, b) == DigitCount(n, b)
ltoa ==
  LET size == nb_length(value) + (IF value < 0 THEN 1 ELSE 0) + 1
  IN Make("result", ft_ltoa(value), size, Len(ft_ltoa(value)) + 1, "null")
base_text ==
  LET text == ft_base(directive, value)
  IN IF directive.spec = "u"
       THEN IF value = 0 THEN ft_strdup("result", text)
            ELSE Make("result", text, Len(text), Len(text) + 1, "null")
     ELSE Make("result", text, nbase_length(value, Base[directive.spec]) + 1, Len(text) + 1,
               "fault")

Bare == directive.flag = {} /\ directive.width = 0 /\ directive.precision = -1
Side == IF "MINUS" \in directive.flag THEN "R" ELSE "L"

CallsD ==
  <<ltoa>>
    \o When(~Bare,
         (IF directive.precision = 0 /\ value = 0
            THEN Replace("result", <<ft_strdup("result", <<>>)>>)
          ELSE <<Enter("ft_precision")>>)
         \o <<Enter("ft_width")>>)
    \o <<ft_putstr("result"), ft_strdel("result")>>

CallsPoubx ==
  (IF value = 0 /\ directive.precision = 0 THEN <<ft_strdup("result", <<>>)>> ELSE <<base_text>>)
    \o (IF ~Bare THEN <<Enter("ft_precision"), Enter("ft_width")>>
        ELSE When(directive.spec = "p",
               <<ft_strdup("new", <<"0", "x">>), ft_strjoin_free("result", "new", "result")>>))
    \o <<ft_putstr("result"), ft_strdel("result")>>

\* ft_strdup of no string is NULL, as without memory.
CallsS ==
  When(value # NoString, <<ft_strdup("result", value)>>)
    \o <<Enter("null_string")>>
    \o When(~Bare, <<Enter("ft_precision"), Enter("ft_width")>>)
    \o <<ft_putstr("result"), ft_strdel("result")>>
NullString == When(ptr["result"] = NULL, <<ft_strdup("result", Null)>>)

non_spec_char ==
  LET pad == Padded("result", "result", 0, directive.width - 1,
                    IF "ZERO" \in directive.flag THEN "0" ELSE " ", Side)
  IN <<ft_strdup("result", <<directive.spec>>)>>
       \o (IF directive.width <= 0 THEN <<ft_putstr("result")>>
           ELSE Replace("result", <<pad, ft_putstr("result")>>))
       \o <<ft_strdel("result")>>

is_s ==
  LET len == Len(result)
  IN <<Move("tmp", "result")>>
       \o (IF directive.precision = 0 THEN <<ft_strdup("result", <<>>)>>
           ELSE When(directive.precision < len,
                  <<Copy("result", <<>>, "result", 0, directive.precision)>>))
       \o When(directive.precision < len, <<ft_strdel("tmp")>>)

\* ft_precision: padding in front, and behind the sign for d and i.
Precision ==
  LET len == Len(result)
      sign == IF directive.spec \in SpecsDI /\ Negative(result) THEN 1 ELSE 0
      zeros == directive.precision - (len - sign)
  IN IF directive.spec = "s" THEN When(directive.precision >= 0, is_s)
     ELSE When(zeros > 0, Replace("result", <<Padded("result", "result", sign, zeros, "0", "L")>>)
            \o When(sign = 1,
                 Replace("result", <<Copy("result", <<"-">>, "result", 0, len - 1 + zeros)>>)))

\* ft_numeric: manage_sign, then the width.
Numeric ==
  When(SignPut(directive, result) # <<>>,
       <<ft_strdup("new", SignPut(directive, result)), ft_strjoin_free("result", "new", "result")>>)
    \o <<Enter("pad_numeric")>>
PadNumeric ==
  LET pad == directive.width - Len(result)
      signed == result # <<>> /\ result[1] \in {"-", "+", " "}
  IN When(pad > 0, Replace("result",
       IF "ZERO" \in directive.flag /\ result # NaN /\ result \notin Infs
         THEN <<Padded("result", "result", IF signed THEN 1 ELSE 0, pad, "0", "L")>>
              \o When(signed,
                   <<Copy("new", <<>>, "tmp", 0, 1), ft_strjoin_free("result", "new", "result")>>)
       ELSE <<Padded("result", "result", 0, pad, " ", Side)>>))

String ==
  LET pad == directive.width - Len(result)
      c == IF "ZERO" \in directive.flag /\ "MINUS" \notin directive.flag THEN "0" ELSE " "
  IN When(pad > 0, Replace("result", <<Padded("result", "result", 0, pad, c, Side)>>))

\* ft_alternate: the prefix is joined to the result, or freed.
Alternate == <<ft_strdup("prefix", get_prefix(directive, result, value)), Enter("pad_alternate")>>
PadAlternate ==
  LET flg  == "HASH" \in directive.flag \/ directive.spec = "p"
      pad(c) ==
        LET n == directive.width - (Len(result) + Len(Text("prefix")))
        IN Replace("result", <<Padded("result", "result", 0, n, c, Side)>>)
      join == When(flg, <<ft_strjoin_free("result", "prefix", "result")>>)
  IN (IF "ZERO" \in directive.flag THEN pad("0") \o join ELSE join \o pad(" "))
       \o When(~flg, <<ft_strdel("prefix")>>)

Width ==
  IF directive.spec \in {"d", "i", "u", "f"} THEN Numeric
  ELSE IF directive.spec = "s" THEN String ELSE Alternate

-----------------------------------------------------------------------------
\* ft_print_f

AnyDigits == <<"?">>
CallsF ==
  (IF value.word # <<>> THEN <<ft_strdup("mantiss", value.word)>>
   ELSE <<Enter("get_mantissa"), Enter("save_parts"), Enter("fract_length"), ft_strdel("mantiss"),
          Enter("ft_fround")>>)
    \o <<Enter("join_dot_to_decimal"), Move("result", "mantiss"), Enter("ft_width"),
         ft_putstr("result"), ft_strdel("result")>>

\* The mantissa bit by bit, the bit in front of it, and the power of 2 or 5;
\* the terminator of ft_strndup is one too far.
Bit(bits, k) ==
  When(bits[k] = 1,
       <<Computed("res", {}, AnyDigits), Computed("mantiss", {"mantiss", "res"}, AnyDigits)>>)
    \o When(k < MantBits,
         <<ft_strdup("new", <<"0">>), ft_strjoin_free("mantiss", "mantiss", "new")>>)
AddBits(bits) ==
  LET calls[k \in 0 .. MantBits] == IF k = 0 THEN <<>> ELSE calls[k - 1] \o Bit(bits, k)
  IN calls[MantBits]
GetMantissa ==
  LET front == <<ft_strdup("new", <<"0">>), ft_strjoin_free("mantiss", "new", "mantiss")>>
      scale == <<Computed("tmp", {}, AnyDigits),
                 Computed("mantiss", {"tmp", "mantiss"}, AnyDigits)>>
  IN {<<ft_strdup("mantiss", <<"0">>)>> \o AddBits(bits) \o front \o scale :
        bits \in {b \in [1 .. MantBits -> {0, 1}] : \E k \in DOMAIN b : b[k] = 1}}
     \cup {<<Make("mantiss", [k \in 1 .. MantBits |-> "0"], MantBits + 1, MantBits + 2, "null")>>
             \o front \o mb_isset : mb_isset \in {scale, <<>>}}

\* e < 0: padd makes the fraction, else ft_strsub and ft_strdup make both.
SaveParts ==
  {<<Computed("fract", {}, value.fract), ft_strdup("decimal", value.decimal)>>,
   <<ft_strdup("decimal", value.decimal), ft_strdup("fract", value.fract)>>}
FractLength == {<<>>, Replace("fract", <<Computed("fract", {}, value.fract)>>)}

\* is_roundable makes s and, halfway, leaves it and may add 1 to an odd decimal.
Round ==
  {<<Filled("s", value.fract), Enter("odd_half")>>,
   <<Filled("s", value.fract), Copy("new", <<>>, "fract", 0, Len(value.fract)),
     Computed("fsum", {"s", "new"}, value.fract), Enter("carry")>>}
OddHalf ==
  {<<>>, <<ft_strdup("new", <<"1">>), Computed("decimal", {"decimal", "new"}, value.decimal)>>}

\* The old fraction is freed, unless there is a carry.
Carry ==
  {<<ft_strdup("carry", <<"1">>), Computed("decimal", {"carry", "decimal"}, value.decimal),
     ft_strdup("fract", value.fract), ft_strdel("fsum"), Enter("cut")>>,
   <<Move("carry", "fract"), Move("fract", "fsum"), ft_strdel("carry"), Enter("cut")>>}

JoinDot ==
  When(ptr["decimal"] # NULL /\ ptr["fract"] # NULL,
    (IF "HASH" \in directive.flag \/ directive.precision # 0
       THEN <<ft_strdup("new", <<".">>), ft_strjoin_free("mantiss", "decimal", "new"),
              ft_strjoin_free("mantiss", "mantiss", "fract")>>
     ELSE <<Copy("mantiss", <<>>, "decimal", 0, Len(value.decimal)), ft_strdel("decimal"),
            ft_strdel("fract")>>)
    \o When(value.neg, <<ft_strdup("new", <<"-">>), ft_strjoin_free("mantiss", "new", "mantiss")>>))

-----------------------------------------------------------------------------
\* The strings a function looks into when it is entered, and what it calls.
ReadsOf(f) ==
  CASE f = "pad_alternate" -> {"result", "prefix"}
    [] f \in {"ft_precision", "ft_width", "pad_numeric"} -> {"result"}
    [] f = "save_parts" -> {"mantiss"}
    [] f \in {"fract_length", "ft_fround", "cut"} -> {"fract"}
    [] f = "odd_half" -> {"decimal"}
    [] f = "carry" -> {"fsum"}
    [] OTHER -> {}

BodyOf(f) ==
  CASE f = "ft_precision" -> {Precision}
    [] f = "ft_width" -> {Width}
    [] f = "pad_numeric" -> {PadNumeric}
    [] f = "pad_alternate" -> {PadAlternate}
    [] f = "null_string" -> {NullString}
    [] f = "get_mantissa" -> GetMantissa
    [] f = "save_parts" -> SaveParts
    [] f = "fract_length" -> FractLength
    [] f = "ft_fround" -> Round
    [] f = "odd_half" -> OddHalf
    [] f = "carry" -> Carry
    [] f = "cut" -> {<<>>}
    [] f = "join_dot_to_decimal" -> {JoinDot}

Printer ==
  CASE directive.spec \in SpecsDI    -> CallsD
    [] directive.spec \in SpecsPOUBX -> CallsPoubx
    [] directive.spec = "s"          -> CallsS
    [] directive.spec = "f"          -> CallsF
    [] OTHER                         -> non_spec_char

\* initialize_args clears three of the pointers.
MemoryInit ==
  /\ \E c \in Conversion : directive = c[1] /\ value = c[2]
  /\ ptr = [p \in Pointers |-> IF p \in {"result", "decimal", "fract"} THEN NULL ELSE Wild]
  /\ heap = [b \in {} |-> NULL] /\ blocks = 0
  /\ todo = Printer
  /\ written = <<>> /\ end = "" /\ failed = FALSE

-----------------------------------------------------------------------------
\* The steps

call == Head(todo)
Calls(op) == end = "" /\ todo # <<>> /\ call.op = op
Used ==
  CASE call.op = "enter" -> ReadsOf(call.f)
    [] call.op = "digits" -> call.from
    [] call.op = "join" -> {call.a, call.b}
    [] call.op \in {"copy", "padd"} -> {call.from}
    [] call.op \in {"del", "put"} -> {call.p}
    [] OTHER -> {}
Live(p) == ptr[p] \in DOMAIN heap
Sound == \A p \in Used : Live(p) \/ ptr[p] = NULL
IsNull(p) == ptr[p] = NULL

Without(h, gone) == [b \in DOMAIN h \ gone |-> h[b]]
\* to points to a new block, and the blocks in gone are freed.
Allocate(to, text, size, used, gone) ==
  /\ blocks' = blocks + 1
  /\ heap' = [b \in (DOMAIN heap \ gone) \cup {blocks + 1} |->
                IF b = blocks + 1 THEN [text |-> text, size |-> size, used |-> used, for |-> to]
                ELSE heap[b]]
  /\ ptr' = [ptr EXCEPT ![to] = blocks + 1]
  /\ todo' = Tail(todo)
  /\ UNCHANGED <<directive, value, written, end, failed>>
AllocateText(to, text, gone) == Allocate(to, text, Len(text) + 1, Len(text) + 1, gone)
GetNull(to, gone, why) ==
  /\ ptr' = [ptr EXCEPT ![to] = NULL] /\ heap' = Without(heap, gone)
  /\ failed' = (failed \/ why = "no memory")
  /\ todo' = Tail(todo)
  /\ UNCHANGED <<directive, value, blocks, written, end>>
Stop(how, why) ==
  /\ end' = how /\ failed' = (failed \/ why = "no memory")
  /\ UNCHANGED <<directive, value, todo, ptr, heap, blocks, written>>

DoMake ==
  /\ Calls("make")
  /\ \/ Allocate(call.to, call.text, call.size, call.used, {})
     \/ call.lack = "null" /\ GetNull(call.to, {}, "no memory")
     \/ call.lack = "fault" /\ Stop("fault", "no memory")

DoCopy ==
  /\ Calls("copy") /\ Sound
  /\ IF IsNull(call.from) THEN GetNull(call.to, {}, "null argument")
     ELSE \/ LET copied == SubSeq(Text(call.from), call.start + 1, call.start + call.len)
             IN AllocateText(call.to, call.front \o copied, {})
          \/ GetNull(call.to, {}, "no memory")

\* Given NULL, or without memory, it frees nothing.
DoJoin ==
  /\ Calls("join") /\ Sound
  /\ IF IsNull(call.a) \/ IsNull(call.b) THEN GetNull(call.to, {}, "null argument")
     ELSE \/ AllocateText(call.to, Text(call.a) \o Text(call.b), {ptr[call.a], ptr[call.b]})
          \/ GetNull(call.to, {}, "no memory")

\* Mutant: without memory for the padding the string is printed as it is.
PaddFailsOpen(to, from) ==
  /\ ptr' = [ptr EXCEPT ![to] = ptr[from]]
  /\ failed' = TRUE /\ todo' = Tail(todo)
  /\ UNCHANGED <<directive, value, heap, blocks, written, end>>
PaddFails(to, from) == GetNull(to, {}, "no memory")

\* The first of its two allocations is filled without a look at it.
DoPadd ==
  /\ Calls("padd") /\ Sound
  /\ \/ call.n > 0 /\ Stop("fault", "no memory")
     \/ IF IsNull(call.from) THEN GetNull(call.to, {}, "null argument")
        ELSE LET text == SubSeq(Text(call.from), call.skip + 1, Len(Text(call.from)))
             IN \/ AllocateText(call.to, padd(text, call.n, call.c, call.side), {})
                \/ PaddFails(call.to, call.from)

\* NULL is not checked for; a failure inside may end in either way.
DoDigits ==
  /\ Calls("digits") /\ Sound
  /\ IF \E p \in call.from : IsNull(p) THEN Stop("fault", "null argument")
     ELSE LET gone == {ptr[p] : p \in call.from}
          IN \/ AllocateText(call.to, call.text, gone)
             \/ GetNull(call.to, gone, "no memory")
             \/ Stop("fault", "no memory")

DoDel ==
  /\ Calls("del") /\ Sound
  /\ GetNull(call.p, {ptr[call.p]}, "")

DoMove ==
  /\ Calls("move")
  /\ ptr' = [ptr EXCEPT ![call.to] = ptr[call.from]]
  /\ todo' = Tail(todo)
  /\ UNCHANGED <<directive, value, heap, blocks, written, end, failed>>

\* NULL prints nothing.
DoPut ==
  /\ Calls("put") /\ Sound
  /\ written' = IF IsNull(call.p) THEN written ELSE written \o Text(call.p)
  /\ todo' = Tail(todo)
  /\ UNCHANGED <<directive, value, ptr, heap, blocks, end, failed>>

DoEnter ==
  /\ Calls("enter") /\ Sound
  /\ IF \E p \in ReadsOf(call.f) : IsNull(p) THEN Stop("fault", "")
     ELSE /\ \E calls \in BodyOf(call.f) : todo' = calls \o Tail(todo)
          /\ UNCHANGED <<directive, value, ptr, heap, blocks, written, end, failed>>

\* The end of the function, or a pointer that must not be used.
Halt ==
  /\ end = "" /\ (todo # <<>> => ~Sound)
  /\ Stop(IF todo = <<>> THEN "done" ELSE "misused", "")

MemoryNext ==
  \/ DoMake \/ DoCopy \/ DoJoin \/ DoPadd \/ DoDigits \/ DoDel \/ DoMove \/ DoPut \/ DoEnter
  \/ Halt
  \/ (end # "" /\ UNCHANGED memoryVars)

MemorySpec == MemoryInit /\ [][MemoryNext]_memoryVars

-----------------------------------------------------------------------------
\* The text of the directive, as Conversions has it.
FloatText ==
  IF value.word # <<>> THEN value.word
  ELSE (IF value.neg THEN <<"-">> ELSE <<>>) \o value.decimal
         \o (IF "HASH" \in directive.flag \/ directive.precision # 0 THEN <<".">> \o value.fract
             ELSE <<>>)
Promised ==
  CASE directive.spec \in SpecsDI    -> ft_print_d(directive, value)
    [] directive.spec \in SpecsPOUBX -> ft_print_poubx(directive, value)
    [] directive.spec = "s"          ->
         ft_print_s(directive, IF value = NoString THEN Null ELSE value)
    [] directive.spec = "f"          -> ft_width(directive, FloatText, 0)
    [] OTHER                         -> ft_print_c(directive, directive.spec)

\* What is printed is the text of the directive, all of it, unless a malloc has
\* failed; then it is all of it or nothing.  Only %s prints something else: the
\* text for no string instead of that of the string it could not copy.
AllOrNothing ==
  /\ end = "done" /\ ~failed => written = Promised
  /\ written \notin {<<>>, Promised} =>
       failed /\ directive.spec = "s" /\ written = ft_print_s(directive, Null)

\* Whatever fails, no block is freed twice or used after it was freed, no pointer
\* is used before it was set, and NULL is dereferenced only after a failure.
\* Nothing is stored outside of a block but the terminators of ft_utoa and
\* ft_strndup.
BlocksRespected ==
  /\ end # "misused" /\ (end = "fault" => failed)
  /\ \A b \in DOMAIN heap :
       heap[b].used <= heap[b].size + 1
         /\ (heap[b].used > heap[b].size =>
               (directive.spec = "u" /\ value # 0) \/ heap[b].for = "mantiss")

\* Unless a malloc fails all blocks are freed at the end, but for one: the copy
\* of an empty string that is cut to the precision 0; and for %f, s when the
\* number lies halfway and the old fraction when the rounding carries.
LeaksKnown ==
  end = "done" /\ ~failed =>
    IF directive.spec = "s" /\ directive.precision = 0 /\ value = <<>>
      THEN Cardinality(DOMAIN heap) = 1
    ELSE IF directive.spec = "f" /\ value.word = <<>>
      THEN Cardinality(DOMAIN heap) <= 1 /\ \A b \in DOMAIN heap : heap[b].for \in {"s", "fract"}
    ELSE DOMAIN heap = {}
=============================================================================
