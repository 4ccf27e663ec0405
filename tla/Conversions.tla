---------------------------- MODULE Conversions -----------------------------
(***************************************************************************)
(* How ft_printf turns a value into text (libft/ft_printf/src): the        *)
(* conversion to a base, the precision, the field width.  A text is a      *)
(* sequence of characters, a character a string of length one.             *)
(*                                                                         *)
(* A directive is a record with the fields of t_args that the conversions  *)
(* read: flag and modifier are sets, width and precision are of type int,  *)
(* precision is -1 when there is none.  An operation on args->result takes *)
(* and returns a text; strings are freed where the code replaces them.     *)
(***************************************************************************)
EXTENDS Integers, Sequences

CONSTANTS
  LongBits, IntBits, ShortBits, CharBits   \* the widths of the C types

ASSUME BitsAssumption ==
  /\ {LongBits, IntBits, ShortBits, CharBits} \subseteq Nat \ {0}
  /\ CharBits <= ShortBits /\ ShortBits <= IntBits /\ IntBits <= LongBits

Digits == <<"0", "1", "2", "3", "4", "5", "6", "7", "8", "9", "a", "b", "c", "d", "e", "f">>
Blank == " "
Uppers == [a |-> "A", b |-> "B", c |-> "C", d |-> "D", e |-> "E", f |-> "F"]
SpecsDI == {"d", "i"}
SpecsPOUBX == {"p", "o", "u", "b", "x", "X"}

-----------------------------------------------------------------------------
\* Values

Unsigned(n, w) == n % 2^w
Signed(n, w) == LET r == n % 2^w IN IF r >= 2^(w - 1) THEN r - 2^w ELSE r

\* ft_signed and ft_unsigned: the value of the argument slot v, and what the
\* directive takes it for.
LongModifiers == {"L", "LL", "Z", "J"}
Narrow(d, w) ==
  IF "H" \in d.modifier THEN ShortBits ELSE IF "HH" \in d.modifier THEN CharBits ELSE w

TakesLong(d) ==
  d.modifier \cap LongModifiers # {} \/ (d.spec \in {"p", "b"})
ft_unsigned(d, v) ==
  LET u == Unsigned(v, IF TakesLong(d) THEN LongBits ELSE IntBits)
  IN Unsigned(u, Narrow(d, LongBits))
ft_signed(d, v) ==
  IF TakesLong(d) THEN Signed(v, LongBits) ELSE Signed(Signed(v, IntBits), Narrow(d, IntBits))

-----------------------------------------------------------------------------
\* Texts

Repeat(c, n) == [k \in 1 .. n |-> c]
padd(t, n, c, side) ==
  IF n <= 0 THEN t ELSE IF side = "R" THEN t \o Repeat(c, n) ELSE Repeat(c, n) \o t

\* shift_bits, conversion of ft_utoa: the digits of n, last one first found.
Numeral(n, base) ==
  LET digits[k \in 0 .. n] ==
        IF k < base THEN <<Digits[k + 1]>> ELSE Append(digits[k \div base], Digits[(k % base) + 1])
  IN digits[n]
ft_strupper(t) == [k \in DOMAIN t |-> IF t[k] \in DOMAIN Uppers THEN Uppers[t[k]] ELSE t[k]]

Base == [u |-> 10, b |-> 2, o |-> 8, x |-> 16, X |-> 16, p |-> 16]
ft_base(d, n) ==
  IF d.spec = "X" THEN ft_strupper(Numeral(n, 16)) ELSE Numeral(n, Base[d.spec])
ft_ltoa(n) == IF n < 0 THEN <<"-">> \o Numeral(-n, 10) ELSE Numeral(n, 10)

Negative(t) == t # <<>> /\ t[1] = "-"
Drop(t, n) == SubSeq(t, n + 1, Len(t))

\* ft_precision with is_s and ft_poubx.
ft_precision(d, t) ==
  IF d.spec = "s" THEN IF d.precision \in 0 .. Len(t) THEN SubSeq(t, 1, d.precision) ELSE t
  ELSE IF d.spec \in SpecsPOUBX THEN padd(t, d.precision - Len(t), "0", "L")
  ELSE IF Negative(t) THEN <<"-">> \o padd(Drop(t, 1), d.precision - (Len(t) - 1), "0", "L")
  ELSE padd(t, d.precision - Len(t), "0", "L")

-----------------------------------------------------------------------------
\* Field width

NaN == <<"n", "a", "n">>
Infs == {s \o <<"i", "n", "f">> : s \in {<<>>, <<"-">>, <<"+">>, <<Blank>>}}

\* manage_sign: what is put in front of a text that has no sign.
SignPut(d, t) ==
  IF Negative(t) \/ d.spec = "u" \/ t = NaN THEN <<>>
  ELSE IF "PLUS" \in d.flag THEN <<"+">> ELSE IF "SPACE" \in d.flag THEN <<Blank>> ELSE <<>>

\* Mutant: the zeros come in front of the sign.
NumericZerosFirst(d, t) ==
  LET all == SignPut(d, t) \o t
      pad == d.width - Len(all)
  IN IF "ZERO" \in d.flag THEN padd(all, pad, "0", "L") ELSE padd(all, pad, Blank, "L")

ft_numeric(d, t) ==
  LET all  == SignPut(d, t) \o t
      pad  == d.width - Len(all)
      sign == IF Negative(t) \/ SignPut(d, t) # <<>> THEN 1 ELSE 0
  IN IF "ZERO" \in d.flag /\ all # NaN /\ all \notin Infs
       THEN SubSeq(all, 1, sign) \o padd(Drop(all, sign), pad, "0", "L")
     ELSE padd(all, pad, Blank, IF "MINUS" \in d.flag THEN "R" ELSE "L")

ft_string(d, t) ==
  LET pad == d.width - Len(t)
  IN IF "MINUS" \in d.flag THEN padd(t, pad, Blank, "R")
     ELSE padd(t, pad, IF "ZERO" \in d.flag THEN "0" ELSE Blank, "L")

\* u is the value the text stands for.
get_prefix(d, t, u) ==
  IF d.spec = "p" THEN <<"0", "x">>
  ELSE IF "HASH" \notin d.flag THEN <<>>
  ELSE IF d.spec \in {"x", "X"} THEN IF u # 0 THEN <<"0", d.spec>> ELSE <<>>
  ELSE IF d.spec = "o" THEN IF t = <<>> \/ t[1] # "0" THEN <<"0">> ELSE <<>>
  ELSE IF d.spec = "b" THEN <<"0", "b">>
  ELSE <<>>

\* Mutant: the width does not count the prefix.
AlternateWider(d, t, u) ==
  LET side == IF "MINUS" \in d.flag THEN "R" ELSE "L"
      pad  == d.width - Len(t)
  IN IF "ZERO" \in d.flag THEN get_prefix(d, t, u) \o padd(t, pad, "0", side)
     ELSE padd(get_prefix(d, t, u) \o t, pad, Blank, side)

ft_alternate(d, t, u) ==
  LET side == IF "MINUS" \in d.flag THEN "R" ELSE "L"
      pad  == d.width - (Len(t) + Len(get_prefix(d, t, u)))
  IN IF "ZERO" \in d.flag THEN get_prefix(d, t, u) \o padd(t, pad, "0", side)
     ELSE padd(get_prefix(d, t, u) \o t, pad, Blank, side)

ft_width(d, t, u) ==
  IF d.spec \in {"d", "i", "u", "f"} THEN ft_numeric(d, t)
  ELSE IF d.spec = "s" THEN ft_string(d, t)
  ELSE ft_alternate(d, t, u)

-----------------------------------------------------------------------------
\* The printers.  Their shortcut for a directive without flags, width and
\* precision prints what the other way leads to.

ft_print_d(d, x) ==
  ft_width(d, IF d.precision = 0 /\ x = 0 THEN <<>> ELSE ft_precision(d, ft_ltoa(x)), x)

ft_print_poubx(d, u) ==
  ft_width(d, ft_precision(d, IF u = 0 /\ d.precision = 0 THEN <<>> ELSE ft_base(d, u)), u)

Null == <<"(", "n", "u", "l", "l", ")">>
ft_print_s(d, t) == ft_width(d, ft_precision(d, t), 0)

\* ft_print_c, and non_spec_char, which does the same for a character that is
\* no specifier.
ft_print_c(d, c) ==
  padd(<<c>>, d.width - 1, IF "ZERO" \in d.flag THEN "0" ELSE Blank,
       IF "MINUS" \in d.flag THEN "R" ELSE "L")
=============================================================================
