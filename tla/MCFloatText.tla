---------------------------- MODULE MCFloatText -----------------------------
(***************************************************************************)
(* Mantissas of four bits, every exponent of three bits on both sides of 0, *)
(* precisions from none to beyond the last digit.                          *)
(***************************************************************************)
EXTENDS FloatText

MCFloats ==
  LET Finite == [neg : BOOLEAN, bit : {1}, mantissa : 0 .. Power(2, MantBits) - 1, exponent : 1 .. 2 * Bias]
      Denormal == [neg : {FALSE}, bit : {0, 1}, mantissa : 0 .. Power(2, MantBits) - 1, exponent : {0}]
      Special == [neg : BOOLEAN, bit : {1}, mantissa : {0, 1}, exponent : {2 * Bias + 1}]
  IN Finite \cup Denormal \cup Special
       \cup [neg : {TRUE}, bit : {0}, mantissa : {0}, exponent : {0}]
MCPrecisions == 0 .. 8
=============================================================================
