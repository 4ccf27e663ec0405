--------------------------- MODULE MCGetNextLine ----------------------------
(***************************************************************************)
(* Two descriptors of the table, one behind it and one that is refused;    *)
(* texts of up to four characters; two files, at once or one after the     *)
(* other on the same descriptor; reads of one or two characters; two       *)
(* failures, so that memory may be short after a read has failed.          *)
(***************************************************************************)
EXTENDS GetNextLine

MCTexts == {
  <<>>, <<LF>>, <<"a", LF, "a", LF>>, <<LF, LF, "a">>, <<"a", "a", LF>>,
  <<LF, LF, LF, LF>>, <<"a", NUL, LF>>}
=============================================================================
