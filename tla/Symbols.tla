------------------------------ MODULE Symbols ------------------------------
(***************************************************************************)
(* How ft_nm chooses the letter of a symbol (srcs/symboles_handler.c,      *)
(* srcs/get_section_name.c), for 32- and 64-bit files alike.               *)
(*                                                                         *)
(* A section is [type, flags, name, symbols]: flags a set, symbols the     *)
(* entries of a symbol table and <<>> elsewhere.  An entry of the table is *)
(* [name, type, binding, visibility, shndx, value].  Section 0 of a file   *)
(* is the first of the sequence.  Constants of elf.h lose their prefix.    *)
(***************************************************************************)
EXTENDS Integers, Sequences

CONSTANT Dotted   \* the names that start with a dot

NoName == ""      \* the name of what has none

\* Reserved section indices.
UNDEF   == 0
LCOMMON == 65282  \* SHN_X86_64_LCOMMON, one the code does not know
ABS     == 65521
COMMON  == 65522

SectionTypes == {"NULL", "PROGBITS", "SYMTAB", "STRTAB", "RELA", "HASH", "DYNAMIC", "NOTE",
                 "NOBITS", "REL", "DYNSYM", "GNU_verdef", "GNU_versym", "other"}
SectionFlags == {"WRITE", "ALLOC", "EXECINSTR", "other"}
ReadOnlyTypes == {"RELA", "REL", "HASH", "GNU_versym", "GNU_verdef", "STRTAB", "DYNSYM", "NOTE"}

get_symbol_section_char(sec) ==
  IF sec.flags = {} THEN "N"
  ELSE IF sec.type = "NOBITS" /\ sec.flags \cap {"ALLOC", "WRITE"} # {} THEN "B"
  ELSE IF sec.type = "PROGBITS" /\ "ALLOC" \in sec.flags THEN
         IF "WRITE" \in sec.flags THEN "D"
         ELSE IF "EXECINSTR" \in sec.flags THEN "T" ELSE "R"
  ELSE IF sec.type \in ReadOnlyTypes /\ "ALLOC" \in sec.flags THEN "R"
  ELSE IF sec.type = "DYNAMIC" THEN "D"
  ELSE "?"

\* Mutant: a weak symbol is never looked up among the undefined ones.
WeakDefined(s) ==
  IF s.binding = "UNIQUE" THEN "u"
  ELSE IF s.binding = "WEAK" THEN IF s.type = "OBJECT" THEN "V" ELSE "W"
  ELSE IF s.shndx = ABS THEN "A" ELSE IF s.type = "IFUNC" THEN "i"
  ELSE IF s.shndx = UNDEF THEN "U" ELSE IF s.shndx = COMMON THEN "C" ELSE "?"

\* "?" leaves the choice to the section of the symbol.
get_symb_type_and_visibility(s) ==
  IF s.binding = "UNIQUE" THEN "u"
  ELSE IF s.binding = "WEAK" /\ s.type = "OBJECT"
         THEN IF s.shndx = UNDEF THEN "v" ELSE "V"
  ELSE IF s.binding = "WEAK" /\ s.visibility = "DEFAULT"
         THEN IF s.shndx = UNDEF THEN "w" ELSE "W"
  ELSE IF s.shndx = ABS THEN "A"
  ELSE IF s.type = "IFUNC" THEN "i"
  ELSE IF s.shndx = UNDEF THEN "U"
  ELSE IF s.shndx = COMMON THEN "C"
  ELSE "?"

\* The table of get_section_name: under the letter its comments give, the
\* number returned for each name.
SectionNames == [
  A |-> {<<0, {".symtab"}>>, <<1, {".strtab"}>>, <<2, {".shstrtab"}>>},
  B |-> {<<3, {".bss"}>>, <<4, {".tbss"}>>, <<5, {".sbss"}>>},
  D |-> {<<6, {".data"}>>, <<7, {".data.rel.ro"}>>, <<8, {".data.rel.ro.local"}>>, <<9, {".idata"}>>,
         <<10, {".sdata"}>>, <<11, {".sdata2"}>>, <<12, {".got.plt", ".got"}>>,
         <<19, {".debug_macro", ".dtors"}>>, <<20, {".dynamic", ".ctors", ".jcr"}>>},
  N |-> {<<21, {".comment"}>>, <<22, {".copyright"}>>,
         <<23, {".gnu_debug", ".gnu.warning.pthread_attr_getstackaddr",
                ".gnu.warning.pthread_attr_setstackaddr"}>>,
         <<24, {".ident", ".note.GNU-stack"}>>, <<25, {".SUNW", ".SUNW_ctf", ".SUNW_signature"}>>,
         <<26, {".debug_", ".debug_abbrev", ".debug_aranges", ".debug_frame", ".debug_info",
                ".debug_line", ".debug_loc", ".debug_pubnames", ".debug_ranges", ".debug_str"}>>,
         <<27, {".gnu_debuglink"}>>},
  R |-> {<<28, {".dynstr", ".interp"}>>, <<29, {".rela.plt", ".note.ABI-tag"}>>,
         <<30, {".rel.plt", ".note.gnu.build-id"}>>, <<31, {".rela.bss"}>>,
         <<32, {".rela.got", ".rela.dyn"}>>,
         <<33, {".gnu.version_r", ".gnu.version", ".gnu.version_d"}>>, <<34, {".rodata"}>>,
         <<35, {".gnu.hash", ".hash"}>>, <<36, {".rdata", ".gcc_except_table"}>>, <<37, {".reloc"}>>,
         <<38, {".rsrc"}>>, <<39, {".rel.dyn"}>>,
         <<40, {".note.netbsd.ident", ".note.netbsd.pax"}>>, <<41, {".dynsym"}>>},
  T |-> {<<42, {".text"}>>, <<45, {".text.startup"}>>, <<46, {".ctors_array"}>>,
         <<47, {".dtors_array"}>>, <<48, {".init_array"}>>, <<49, {".fini_array"}>>,
         <<50, {".init"}>>, <<51, {".plt"}>>, <<52, {".plt.got"}>>, <<53, {".fini"}>>}]

NamesUnder(letter) == UNION {row[2] : row \in SectionNames[letter]}
EhFrame == {".eh_frame_hdr", ".eh_frame"}
ASSUME DottedAssumption ==
  /\ NoName \notin Dotted /\ EhFrame \subseteq Dotted
  /\ \A letter \in DOMAIN SectionNames : NamesUnder(letter) \subseteq Dotted

get_section_name(flags, name) ==
  IF name \in EhFrame THEN IF "WRITE" \in flags THEN 20 ELSE 40
  ELSE LET rows == {row \in UNION {SectionNames[g] : g \in DOMAIN SectionNames} : name \in row[2]}
       IN IF rows = {} THEN -1 ELSE (CHOOSE row \in rows : TRUE)[1]

\* Mutant: the ranges of D and N overlap by one, N is asked first.
RangeOffByOne(ret) ==
  IF ret \in 0 .. 2 THEN "A" ELSE IF ret \in 3 .. 5 THEN "B" ELSE IF ret \in 20 .. 27 THEN "N"
  ELSE IF ret \in 6 .. 20 THEN "D" ELSE IF ret \in 28 .. 41 THEN "R"
  ELSE IF ret \in 42 .. 53 THEN "T" ELSE "?"

RangeChar(ret) ==
  IF ret \in 0 .. 2 THEN "A"
  ELSE IF ret \in 3 .. 5 THEN "B"
  ELSE IF ret \in 6 .. 20 THEN "D"
  ELSE IF ret \in 21 .. 27 THEN "N"
  ELSE IF ret \in 28 .. 41 THEN "R"
  ELSE IF ret \in 42 .. 53 THEN "T"
  ELSE "?"

get_symb_based_on_section(sec, name) == RangeChar(get_section_name(sec.flags, name))

\* isNameMatch: the debugging sections whose letter stays a capital.
DebugNames == {".debug_abbrev", ".debug_aranges", ".debug_frame", ".debug_info", ".debug_line",
               ".debug_loc", ".debug_pubnames", ".debug_ranges", ".debug_str"}

\* TO_LOWER, c | ' ', on the letters above: u, v, w and i are lower case already.
Capitals == [A |-> "a", B |-> "b", C |-> "c", D |-> "d", N |-> "n", R |-> "r",
             T |-> "t", U |-> "u", V |-> "v", W |-> "w"]
ToLower(c) == IF c \in DOMAIN Capitals THEN Capitals[c] ELSE c
LowerCase == {"u", "v", "w", "i"} \cup {Capitals[c] : c \in DOMAIN Capitals}
Letters == DOMAIN Capitals \cup LowerCase

\* determine_symb of a symbol of the file with these sections; s.isSection tells
\* that s bears the name of its section.
SectionOf(sections, s) == sections[s.shndx + 1]
NeedsSection(s) == get_symb_type_and_visibility(s) = "?"

CaseOf(s, c) == IF s.binding = "LOCAL" /\ s.name \notin DebugNames THEN ToLower(c) ELSE c

\* Mutant: a letter nobody knew stays a question mark.
Unresolved(c) == c
Resolved(c) == IF c = "?" THEN "T" ELSE c

determine_symb(sections, s) ==
  LET own == get_symb_type_and_visibility(s)
      chosen == IF s.isSection /\ s.name \in Dotted
                  THEN get_symb_based_on_section(SectionOf(sections, s), s.name)
                ELSE IF own = "?" THEN get_symbol_section_char(SectionOf(sections, s))
                ELSE own
  IN CaseOf(s, Resolved(chosen))
=============================================================================
