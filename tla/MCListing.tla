----------------------------- MODULE MCListing ------------------------------
(***************************************************************************)
(* Files for Listing.  Section 0 is the null section; every table begins   *)
(* with the null symbol.                                                   *)
(***************************************************************************)
EXTENDS Listing

MCDotted == UNION {NamesUnder(g) : g \in DOMAIN SectionNames} \cup EhFrame \cup {".other"}
MCNameRank == [n \in MCDotted |-> 1] @@ ("" :> 0) @@ ("a" :> 2) @@ ("b" :> 3)
MCNames == 0 .. 3
MCMaxSyms == 4

Symbol(name, type, binding, shndx, value) ==
  [name |-> name, type |-> type, binding |-> binding, visibility |-> "DEFAULT",
   shndx |-> shndx, value |-> value]
NullSymbol == Symbol("", "NOTYPE", "LOCAL", UNDEF, 0)

Sec(type, flags, name) == [type |-> type, flags |-> flags, name |-> name, symbols |-> <<>>]
NullSection == Sec("NULL", {}, "")
Data == Sec("PROGBITS", {"ALLOC", "WRITE"}, ".data")
Symtab(symbols) == [Sec("SYMTAB", {}, ".symtab") EXCEPT !.symbols = <<NullSymbol>> \o symbols]

-----------------------------------------------------------------------------
\* Tables of up to three symbols behind the null symbol: equal names, names
\* that come from sections, symbols without name or value, locals and globals.
\* And files with no table or two.
TableSymbols == {
  Symbol("", "SECTION", "LOCAL", 1, 0),
  Symbol("a", "FILE", "LOCAL", ABS, 0),
  Symbol("", "NOTYPE", "LOCAL", ABS, 1),
  Symbol("a", "OBJECT", "LOCAL", 1, 1),
  Symbol("a", "NOTYPE", "GLOBAL", UNDEF, 0),
  Symbol("b", "OBJECT", "GLOBAL", 1, 0),
  Symbol("b", "FUNC", "WEAK", UNDEF, 0)}

TableFiles ==
  LET tables == UNION {[1 .. n -> TableSymbols] : n \in 0 .. 3}
      other  == Symtab(<<Symbol("b", "OBJECT", "GLOBAL", 1, 2)>>)
  IN {<<NullSection, Data, Symtab(t)>> : t \in tables}
       \cup {<<NullSection, Data, Symtab(t), other>> : t \in UNION {[1 .. n -> TableSymbols] : n \in 0 .. 1}}
       \cup {<<NullSection, Data>>}

-----------------------------------------------------------------------------
\* One symbol of every kind in sections of every kind: all the attributes of
\* the symbol, all the types and flags of the section, all the section names.
OneSymbol(section, s) == <<NullSection, section, Symtab(<<s>>)>>

Attributes ==
  [name : {"a"}, type : {"NOTYPE", "OBJECT", "FUNC", "IFUNC"},
   binding : {"LOCAL", "GLOBAL", "WEAK", "UNIQUE"}, visibility : {"DEFAULT", "HIDDEN"},
   shndx : {UNDEF, 1, 2, LCOMMON, ABS, COMMON}, value : {1}]

\* Symbols without a name or with that of a debugging section, of every binding.
OddlyNamed ==
  [name : {"", ".debug_info"}, type : {"NOTYPE"}, binding : {"LOCAL", "GLOBAL", "WEAK"},
   visibility : {"DEFAULT"}, shndx : {UNDEF, 1, LCOMMON, ABS, COMMON}, value : {0, 1}]

KindFiles ==
  {OneSymbol(Data, s) : s \in Attributes \cup OddlyNamed}
    \cup {OneSymbol(Sec(t, fl, ".other"), Symbol("a", "OBJECT", b, 1, 1)) :
            t \in SectionTypes \ {"SYMTAB"}, fl \in SUBSET SectionFlags, b \in {"LOCAL", "GLOBAL"}}
    \cup {OneSymbol(Sec("PROGBITS", fl, n), Symbol("", "SECTION", "LOCAL", 1, 0)) :
            fl \in SUBSET {"ALLOC", "WRITE"}, n \in MCDotted}

MCFiles == TableFiles \cup KindFiles
=============================================================================
