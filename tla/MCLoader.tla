------------------------------ MODULE MCLoader ------------------------------
(***************************************************************************)
(* Files with a table of up to two symbols behind the null symbol, two     *)
(* tables, or a table with a broken entry at its end; their three tables   *)
(* in every order, the section headers in front of them or behind; cut     *)
(* anywhere.                                                               *)
(***************************************************************************)
EXTENDS Loader, FiniteSets

MCDotted == UNION {NamesUnder(g) : g \in DOMAIN SectionNames} \cup EhFrame

Entry(name, type, binding, shndx, value) ==
  [name |-> name, type |-> type, binding |-> binding, visibility |-> "DEFAULT",
   shndx |-> shndx, value |-> value]
Entries == {
  Entry(0, "SECTION", "LOCAL", 1, 0),
  Entry(1, "OBJECT", "LOCAL", 1, 1),
  Entry(1, "NOTYPE", "GLOBAL", UNDEF, 0),
  Entry(1, "NOTYPE", "GLOBAL", LCOMMON, 0),
  Entry(0, "NOTYPE", "LOCAL", ABS, 1)}
MCTables == UNION {[1 .. n -> Entries] : n \in 0 .. 2}

SymbolNames == <<"", "a">>
SectionNamesHere == <<"", ".data", ".symtab">>
Orderings == {o \in [{"symtab", "strtab", "shstrtab"} -> 1 .. 3] : Cardinality({o[b] : b \in DOMAIN o}) = 3}

\* The null section, .data, the table, its strings and the names of sections,
\* which may come in front of the table, and maybe a second table.
ImageOf(table, extra, order, headersFirst, shape) ==
  LET all == <<NullEntry>> \o table
      sizeOf == [symtab |-> Len(all) * EntSize + extra, strtab |-> 2, shstrtab |-> 3]
      shnumHere == IF shape = "two tables" THEN 6 ELSE 5
      start == IF headersFirst THEN 1 + shnumHere ELSE 1
      at[k \in 1 .. 4] ==
        IF k = 1 THEN start
        ELSE at[k - 1] + sizeOf[CHOOSE b \in DOMAIN order : order[b] = k - 1]
      offset == [b \in DOMAIN order |-> at[order[b]]]
      end == IF headersFirst THEN at[4] ELSE at[4] + shnumHere
      data == [NullHeader EXCEPT !.type = "PROGBITS", !.flags = {"ALLOC", "WRITE"}, !.name = 1]
      symtab == [type |-> "SYMTAB", flags |-> {}, name |-> 2, offset |-> offset.symtab,
                 size |-> sizeOf.symtab, link |-> IF shape = "names first" THEN 4 ELSE 3]
      stringTable(b) == [type |-> "STRTAB", flags |-> {}, name |-> 0, offset |-> offset[b],
                         size |-> sizeOf[b], link |-> 0]
  IN [headers |-> <<NullHeader, data>> \o
        CASE shape = "usual"       -> <<symtab, stringTable("strtab"), stringTable("shstrtab")>>
          [] shape = "names first" -> <<stringTable("shstrtab"), symtab, stringTable("strtab")>>
          [] shape = "two tables"  -> <<symtab, stringTable("strtab"), stringTable("shstrtab"), symtab>>,
      shoff |-> IF headersFirst THEN 1 ELSE at[4],
      shstrndx |-> IF shape = "names first" THEN 2 ELSE 4,
      strings |-> [o \in 0 .. end - 1 |->
        IF o \in offset.strtab .. offset.strtab + 1 THEN SymbolNames[o - offset.strtab + 1]
        ELSE IF o \in offset.shstrtab .. offset.shstrtab + 2 THEN SectionNamesHere[o - offset.shstrtab + 1]
        ELSE "other bytes"],
      entries |-> [o \in 0 .. end - 1 |->
        IF o \in {offset.symtab + j * EntSize : j \in 0 .. Len(all) - 1}
          THEN all[(o - offset.symtab) \div EntSize + 1] ELSE NullEntry],
      end |-> end, size |-> end]

WholeImages ==
  {ImageOf(t, 0, o, first, "usual") : t \in MCTables, o \in Orderings, first \in BOOLEAN}
    \cup {ImageOf(t, 0, o, FALSE, "names first") : t \in MCTables, o \in Orderings}
    \cup {ImageOf(t, extra, o, first, "two tables") :
            t \in {x \in MCTables : Len(x) = 1}, extra \in {0, 1}, o \in Orderings, first \in BOOLEAN}
MCImages == UNION {{[im EXCEPT !.size = n] : n \in 1 .. im.end} : im \in WholeImages}
=============================================================================
