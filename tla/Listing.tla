------------------------------ MODULE Listing -------------------------------
(***************************************************************************)
(* ft_nm on one file it has opened and whose headers it has accepted:      *)
(* parse_symtab32 / parse_symtab64 find and load the symbol table,         *)
(* print_symboles sorts it and walks it once per printer, and a line is    *)
(* appended to out for every symbol a printer shows.  mergeSort is one     *)
(* step, as StableSort promises.                                           *)
(*                                                                         *)
(* A file is the sequence of its sections (see Symbols).  A loaded symbol  *)
(* is a table entry with the fields t_symb adds: isSection (sh_type = -1)  *)
(* and char (type_char); at, its position in the table, is history.        *)
(***************************************************************************)
EXTENDS Symbols, SymbolOrder, TLC

CONSTANTS
  Files,    \* the files that may be listed
  NameRank  \* the rank of each name in the order of ft_strcmp

\* Entries and sections as they lie in a file; section 0 is the null section,
\* whose name is empty.
SymbolEntry == [name : STRING, type : STRING, binding : STRING, visibility : STRING,
                shndx : Nat, value : Nat]
SectionHeader == [type : SectionTypes, flags : SUBSET SectionFlags, name : STRING,
                  symbols : Seq(SymbolEntry)]
ASSUME FilesAssumption ==
  \A f \in Files : f \in Seq(SectionHeader) /\ (Len(f) > 0 => f[1].name = NoName)

Options == {"NO_SORT", "SORT_ORDER", "REVERSE_SORT", "DISPLAY_ALL",
            "UNDEFINED_SYMBOLS_ONLY", "EXTERNAL_ONLY"}
NoFlagOptions == {"NO_SORT", "SORT_ORDER", "REVERSE_SORT"}

VARIABLES
  file,     \* the sections of the file
  option,   \* the option in force for it
  pc,       \* scan, load, sort, print, done; exit1 or fault when it ends badly
  scan,     \* i of parse_symtab: how many sections are behind
  symb,     \* file->syms.symb: the symbols loaded so far, then all of them
  printer,  \* which of the four printers runs
  i,        \* its loop counter
  out       \* the lines printed

vars == <<file, option, pc, scan, symb, printer, i, out>>

Init ==
  /\ file \in Files
  /\ option \in Options
  /\ pc = "scan" /\ scan = 0 /\ symb = <<>>
  /\ printer = 1 /\ i = 0 /\ out = <<>>

-----------------------------------------------------------------------------
\* parse_symtab32 and parse_symtab64

Section(n) == file[n + 1]
AtSymtab == pc = "scan" /\ scan < Len(file) /\ Section(scan).type = "SYMTAB"

SkipSection ==
  /\ pc = "scan" /\ scan < Len(file) /\ Section(scan).type # "SYMTAB"
  /\ scan' = scan + 1
  /\ UNCHANGED <<file, option, pc, symb, printer, i, out>>

\* Only the first table counts: the loop over the sections ends with it.
EnterSymtab ==
  /\ AtSymtab
  /\ pc' = "load"
  /\ UNCHANGED <<file, option, scan, symb, printer, i, out>>

\* "Failed to allocate memory for symbol table".
MallocFails ==
  /\ AtSymtab
  /\ pc' = "exit1"
  /\ UNCHANGED <<file, option, scan, symb, printer, i, out>>

\* No table: nothing is loaded, and what follows prints nothing.
NoSymtab ==
  /\ pc = "scan" /\ scan = Len(file)
  /\ pc' = "sort"
  /\ UNCHANGED <<file, option, scan, symb, printer, i, out>>

Table == Section(scan).symbols
Entry == Table[Len(symb) + 1]
Loading == pc = "load" /\ Len(symb) < Len(Table)

\* A symbol without a name takes the name of its section and is marked.
Unnamed(e) == e.name = NoName /\ e.shndx < Len(file)
Fields(e, name, isSection) ==
  [name |-> name, type |-> e.type, binding |-> e.binding, visibility |-> e.visibility,
   shndx |-> e.shndx, value |-> e.value, isSection |-> isSection]

Named(e) == Fields(e, IF Unnamed(e) THEN Section(e.shndx).name ELSE e.name, Unnamed(e))

Loaded(s, c) == [at |-> Len(symb) + 1, name |-> s.name, binding |-> s.binding, shndx |-> s.shndx,
                 value |-> s.value, isSection |-> s.isSection, char |-> c]

\* The section header that a letter is read from is not there: the index is one
\* of the reserved ones the code does not know.
ReadsOutside(s) == NeedsSection(s) /\ s.shndx >= Len(file)

LoadSymbol ==
  /\ Loading
  /\ LET s == Named(Entry)
     IN \E c \in IF ReadsOutside(s) THEN {CaseOf(s, x) : x \in {"B", "D", "N", "R", "T"}}
                 ELSE {determine_symb(file, s)} :
          symb' = Append(symb, Loaded(s, c))
  /\ UNCHANGED <<file, option, pc, scan, printer, i, out>>

\* What lies there is not even mapped.
LoadFaults ==
  /\ Loading /\ ReadsOutside(Named(Entry))
  /\ pc' = "fault"
  /\ UNCHANGED <<file, option, scan, symb, printer, i, out>>

LoadDone ==
  /\ pc = "load" /\ Len(symb) = Len(Table)
  /\ pc' = "sort"
  /\ UNCHANGED <<file, option, scan, symb, printer, i, out>>

-----------------------------------------------------------------------------
\* print_symboles and its four printers

\* mergeSort(symb, n_syms_count, ord), on symbols that are still in table order.
SortSymbols(ord) ==
  LET ranks == [p \in DOMAIN symb |-> NameRank[symb[p].name]]
  IN \E arr \in Permutations(DOMAIN symb) :
       /\ StableSorted(arr, ord, ranks)
       /\ symb' = [p \in DOMAIN symb |-> symb[arr[p]]]

SortByOption ==
  /\ pc = "sort"
  /\ CASE option = "NO_SORT"      -> SortSymbols(0)
       [] option = "SORT_ORDER"   -> SortSymbols(1)
       [] option = "REVERSE_SORT" -> SortSymbols(-1)
       [] OTHER                   -> UNCHANGED symb
  /\ pc' = "start"
  /\ UNCHANGED <<file, option, scan, printer, i, out>>

\* The order print_symboles calls them in, and the options each answers to.
Printers == <<"undifined_symbols_only", "display_all", "external_only", "no_flag">>
OptionsOf == [undifined_symbols_only |-> {"UNDEFINED_SYMBOLS_ONLY"}, display_all |-> {"DISPLAY_ALL"},
              external_only |-> {"EXTERNAL_ONLY"}, no_flag |-> NoFlagOptions]

\* Mutants of the filters of two printers.
UndefinedNameless(s) == s.shndx = UNDEF
ExternalWithLocals(s) == s.char \in {"R", "W", "w", "D", "B", "U", "T", "A", "V", "i"}

undifined_symbols_only(s) == s.shndx = UNDEF /\ s.name # NoName
display_all(s) == ~(s.shndx = UNDEF /\ s.name = NoName)

external_only(s) ==
  s.char \in {"R", "W", "w", "D", "B", "U", "T", "A", "V", "i"} /\ s.binding # "LOCAL"

no_flag(s) ==
  ~(s.name = NoName /\ s.value = 0) /\ ~(s.char = "a" /\ s.value = 0) /\ ~s.isSection

Shows(s) ==
  CASE Printers[printer] = "undifined_symbols_only" -> undifined_symbols_only(s)
    [] Printers[printer] = "display_all"            -> display_all(s)
    [] Printers[printer] = "external_only"          -> external_only(s)
    [] Printers[printer] = "no_flag"                -> no_flag(s)

\* A line: an undefined symbol has blanks for its value.
Output(s) == [at |-> s.at, blank |-> s.shndx = UNDEF, char |-> s.char, name |-> s.name]

\* Mutant: the printers of -u, -a and -g do not sort.
StartPrinterUnsorted ==
  /\ pc = "start" /\ printer <= Len(Printers) /\ option \in OptionsOf[Printers[printer]]
  /\ pc' = "print" /\ i' = 0
  /\ UNCHANGED <<file, option, scan, symb, printer, out>>

\* The printers of -u, -a and -g sort for themselves.
StartPrinter ==
  /\ pc = "start" /\ printer <= Len(Printers) /\ option \in OptionsOf[Printers[printer]]
  /\ IF option \in NoFlagOptions THEN UNCHANGED symb ELSE SortSymbols(1)
  /\ pc' = "print" /\ i' = 0
  /\ UNCHANGED <<file, option, scan, printer, out>>

\* A malloc inside mergeSort fails: the copy into it faults.
SortFaults ==
  /\ Len(symb) > 1
  /\ \/ pc = "sort" /\ option \in NoFlagOptions
     \/ /\ pc = "start" /\ printer <= Len(Printers)
        /\ option \in OptionsOf[Printers[printer]] \ NoFlagOptions
  /\ pc' = "fault"
  /\ UNCHANGED <<file, option, scan, symb, printer, i, out>>

SkipPrinter ==
  /\ pc = "start" /\ printer <= Len(Printers) /\ option \notin OptionsOf[Printers[printer]]
  /\ printer' = printer + 1
  /\ UNCHANGED <<file, option, pc, scan, symb, i, out>>

PrintSymbol ==
  /\ pc = "print" /\ i < Len(symb) /\ Shows(symb[i + 1])
  /\ out' = Append(out, Output(symb[i + 1]))
  /\ i' = i + 1
  /\ UNCHANGED <<file, option, pc, scan, symb, printer>>

SkipSymbol ==
  /\ pc = "print" /\ i < Len(symb) /\ ~Shows(symb[i + 1])
  /\ i' = i + 1
  /\ UNCHANGED <<file, option, pc, scan, symb, printer, out>>

EndPrinter ==
  /\ pc = "print" /\ i = Len(symb)
  /\ printer' = printer + 1 /\ pc' = "start"
  /\ UNCHANGED <<file, option, scan, symb, i, out>>

ListingDone ==
  /\ pc = "start" /\ printer > Len(Printers)
  /\ pc' = "done"
  /\ UNCHANGED <<file, option, scan, symb, printer, i, out>>

Ended == pc \in {"done", "exit1", "fault"}
Stopped == Ended /\ UNCHANGED vars

LoadNext ==
  \/ SkipSection \/ EnterSymtab \/ MallocFails \/ NoSymtab
  \/ LoadSymbol \/ LoadFaults \/ LoadDone

Next ==
  \/ LoadNext
  \/ SortByOption \/ StartPrinter \/ SortFaults \/ SkipPrinter
  \/ PrintSymbol \/ SkipSymbol \/ EndPrinter \/ ListingDone
  \/ Stopped

Spec == Init /\ [][Next]_vars

-----------------------------------------------------------------------------
\* The table of the file, seen from outside the program: the first one.
SymtabsOf(f) == {n \in DOMAIN f : f[n].type = "SYMTAB"}
TableOf(f) ==
  IF SymtabsOf(f) = {} THEN <<>>
  ELSE f[CHOOSE n \in SymtabsOf(f) : \A m \in SymtabsOf(f) : n <= m].symbols
Source(line) == TableOf(file)[line.at]
Lines == {out[p] : p \in DOMAIN out}
RankAt == [p \in DOMAIN TableOf(file) |-> NameRank[Named(TableOf(file)[p]).name]]
OrderOf == [o \in Options |->
              IF o = "NO_SORT" THEN 0 ELSE IF o = "REVERSE_SORT" THEN -1 ELSE 1]

\* Types: what is loaded are symbols of the table, each with a letter of nm.
TypeOK ==
  /\ option \in Options
  /\ pc \in {"scan", "load", "sort", "start", "print", "done", "exit1", "fault"}
  /\ scan \in 0 .. Len(file) /\ printer \in 1 .. Len(Printers) + 1 /\ i \in 0 .. Len(symb)
  /\ \A p \in DOMAIN symb :
       symb[p].at \in DOMAIN TableOf(file) /\ symb[p].char \in Letters
  /\ \A l \in Lines : l.at \in DOMAIN TableOf(file)

\* Each option lists exactly the symbols it is for, whatever names were
\* replaced on the way: -u the undefined, -a all but the null symbol, the
\* others all but section symbols, symbols with neither name nor value, and
\* absolute locals without a value that do not get a capital for their name.
Promised(o, e) ==
  CASE o = "UNDEFINED_SYMBOLS_ONLY" -> e.name # NoName /\ e.shndx = UNDEF
    [] o = "DISPLAY_ALL"            -> e.name # NoName \/ e.shndx # UNDEF
    [] o \in NoFlagOptions          ->
         /\ e.name # NoName \/ (e.shndx >= Len(file) /\ e.value # 0)
         /\ ~(e.binding = "LOCAL" /\ e.shndx = ABS /\ e.value = 0 /\ e.name \notin DebugNames)
ListsExactly ==
  pc = "done" /\ option # "EXTERNAL_ONLY" =>
    {l.at : l \in Lines} = {p \in DOMAIN TableOf(file) : Promised(option, TableOf(file)[p])}

\* -g lists external symbols only, and all global ones that are undefined,
\* absolute, or in a section that is loaded, written or run.
ListsExternal ==
  option = "EXTERNAL_ONLY" =>
    /\ \A l \in Lines : Source(l).binding # "LOCAL"
    /\ pc = "done" =>
         \A p \in DOMAIN TableOf(file) :
           LET e == TableOf(file)[p]
           IN /\ e.binding = "GLOBAL" /\ e.name # NoName
              /\ \/ e.shndx \in {UNDEF, ABS}
                 \/ e.shndx # COMMON /\ e.shndx < Len(file) /\ Section(e.shndx).flags # {}
              => \E l \in Lines : l.at = p

\* However far the walk has come, the lines are in the order the option asks
\* for, equal names stay in table order, and no symbol has two lines.
OutSorted ==
  \A p, q \in DOMAIN out :
    p < q => Before(OrderOf[option], RankAt, out[p].at, out[q].at)

\* The letter agrees with the two columns a reader checks it against: a line
\* without a value has a letter of an undefined symbol, and U, v and w never come
\* with a value; the case tells whether the symbol is local, but for letters that
\* have one case only and for the debugging sections (isNameMatch).
LettersAgree ==
  \A l \in Lines :
    /\ l.blank => l.char \in {"U", "u", "v", "w", "i"}
    /\ l.char \in {"U", "v", "w"} => l.blank
    /\ l.char \notin {"u", "v", "w", "i"} /\ l.name \notin DebugNames =>
         (l.char \in LowerCase <=> Source(l).binding = "LOCAL")

\* A symbol that -a lists under the name of its section has the letter under
\* which get_section_name's comments put that name; of the local ones the
\* debugging sections alone keep the capital.
SectionLetters ==
  \A l \in Lines : \A g \in DOMAIN SectionNames :
    Source(l).name = NoName /\ l.name \in NamesUnder(g) =>
      l.char = IF Source(l).binding = "LOCAL" /\ l.name \notin DebugNames THEN ToLower(g) ELSE g

\* What the documentation says ----------------------------------------------

\* README.md 169: B is for sections where both SHF_ALLOC and SHF_WRITE are set.
BssHasBothFlags ==
  \A l \in Lines :
    LET e == Source(l)
    IN l.char \in {"B", "b"} /\ e.name # NoName /\ e.shndx < Len(file) =>
         {"ALLOC", "WRITE"} \subseteq Section(e.shndx).flags
=============================================================================
