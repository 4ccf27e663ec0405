# ft_nm, modelled and proved

`ft_nm` is a small `nm`: it maps the ELF files named on its command line, loads
the first symbol table of each, gives every symbol a letter, sorts the symbols
by name and prints them. It is linked with `libft`, which brings a `printf` of
its own (`ft_printf`) and a line reader (`get_next_line`).

This directory holds TLA+ models of all of these, configurations for TLC, and
proofs for TLAPS. `PROJECT.json` says which definition stands for which lines.

## The system

| component | state | operations | interacts with |
|---|---|---|---|
| main, `manageELF`, `close_files` (`srcs/ft_nm.c`) | `option`, `files[MAX_FILES]`, per file: descriptor, mapping, array of symbols | read the command line, then per file open, fstat, mmap, header checks, load, list, free; at the end munmap and close all | calls everything below; system calls fail; other processes change files |
| loaders (`srcs/manageELF32.c`, `manageELF64.c`) | the array of `t_symb` | find the first SYMTAB section, malloc, one symbol per entry, section names for nameless symbols | asks for the letter of each symbol |
| letters (`srcs/symboles_handler.c`, `get_section_name.c`) | none | letter from binding, type, index; from the section; from the name of the section | read by the loaders; `-g` filters by the result |
| printers (`srcs/printer.c`) | loop counters | sort by option, then the four printers, each for some options | sorts the loaded array in place |
| sorting (`srcs/printer.c`) | recursion, two buffers per call | `mergeSort`, `merge` | called once per listing |
| `ft_printf` (`libft/ft_printf`) | cursors `i`, `j`, the directive `t_args`, the count | loop over the format, parsers, one printer per kind of conversion, colors | fetches arguments, writes to the terminal |
| digits of `%f` | strings of decimal digits | exact expansion of the mantissa, scaling, splitting, rounding | called by `ft_printf` |
| strings of a conversion (`libft`) | the blocks on the heap, the pointers of `t_args` and of locals | allocate, copy, join, pad, free | each printer of `ft_printf` builds `result` from them; malloc may fail |
| `get_next_line` (`libft`) | `static the_rest[4864]` | read, join, cut a line | the caller opens and closes descriptors; not called by `ft_nm` |
| debug printers, other string helpers, Makefile, `checker.sh` | none | | not modelled, see the end |

Nothing in the program runs in parallel. What is hard about it is elsewhere:

* **failure in the middle**: every system call and malloc may fail, some are not
  checked (`mergeSort`, `get_next_line`, `ft_printf`), and a failure ends the process between
  two files whose resources are held to the end;
* **the order of checks**: the section header table is used before its offset is
  compared with the size of the file, files may shrink while they are mapped, and
  the offsets inside a file that was cut short lead behind its end;
* **state computed early and filtered late**: letters and section names are put
  into the array at load time, and the printers decide by them;
* **sorting in place** over a recursion whose halves are copies, with a
  comparison that must leave equal names in their order;
* **two readings of one directive** of a format with a shared cursor, and flags
  that exclude each other wherever they are set;
* **ownership of strings**: some helpers free both arguments, some one, some
  none, and a conversion replaces its result up to six times;
* **arithmetic on strings of digits**, with carries between fraction and integer;
* **text kept between calls** in a static table, indexed by a descriptor that
  may meanwhile stand for another file.

`PROJECT.json` lists each of these at its line under "hazards".

## The modules

| module | models | extends / instantiates |
|---|---|---|
| `SymbolOrder` | the comparison of `merge`, what a stable arrangement is | |
| `StableSort` | abstract: the table is sorted in one step | `SymbolOrder` |
| `MergeSort` | `mergeSort` and `merge`, call by call and store by store | refines `StableSort` |
| `Symbols` | letters, as operators | |
| `Listing` | loader, sort, printers, on one file | `Symbols`, `SymbolOrder`; the sort is the step that `StableSort` promises |
| `Loader` | the loader on the offsets of a file that may have been cut | `Symbols`; refines the loading of `Listing` |
| `NmSpec` | abstract: what a run lists, in which order, under which option | |
| `FtNm` | the whole run; a listing is one step | refines `NmSpec` |
| `Conversions` | value to text, precision, width, as operators | |
| `Printf` | one call of `ft_printf` | `Conversions` |
| `FloatText` | the digits of `%f` and their rounding | |
| `PrintMemory` | the blocks that one conversion allocates, hands on and frees | `Conversions` |
| `GetNextLine` | calls of `get_next_line` and a caller | |
| `MC*` | instances for TLC | the module of that name |
| `*Proofs` | theorems | the module of that name; `ListingProofs` is about `MergeSort` too, the sort of a listing, and `PrintMemoryProofs` builds on `PrintfProofs` |
| `NumberInduction` | lemmas: induction over numbers, functions defined by recursion | |

How they fit: `FtNm` treats a listing as one step because `Listing` shows what
is in it (one that fails does so while it loads or sorts, in front of its first
line); `Listing` takes a file as a sequence of sections and a table with names,
because `Loader` shows what a whole file yields, and what one that was cut does;
`Listing` treats the sort as one step because
`MergeSort` implements `StableSort`. `Printf` takes the text of a number from
`FloatTexts`, because `FloatText` computes it, and its strings as values,
because `PrintMemory` shows that the text comes out whole or not at all.

### State and actions against the code

`MergeSort`. `stack` is the C stack: a frame is a call of `mergeSort` with its
array, its size and, once `merge` runs, `i`, `j`, `k`. `mem` maps the live
buffers to their contents. `SplitAndSortLeft` is lines 163-173 (both mallocs,
both copies, first recursive call), `SortRight` the second call, `TakeLeft` and
`TakeRight` one store of `merge`, with the loops that follow the main one folded
in, `FreeAndReturn` both frees. `FaultOnNull` is the memcpy into the result of a
malloc that failed. `Frame.base` is history.

`Listing`. `pc` follows `parse_symtab64`, then `print_symboles`. `LoadSymbol` is
the whole body of the loop: fields, name, name of the section, letter. A symbol
keeps `at`, its place in the table, as history. Names are ranks in the order of
`ft_strcmp` where only their order matters, and themselves where the code looks
them up. The 32- and 64-bit loaders differ in the widths of fields, and in
nothing a property is about, so there is one model of both. A letter read behind
the section headers (`ReadsOutside`) may be any of those the function returns,
or a fault.

`Loader`. `strings`, `strtab` and the offset of an entry are offsets into the
file, as the pointers of `parse_symtab64` are. An image gives the string and the
entry that start at each offset. `size` is what is left of the file and `Extent`
the mapping, whole pages of it, filled with zeros; `CutEntries` is an entry in
front of the cut in part. What a read behind the mapping does is not followed:
the run ends in `outside`. A cut inside one header or one string is left out.

`FtNm`. `pc` is the next call in `manageELF` or `close_files` for `files[cur]`.
`opened`, `mapped` and `symb` are the files whose descriptor, mapping and array
are held. A file is a record of which checks it passes; `shoff` says where the
section header table lies. Every call that may fail has an action for it.
`Truncate` is another process; reading pages of an emptied file faults.

`Printf`. `i` and `j` are `var->i` and `var->j`. `get_specifier` is the first
reading of a directive; `get_flags`, `WidthDigits`, `WidthStar`, `StarPrecision`,
`LiteralPrecision`, `get_modifier` are the second, one turn of a parser's loop
each; `PrintD` and the others are `manage_args` with the conversion. A text is a
sequence of characters, the escape sequence of a color one item. `conv` is
history. The widths of long, int, short and char are constants, so that
narrowing and overflow of literals happen with small numbers.

`FloatText`. `mantiss`, `decimal`, `fract` are the strings of `t_args`; a string
of digits is a sequence of 0 .. 9. `MantissaBit` is one turn of the loop in
`get_mantissa`. `sum_string` and `ft_multiply` are written column by column
with their carries, not as + and *. `Round` and `RoundGarbage` are the two
outcomes of the string that loses its terminator at `ft_print_f.c:102`.
`PrintWord` is nan and the infinities. A double arrives as the long double of
the same value.

`PrintMemory`. A function is the sequence of the calls it makes, `todo` the calls
that are still to come, and each kind of call an action: the allocation, the
copy, `ft_strjoin_free`, `padd`, the arithmetic on digits, `ft_strdel`, the
assignment of a pointer, `ft_putstr`, and the entry of a function whose calls
depend on the strings at that time (`BodyOf`). A pointer is the number of a block,
`NULL`, or `Wild` while it is uninitialized. `heap` holds the live blocks with
the size that was asked for and the bytes that were stored. The digits of a
float are not computed: the branches that depend on them are taken either way.
`blocks` and `failed` are history.

`GetNextLine`. `rest` is `the_rest`: an entry is null, points to a text, or was
freed. `ReadSome` is one turn of the read loop, `EndWithRest` the branch for the
end of the file, `CutLine`, `PartLine`, `NoLine` the three outcomes of
`manage_lines`; `ReadUnstored`, `EndUnstored`, `CutUnstored` and `PartUnstored`
are the same with a malloc that fails. The caller (`OpenFile`, `CloseFile`, when
it asks for a line) is not in the repository. `lines`, `clean` and `fresh` are
history.

## What TLC checks

| run | distinct states | shows |
|---|---|---|
| `merge_sort` | 40,173 | stable sort, buffers, termination |
| `listing` | 164,034 | the six listings |
| `listing_bss` | | divergence, below |
| `loader` | 56,301 | loading by offsets, from whole and cut files |
| `ftnm` | 424,156 | a whole run |
| `ftnm_table` | | divergence, below |
| `printf` | 262,985 | a call of `ft_printf` |
| `printf_modifier` | | divergence, below |
| `print_memory` | 636,320 | the strings of one conversion |
| `float_text` | 44,064 | digits of `%f` |
| `float_half` | | divergence, below |
| `get_next_line` | 944,524 | lines of two files |

**merge_sort**. All tables of up to five symbols over three names, all three
directions, malloc failing anywhere. Five symbols give halves of unequal size at
two levels; three names give equal names within a half, across halves, and
distinct ones. `SortInv` relates every buffer to the call that owns it;
`SortedWhenDone` is the result; `SortsStably` is the refinement of `StableSort`;
`BuffersHeld`: a return leaves no buffer; a fault leaves those of the callers and
at most one of the call that failed, and the table as it was loaded; `Terminates`.

**listing**. All tables of up to three symbols of seven kinds (nameless, equal
names, locals, undefined, absolute, without value), files without a table or
with two, and one symbol of every type, binding, visibility and index in a
section of every type, flags and name the code knows, one symbol with an odd name
among them, under all six options.
Up to three symbols are enough for an order and for a tie with one symbol
between; letters depend on one symbol and one section only. `ListsExactly` and
`ListsExternal` say which symbols an option lists, from the table of the file;
`OutSorted` that at each point of the walk the lines are in order;
`LettersAgree` and `SectionLetters` relate letters to the symbols they stand for.

**loader**. Tables of up to two symbols of five kinds behind the null symbol, one
table or two, a table whose last entry is broken, the table and the two string
tables in all six orders, the section headers in front of them or behind, the
names of sections in a section in front of the table or behind; entries of two
units, pages of four; each cut at every length. A page is larger than an entry
and smaller than a file, so that a cut leaves zeros that are mapped and pages
that are not. `LoadsAsListed` is the refinement of the loading part of `Listing`
for whole files; `RightUnlessCut`: a symbol whose entry, names and headers lie in
front of the cut comes out as from the whole file; `OutsideNeedsPage`: the loader
leaves the mapping only when a page or more is missing.

**ftnm**. All command lines of up to three words from two flags and two paths,
with room for two files (so that three paths are too many), disks on which at
most one file is wrong, in each of eleven ways, every call failing, files
emptied at any moment. With two files the failing one
stands in front of the other or behind it; the theorems cover every number.
`SymbolsMapped`, `NothingHeldAtReturn`, `ReleasedAtTheEnd` are about resources;
`FailureCutsListing` and `NamedWhenSeveral` about what is printed: a failure, by
message or by fault, comes behind the listings of the files in front and before
every other; `ListsInOrder` is the refinement of `NmSpec`; `Terminates`.

**printf**. Every directive from twelve flag combinations, five widths, six
precisions and twelve specifiers; directives with widths that no int holds (9 and
19, in four bits), with two widths and with white space in the precision; every length modifier with and without stars;
every format of up to four of the characters that steer the loop. Integers of
five, four, three and two bits. `TypeOK` includes that the second reading never
passes the specifier found by the first; `CounterCounts`: the result is the
number of characters written, escape sequences apart; `FieldKept`: a field is as
wide as the format asks, and blanks stand in it only up to the width, unless the
flag asks for one in front or they are the argument's own. The width is read from
the format there (`WidthAsked`), not from what the parsers have stored: the number
behind the flags modulo 2^`IntBits`, since the comparison at `parse.c:94`, of an
int with INT_MAX, is never true; one with the top bit asks for nothing. `ValueKept`: the digits on the
output, without the blanks around them, sign and prefix, denote the argument;
`EndsAtTerminator`: only a last directive without a specifier takes the loop
past the end of the format.

**print_memory**. Every directive with the flags its printer looks at, in the
combinations the parser leaves, widths of none, less and more than the text,
precisions of none, 0 and 3; two or three values each, among them zero, negative
ones, no string, the empty string, nan and the infinities; mantissas of two bits;
every allocation failing. The branches depend on the signs of differences of
lengths, and these take all their values. `AllOrNothing`: the text of the
directive, or nothing after a failure, or "(null)" for a string whose copy
failed. `BlocksRespected`: no double free, no use after free, no uninitialized
pointer, NULL only after a failure, no store outside but for two terminators.
`LeaksKnown`: three leaks, named below, and no other.

**float_text**. Mantissas of four bits with a bias of 3, so exponents -2 to 3, and
the denormal numbers; both signs, nan, the infinities, zero; precisions 0 to 8,
with and without `#`. Exponents below zero shift every digit behind the
point, the others leave some in front, and precisions go from none to one more
than there are digits. Numbers stay below TLC's 32 bits. `PartsExact`: the
digits, the sign and the point are exact; `RoundedNearest`: the result is the
nearest, and where the fraction ends at the precision it is five units of the last
place too large, unless what lies behind the string took part (`RoundGarbage`); `HalfToEven`: without places a half goes to the even neighbour.

**get_next_line**. Two descriptors in the table, the one just behind it, one
that is refused; seven texts of up to four characters, one with a zero byte; two
files open at once or one after the other on the same descriptor; reads of one
or two characters; two failures, of reads or of mallocs, so that memory may be
short after a read has failed. `Lossless`: lines and
rest are the text that was read; `LinesWhole`: only the last line has line feeds
in it; `PiecesInOrder`: whatever fails, what is handed out are pieces of the
file, in its order, none twice; `MemorySafe`; `CallsReturn`. A property about a file's lines is asked of descriptors that had
no rest when the file was opened and no failure (`clean`; `fresh` for
`PiecesInOrder`, which bears failures): for the others
the code promises nothing, and the hazards say so.

### Fairness

`MergeSort`, `Printf`: one thread, no call that waits, so WF of the next-state
relation. `FtNm`: WF of the program's steps, none for
`Truncate`. `GetNextLine`: WF of the steps inside a call (read returns, with
data, the end or a failure); nothing is assumed of the caller. The other modules state no liveness: they
walk finite sequences without a branch back.

### Where code and words differ

* `listing_bss`: `sh_flags & (A | W)` is true for one of the two flags; the
  README and the comment above the function say both. The section gets 'B', a
  local symbol in it is printed with 'b'.
* `ftnm_table`: a section header table that begins behind the end of the file is
  read before the check that was to report it.
* `printf_modifier`: length modifiers behind `.*` are not read.
* `float_half`: a number halfway between two at the precision is printed with
  all its digits, and an odd integer part grows by one.

More are modelled and claimed by no run of their own:

* `-g` leaves out external symbols whose letter is not in its list (C, u, v, N),
  although it is to display the external symbols (`printer.c:63`);
* the check of the section header table compares its beginning only: one that
  begins in the file and runs past its end (`shoff` "across") is never reported,
  it is listed or faults (`ft_nm.c:156`);
* a directive without a specifier, as in `"% "`, takes the loop past the end of
  the format (`ft_printf.c:102`; `EndsAtTerminator` names the formats);
* a name in braces that is no color is swallowed (`color.c:64`);
* with a precision equal to the number of digits (63 for a small number) five
  units of the last place are added, or what is read behind the string
  (`ft_print_f.c:102`), and a denormal number is printed as half of
  its value (`split_float.c:51`);
* `%s` prints "(null)" when its copy of the string fails (`ft_print_s.c:22`);
* the terminator is stored one byte behind the block in `ft_utoa.c:29` and, for
  the digits of a mantissa of 0, in `ft_strndup.c:32`;
* three blocks are never freed: the copy of an empty string cut to the precision
  0 (`ft_precision.c:27-33`), `s` of the halfway case (`ft_print_f.c:100`), and the
  fraction when the rounding carries (`ft_print_f.c:72`);
* without memory `get_next_line` returns 1 with a line of NULL, or loses what it
  has read (`get_next_line.c:44-57`).

## What TLAPS proves

For every value of the constants, under the ASSUMEs of the modules, which TLC
evaluates on every run. They say: numbers are numbers; a file is a sequence of
section headers with tables of symbols, and section 0 has no name
(`FilesAssumption`); the names in the table of `get_section_name` and the empty
name are different (`DottedAssumption`, so that names can stay abstract); a file
that was not cut is in order (`ImagesAssumption`: what its headers and entries
refer to is in it); slots hold 64 bits and texts neither a zero byte nor the mark
that stands for an escape sequence (`SlotsAssumption`, `TextsAssumption`); in
`PrintMemory` the value of a conversion is of the kind its specifier asks for, and
a float that is a number has a digit in front of the point
(`ConversionAssumption`). Nothing
is assumed of names, tables, formats, values, sizes or failures beyond that.

**ListingProofs**, about `MergeSort`: `SortTypeCorrect`, `RecursionSound` ([]SortInv),
`SortCorrect` ([]SortedWhenDone), `BuffersAccounted` ([]BuffersHeld),
`ImplementsStableSort` (SortSpec => SortsStably). The inductive invariant is `SortTypeOK /\ SortInv`: SortInv
was written to be inductive. It says that the stack is a chain of calls, each in
the left or the right half of the one below (`Linked`), and what the buffers of
each hold at its point of the code (`Filled`): the untouched slice of the table
before a half is sorted, the sorted slice after, and while `merge` runs an array
whose first k places are the merge of the first i and j (`MergedPrefix`). The
result alone is not inductive: nothing in it says what the callers' buffers
hold. It also says which buffers there are after a malloc has failed, and that the
first array is not written before both of its halves are sorted, which is what
`BuffersHeld` needs at a fault. The lemmas on `MergedRange` carry the argument: it is symmetric in the two
halves, grows by a store on either side, and at the end is the sorted slice.

**ListingProofs**, about `Listing`: `TypeCorrect`, `SortedOutput` ([]OutSorted), `ExactListing`
([]ListsExactly), `ExternalListing` ([]ListsExternal), `LettersCorrect`
([]LettersAgree), `SectionLettersCorrect` ([]SectionLetters). None of the
properties is inductive: they relate the lines to the table, and the steps relate
lines to `symb` and `symb` to the table. IInv says where the scan stands
(`ScanInv`), that `symb` holds symbols of the table with a letter they may get,
and all of them once it is loaded (`SymbInv`), in which order they are
(`OrderInv`), and that the lines are those of the wanted symbols in front of `i`
(`PrintInv`). The lemmas in front say which letters each of the three functions
gives; the letters of a line follow from them without another induction.

**LoaderProofs**: `OutsideLacksPage` ([]OutsideNeedsPage), `CutLeavesTheRestRight`
([]RightUnlessCut), `Refinement` (Spec => LoadsAsListed). IInv says which offsets the
locals hold (`LocalsInv`) and that a symbol is what its entry reads as, the real one
or zeros (`SymbInv`); a lemma says that pages cover what they begin. For the
refinement each step maps to the step of `Listing` with the same name; that the
whole file takes no other step is a consequence of `WellFormed`.

**FtNmProofs**: `TypeCorrect`, `PointersSound` ([]SymbolsMapped), `AllReleased`
([]NothingHeldAtReturn), `CutExactly` ([]FailureCutsListing), `NamesMatch`
([]NamedWhenSeveral), `ReleasesLast` (ReleasedAtTheEnd, an action property),
`ImplementsNmSpec` (Spec => ListsInOrder). IInv adds to the types which files are
held at each pc (`HeldInv`), that `files[]` holds the paths read so far, in order,
with the meaning of the last flag in front of each (`EntriesInv`), how many are
listed (`ListedInv`), and what a message, or a fault, is about (`CutInv`). `EntriesInv` is what the
refinement needs: the next file to list is the least pending one of `NmSpec`.
`NamesMatch` needs `NamedInv` in addition: names and listings alternate.

**PrintfProofs**: `ReadingsAgree` ([]TypeOK), `CountsWhatItWrites` ([]CounterCounts),
`FieldsKept` ([]FieldKept), `ValuesKept` ([]ValueKept). `ReadInv` makes the two readings
agree: while the second one runs, the specifier the first one found is in front of
it and is no character that a parser consumes. `CountInv` ties the count to the
output. The other two hold of a conversion when it is made and none changes later
(`ConvInv`, with the width that the parsers have stored), so they are lemmas about the operators of `Conversions`: the digits
that `ft_ltoa_base` yields are those of its argument in the base, also in upper
case; the zeros of the precision in front of them do not change the value, and
neither do sign, prefix and padding, which `DigitsShown` takes off again; that it
takes off no more is most of the proof. Narrowing by the length modifiers is
arithmetic modulo a power of two. That the width stored is the one that the format
asks for is a second invariant of the parsers (`WidthInv`): they come to the number
behind the flags with no width, and leave it with that number, unless an argument
or a negative precision replaces it.

**PrintMemoryProofs**: `MemoryInvariant`, `AllOrNothingHolds`
([]AllOrNothing), `BlocksRespectedHolds` ([]BlocksRespected), `LeaksKnownHolds`
([]LeaksKnown), for every directive, every value and every number of mantissa bits,
and for every choice of mallocs that fail. None of the three is inductive: what
makes a free right is in the calls around it, and these are data, the list `todo`.
So the proof reasons about lists of calls. A `Description` says of each pointer
whether it owns a block, shares one that another owns, is NULL or holds nothing
known, which text the block has, what is `lost`, what is to be printed and whether
it was; `Fits(D)` says that the memory is so, where an owner may also have NULL,
once a malloc has failed. `Effect(c, D, E)` says what a single call makes of a
description, whatever fails. `Triple(D, calls, E)` says that there is a chain of
descriptions from D to E with such a change at every call, and lemmas join chains.
A function that is entered is described by its `Contract`, and a lemma per
function shows that its calls, for any strings it is entered with, keep it: for
`ft_width`, say, that the result owns a block with the text that `Conversions`
gives, and nothing else changed. A lemma per printer (`DTriple`, `PoubxTriple`,
`FloatTriple`, `NullTriple`, `CharTriple`) leads from nothing to a
description in which the directive's text is printed and all is freed that is not
`lost`. `MemoryInv` then says that the memory fits some description from which the
calls to come lead to that end (`Running`), what has been printed (`TextRight`), and
what is true in the end (`AllPrinted`); one lemma per action shows that a call moves
the memory along the chain, or stops in a fault after a failure. `%s` is
the exception, since it decides what to print after a malloc may have failed:
`Copying` describes it up to there. `AllOrNothing` follows from `TextRight`;
`BlocksRespected` because a change is only there for a call that uses sound
pointers, so that `Halt` never finds a misuse; `LeaksKnown` because every block has
an owner or is `lost`. The lengths that `ft_ltoa` and `shift_bits` compute
before they allocate are those of the digits they store (`DigitCount`, by
`StrongInduct`). `MemoryInv` quantifies over all descriptions and chains of them,
which TLC cannot enumerate: the run `print_memory` checks its consequences.

**GetNextLineProofs**: `TypeCorrect`, `MisuseNeedsFailure` ([]MemorySafe),
`LinesEndAtFeeds` ([]LinesWhole), `PiecesAreInOrder` ([]PiecesInOrder), `NothingLost`
([]Lossless), for all texts and sizes. IInv adds that `manage_lines` finds text
without a line feed only after a failure (`CallInv`), where freed pointers are
(`FreedInv`), and that a line handed out at the end leaves neither rest nor unread
text (`EndInv`), so that none follows. `PlaceInv` says in addition where the rest ends
in the file, and that the lines have places in front of it: a line that is
appended gets the place where the rest began. `WholeInv` is `Lossless` for the text
so far, and `EndedInv` that a descriptor at the end has nothing left; the text of
all lines is a function by recursion, and appending a line appends its text.

**FloatTextProofs**: `PartsAreExact` ([]PartsExact), `RoundedToNearest`
([]RoundedNearest), `HalvesToEven` ([]HalfToEven), for every number of mantissa
bits, every bias, every number and every precision; 63 and 16383 of the code are
among them, where the run has 4 and 3. The first half is about the arithmetic on
strings of digits, column by column: `SumFacts`, `ProductFacts` and `LargePow` say
that `sum_string`, `multiply_string` and `ft_large_pow` compute sums, products and
powers of numbers of any length. For each, what the columns up to k are worth (`Low`),
together with the carry, is what the operands' columns are worth, by induction on k.
The inductive invariant says what the string stands for at each pc: the bits read
so far times a power of five (`MantissaInv`), the significand (`ScaleInv`), the exact
number (`SplitInv`), which decimal and fract then hold together (`RoundInv`). How long
the string is matters as much as its value, since the point is found by counting
from the right: a sum has no digit too many because the number is less than the
power of ten, and a product no zero in front. Rounding is arithmetic after that:
what is cut off after half a unit was added is less than a unit.

**NumberInduction**: what the proofs above use where a definition is recursive.
The library's theorems of induction take an operator, which the installed provers
cannot instantiate; here a property of numbers is given as the *set* of the
numbers it holds of, and a recursive definition as the function that makes a value
from the one before. `Induct` and `StrongInduct` follow from the least element of a
set of numbers, and that the recursive functions of the models exist and satisfy
their equations (`Recursion`) follows from them. So statements about recursive
functions are proved for every input where a proof needs them.

Only model-checked:

- liveness under fairness (`Terminates` of sorting and of the run,
  `EndsAtTerminator`, `CallsReturn`): the provers do not do temporal reasoning with
  fairness and ENABLED;
- what the runs that expect a violation show: those are counterexamples.

## Not modelled

* `debug.c`: output only, every call commented out.
* String and memory helpers: where a module needs one it appears as what it
  does (`ft_strjoin` up to the first zero byte, `ft_strcmp` as ranks).
* A file cut inside of a header or of a string, and what lies behind the mapping
  (`Loader` ends there).
* What a failed malloc inside the arithmetic on digits leaks: `LeaksKnown` is
  about conversions in which no malloc failed.
* Makefile, `checker.sh`, the sample program of `ft_printf`.

## Plan

Done in this order: sorting, letters, listing, the run, their proofs;
`ft_printf`, digits, line reader, first proofs about it; offsets and cut files,
failing malloc in the line reader, all kinds of floating point numbers, the
memory of a conversion; the proofs about listing, loading, `ft_printf`, floating
point digits, what is left of the run and the line reader, and the memory of a
conversion. Every safety invariant and action property that a run checks is proved;
what is left is liveness, which stays with TLC. What the models could say next:

- what a failed malloc inside the arithmetic on digits leaks;
- a file that is cut inside of a header or of a string.
