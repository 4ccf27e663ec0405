------------------------------- MODULE Loader -------------------------------
(***************************************************************************)
(* parse_symtab32 and parse_symtab64 on the bytes of the file: sections,   *)
(* names and symbols are reached through the offsets that the section      *)
(* headers and the entries of the table hold, and none is compared with    *)
(* the size of the mapping.  Listing is what this promises for a whole     *)
(* file; here a file may have been cut short.                              *)
(*                                                                         *)
(* The unit of offsets is the header, the string, and a part of an entry   *)
(* of the table, which takes EntSize of them; a cut inside of a header or  *)
(* of a string is left out.  The mapping goes on to the end of its page,   *)
(* with zeros, which read as empty strings and null headers and entries.   *)
(* What a read behind it does (a fault, or what else is mapped there) is   *)
(* not followed any further.                                               *)
(*                                                                         *)
(* An image is a record with                                               *)
(*   headers   the section headers [type, flags, name, offset, size, link] *)
(*   shoff, shstrndx   e_shoff and e_shstrndx; e_shnum is Len(headers)     *)
(*   strings   by offset, the string that starts there                     *)
(*   entries   by offset, the entry of a symbol table that starts there:   *)
(*             [name, type, binding, visibility, shndx, value]             *)
(*   end       the size of the whole file                                  *)
(*   size      what is left of it                                          *)
(* where the name of a header or an entry is an offset.                    *)
(***************************************************************************)
EXTENDS Symbols

CONSTANTS
  Images,    \* the files that may be read, whole or cut
  EntSize,   \* sizeof(Elf64_Sym), in the units of offsets
  Page       \* the size of a page, in the same units

ASSUME SizesAssumption == EntSize \in Nat \ {0} /\ Page \in Nat \ {0}

\* Entry j of the symbol table with the header h, in the whole file.
EntryOf(im, h, j) == im.entries[h.offset + (j - 1) * EntSize]

\* As a whole the file is in order: what its headers and entries refer to is
\* there, and section 0 has no name.
HeaderRecord == [type : SectionTypes, flags : SUBSET SectionFlags, name : Nat,
                 offset : Nat, size : Nat, link : Nat]
EntryRecord == [name : Nat, type : STRING, binding : STRING, visibility : STRING,
                shndx : Nat, value : Nat]
WellFormed(im) ==
  LET Offsets == 0 .. im.end - 1
      NamesAt == im.headers[im.shstrndx + 1].offset
  IN /\ im.headers \in Seq(HeaderRecord) /\ im.shstrndx \in 0 .. Len(im.headers) - 1
     /\ {im.shoff, im.end} \subseteq Nat /\ im.shoff + Len(im.headers) <= im.end
     /\ im.size \in 0 .. im.end
     /\ im.strings \in [Offsets -> STRING] /\ im.entries \in [Offsets -> EntryRecord]
     /\ \A n \in DOMAIN im.headers : NamesAt + im.headers[n].name \in Offsets
     /\ im.strings[NamesAt + im.headers[1].name] = NoName
     /\ \A n \in DOMAIN im.headers :
          LET h == im.headers[n]
          IN h.type = "SYMTAB" =>
               /\ h.link < Len(im.headers) /\ h.offset + h.size <= im.end
               /\ \A j \in 1 .. h.size \div EntSize :
                    im.headers[h.link + 1].offset + EntryOf(im, h, j).name \in Offsets
ASSUME ImagesAssumption == \A im \in Images : WellFormed(im)

VARIABLES
  image,
  pc,        \* names, scan, load, done; exit1, fault, outside when it ends badly
  scan,      \* i: the sections that are behind
  strings,   \* string_table: the offset of the names of sections
  strtab,    \* the offset of the names of symbols
  symb       \* the symbols loaded so far

vars == <<image, pc, scan, strings, strtab, symb>>

shnum == Len(image.headers)
Extent == Page * ((image.size + Page - 1) \div Page)
Mapped(o) == o < Extent

NullHeader == [type |-> "NULL", flags |-> {}, name |-> 0, offset |-> 0, size |-> 0, link |-> 0]
NullEntry == [name |-> 0, type |-> "NOTYPE", binding |-> "LOCAL", visibility |-> "DEFAULT",
              shndx |-> UNDEF, value |-> 0]

\* The header that shdr[n] is, the string at an offset, and what an entry may
\* read as: a cut may leave any of its parts.
HeaderAt(n) == image.shoff + n
Header(n) == IF HeaderAt(n) < image.size THEN image.headers[n + 1] ELSE NullHeader
String(o) == IF o < image.size THEN image.strings[o] ELSE NoName
CutEntries(e) ==
  {[f \in DOMAIN e |-> IF f \in lost THEN NullEntry[f] ELSE e[f]] : lost \in SUBSET DOMAIN e}
EntriesAt(o) ==
  IF o + EntSize <= image.size THEN {image.entries[o]}
  ELSE IF o < image.size THEN CutEntries(image.entries[o]) ELSE {NullEntry}

Init ==
  /\ image \in Images
  /\ pc = "names" /\ scan = 0 /\ strings = 0 /\ strtab = 0 /\ symb = <<>>

\* shdr[e_shstrndx] comes before anything else.
FindNames ==
  /\ pc = "names" /\ Mapped(HeaderAt(image.shstrndx))
  /\ strings' = Header(image.shstrndx).offset
  /\ pc' = "scan"
  /\ UNCHANGED <<image, scan, strtab, symb>>

Scanning == pc = "scan" /\ scan < shnum /\ Mapped(HeaderAt(scan))

SkipSection ==
  /\ Scanning /\ Header(scan).type # "SYMTAB"
  /\ scan' = scan + 1
  /\ UNCHANGED <<image, pc, strings, strtab, symb>>

EnterSymtab ==
  /\ Scanning /\ Header(scan).type = "SYMTAB" /\ Mapped(HeaderAt(Header(scan).link))
  /\ strtab' = Header(Header(scan).link).offset
  /\ pc' = "load"
  /\ UNCHANGED <<image, scan, strings, symb>>

MallocFails ==
  /\ Scanning /\ Header(scan).type = "SYMTAB"
  /\ pc' = "exit1"
  /\ UNCHANGED <<image, scan, strings, strtab, symb>>

NoSymtab ==
  /\ pc = "scan" /\ scan = shnum
  /\ pc' = "done"
  /\ UNCHANGED <<image, scan, strings, strtab, symb>>

-----------------------------------------------------------------------------
\* The loop over the entries

\* Mutant: j <= n_syms.
n_symsInclusive(h) == h.size \div EntSize + 1
n_syms(h) == h.size \div EntSize
EntryAt == Header(scan).offset + Len(symb) * EntSize
Loading == pc = "load" /\ Len(symb) < n_syms(Header(scan))
EntryMapped == Mapped(EntryAt + EntSize - 1)

\* Mutant: the names of sections are looked for among those of symbols.
SectionNameAtStrtab(n) == strtab + Header(n).name
SectionNameAt(n) == strings + Header(n).name

\* A symbol without a name takes that of its section.
Unnamed(e) == String(strtab + e.name) = NoName /\ e.shndx < shnum
Named(e) ==
  [name |-> IF Unnamed(e) THEN String(SectionNameAt(e.shndx)) ELSE String(strtab + e.name),
   type |-> e.type, binding |-> e.binding, visibility |-> e.visibility,
   shndx |-> e.shndx, value |-> e.value, isSection |-> Unnamed(e)]

\* What is looked at for an entry, but for the headers of reserved indices.
Touched(e) ==
  {strtab + e.name}
    \cup (IF Unnamed(e) THEN {HeaderAt(e.shndx), SectionNameAt(e.shndx)} ELSE {})
    \cup (IF NeedsSection(e) /\ e.shndx < shnum THEN {HeaderAt(e.shndx)} ELSE {})
EntrySound(e) == \A o \in Touched(e) : Mapped(o)

ReadsOutside(e) == NeedsSection(e) /\ e.shndx >= shnum
LettersFor(e) ==
  IF ReadsOutside(e) THEN {CaseOf(Named(e), x) : x \in {"B", "D", "N", "R", "T"}}
  ELSE {determine_symb([n \in 1 .. shnum |-> Header(n - 1)], Named(e))}

LoadSymbol ==
  /\ Loading /\ EntryMapped
  /\ \E e \in EntriesAt(EntryAt) :
       /\ EntrySound(e)
       /\ \E c \in LettersFor(e) :
            LET s == Named(e)
            IN symb' = Append(symb, [at |-> Len(symb) + 1, name |-> s.name, binding |-> s.binding,
                                     shndx |-> s.shndx, value |-> s.value,
                                     isSection |-> s.isSection, char |-> c])
  /\ UNCHANGED <<image, pc, scan, strings, strtab>>

LoadFaults ==
  /\ Loading /\ EntryMapped
  /\ \E e \in EntriesAt(EntryAt) : EntrySound(e) /\ ReadsOutside(e)
  /\ pc' = "fault"
  /\ UNCHANGED <<image, scan, strings, strtab, symb>>

LoadDone ==
  /\ pc = "load" /\ Len(symb) = n_syms(Header(scan))
  /\ pc' = "done"
  /\ UNCHANGED <<image, scan, strings, strtab, symb>>

\* A header, an entry or a name lies behind the mapping.
ReadOutside ==
  /\ \/ pc = "names" /\ ~Mapped(HeaderAt(image.shstrndx))
     \/ pc = "scan" /\ scan < shnum /\ ~Mapped(HeaderAt(scan))
     \/ Scanning /\ Header(scan).type = "SYMTAB" /\ ~Mapped(HeaderAt(Header(scan).link))
     \/ Loading /\ ~EntryMapped
     \/ Loading /\ EntryMapped /\ \E e \in EntriesAt(EntryAt) : ~EntrySound(e)
  /\ pc' = "outside"
  /\ UNCHANGED <<image, scan, strings, strtab, symb>>

Ended == pc \in {"done", "exit1", "fault", "outside"}

Next ==
  \/ FindNames \/ SkipSection \/ EnterSymtab \/ MallocFails \/ NoSymtab
  \/ LoadSymbol \/ LoadFaults \/ LoadDone \/ ReadOutside
  \/ (Ended /\ UNCHANGED vars)

Spec == Init /\ [][Next]_vars

-----------------------------------------------------------------------------
\* The sections and the symbols of the whole file, with their names.
TableIn(im, h) ==
  [j \in 1 .. h.size \div EntSize |->
     LET e == EntryOf(im, h, j)
     IN [e EXCEPT !.name = im.strings[im.headers[h.link + 1].offset + e.name]]]
SectionsOf(im) ==
  [n \in 1 .. Len(im.headers) |->
     LET h == im.headers[n]
     IN [type |-> h.type, flags |-> h.flags,
         name |-> im.strings[im.headers[im.shstrndx + 1].offset + h.name],
         symbols |-> IF h.type = "SYMTAB" THEN TableIn(im, h) ELSE <<>>]]

AbstractFiles == {SectionsOf(im) : im \in Images}
Abstract == INSTANCE Listing WITH
  Files <- AbstractFiles, NameRank <- <<>>, Names <- {}, MaxSyms <- 0,
  file <- SectionsOf(image), option <- "NO_SORT", printer <- 1, i <- 0, out <- <<>>,
  pc <- CASE pc = "names" -> "scan" [] pc = "done" -> "sort" [] OTHER -> pc

\* A file that is whole is loaded as Listing has it: each symbol of its first
\* table once, in order, under its own name or that of its section, and nothing
\* behind the mapping is looked at.
Whole == image.size = image.end
LoadsAsListed == (Whole => Abstract!Init) /\ [][Whole => [Abstract!LoadNext]_(Abstract!vars)]_vars

\* What a symbol is made of: its entry, its names, and the headers that lead there.
Kept(p) ==
  LET table == image.headers[scan + 1]
      e == EntryOf(image, table, p)
      namesAt == image.headers[image.shstrndx + 1].offset
  IN {HeaderAt(scan), HeaderAt(table.link), HeaderAt(image.shstrndx),
      table.offset + p * EntSize - 1, image.headers[table.link + 1].offset + e.name}
       \cup IF e.shndx < shnum
              THEN {HeaderAt(e.shndx), namesAt + image.headers[e.shndx + 1].name} ELSE {}

\* In a file that was cut, a symbol whose entry, names and section header are
\* all in front of the cut is loaded as from the whole file.
RightUnlessCut ==
  \A p \in DOMAIN symb :
    LET s == Abstract!Named(TableIn(image, image.headers[scan + 1])[p])
    IN (\A o \in Kept(p) : o < image.size) =>
         /\ symb[p].name = s.name /\ symb[p].isSection = s.isSection
         /\ symb[p].binding = s.binding /\ symb[p].shndx = s.shndx /\ symb[p].value = s.value
         /\ ~Abstract!ReadsOutside(s) => symb[p].char = determine_symb(SectionsOf(image), s)

\* A cut inside of the last page of a file is not noticed: something behind the
\* mapping is looked at only when a page or more is missing.
OutsideNeedsPage == pc = "outside" => Extent < image.end
=============================================================================
