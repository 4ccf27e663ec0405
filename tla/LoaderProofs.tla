---------------------------- MODULE LoaderProofs ----------------------------
(***************************************************************************)
(* Proofs about Loader, for every file that is in order as a whole and is  *)
(* cut anywhere, every size of an entry and of a page: a whole file is     *)
(* loaded as Listing has it, and what a cut leaves alone is loaded right.  *)
(*                                                                         *)
(* The inductive invariant IInv says which offsets the code holds in its   *)
(* locals (LocalsInv), that symb holds what the entries of the table may   *)
(* read as (SymbInv), and where the mapping ends when something behind it  *)
(* was looked at (the property OutsideNeedsPage).                          *)
(***************************************************************************)
EXTENDS Loader, TLAPS

-----------------------------------------------------------------------------
\* Entry p of the table that is read, as it may be loaded.
OffsetOf(p) == Header(scan).offset + (p - 1) * EntSize
AsLoaded(p, e, c) ==
  LET s == Named(e)
  IN [at |-> p, name |-> s.name, binding |-> s.binding, shndx |-> s.shndx,
      value |-> s.value, isSection |-> s.isSection, char |-> c]
LoadedAs(p) == UNION {{AsLoaded(p, e, c) : c \in LettersFor(e)} : e \in EntriesAt(OffsetOf(p))}
LoadedSymbols == UNION {LoadedAs(p) : p \in 1 .. n_syms(Header(scan))}

NamesFound == strings = Header(image.shstrndx).offset
TableFound ==
  /\ scan < shnum /\ Header(scan).type = "SYMTAB"
  /\ strtab = Header(Header(scan).link).offset

LocalsInv ==
  /\ image \in Images
  /\ pc \in {"names", "scan", "load", "done", "exit1", "fault", "outside"}
  /\ scan \in 0 .. shnum
  /\ pc = "scan" => NamesFound
  /\ pc = "load" \/ symb # <<>> => NamesFound /\ TableFound

SymbInv ==
  /\ symb \in Seq(LoadedSymbols)
  /\ pc \in {"names", "scan"} => symb = <<>>
  /\ pc = "load" => Len(symb) <= n_syms(Header(scan))
  /\ \A p \in DOMAIN symb : p \in 1 .. n_syms(Header(scan)) /\ symb[p] \in LoadedAs(p)

IInv == LocalsInv /\ SymbInv /\ OutsideNeedsPage

-----------------------------------------------------------------------------
\* A page that is begun is mapped to its end.
LEMMA PagesCover ==
  ASSUME NEW n \in Nat, NEW page \in Nat \ {0}
  PROVE  page * ((n + page - 1) \div page) >= n
OBVIOUS

\* Whole entries: the quotient counts those that end in front of the size.
LEMMA Quotient ==
  ASSUME NEW n \in Nat, NEW size \in Nat \ {0}
  PROVE  n \div size \in Nat /\ (n \div size) * size <= n
OBVIOUS

\* An entry of a table ends where the table does, or before.
LEMMA EntryEnds ==
  ASSUME NEW k \in Nat, NEW n \in Nat, NEW size \in Nat, k < n
  PROVE  k * size + size <= n * size
OBVIOUS

\* What is known of the file.
LEMMA ImageFacts ==
  ASSUME LocalsInv
  PROVE  /\ WellFormed(image) /\ image.size \in Nat /\ image.end \in Nat /\ image.size <= image.end
         /\ image.shoff \in Nat /\ image.shstrndx \in 0 .. shnum - 1
         /\ image.headers \in Seq(HeaderRecord) /\ shnum \in Nat /\ DOMAIN image.headers = 1 .. shnum
         /\ image.shoff + shnum <= image.end
BY ImagesAssumption DEF LocalsInv, WellFormed, shnum

\* Everything in front of the cut is mapped, and what is not mapped is behind
\* the mapping.
LEMMA MappedFacts ==
  ASSUME LocalsInv
  PROVE  /\ Extent \in Nat /\ image.size <= Extent
         /\ \A o \in Nat : ~Mapped(o) => Extent <= o
         /\ \A o \in Nat : o < image.size => Mapped(o)
<1>1. Page \in Nat \ {0} /\ image.size \in Nat
  BY SizesAssumption, ImageFacts
<1>2. Extent >= image.size
  BY <1>1, PagesCover DEF Extent
<1>3. (image.size + Page - 1) \div Page \in Nat
  BY <1>1
<1>4. Extent \in Nat
  BY <1>1, <1>3 DEF Extent
<1> QED
  BY <1>1, <1>2, <1>4 DEF Mapped

\* A header is read as it is in the whole file, or as zeros when it is behind
\* the cut.
LEMMA HeaderFacts ==
  ASSUME LocalsInv, NEW n \in 0 .. shnum - 1
  PROVE  /\ image.headers[n + 1] \in HeaderRecord /\ Header(n) \in HeaderRecord
         /\ HeaderAt(n) \in Nat /\ HeaderAt(n) < image.end
         /\ Header(n) = image.headers[n + 1] \/ Header(n) = NullHeader
         /\ HeaderAt(n) < image.size => Header(n) = image.headers[n + 1]
<1>1. image.headers[n + 1] \in HeaderRecord
  BY ImageFacts
<1>2. NullHeader \in HeaderRecord
  BY DEF NullHeader, HeaderRecord, SectionTypes
<1>3. HeaderAt(n) \in Nat /\ HeaderAt(n) < image.end
  BY ImageFacts DEF HeaderAt
<1> QED
  BY <1>1, <1>2, <1>3 DEF Header

\* A header that reads as one of a symbol table has not been cut.
LEMMA TableFacts ==
  ASSUME LocalsInv, NEW n \in 0 .. shnum - 1, Header(n).type = "SYMTAB"
  PROVE  LET h == image.headers[n + 1]
         IN /\ Header(n) = h /\ h.link \in 0 .. shnum - 1 /\ h.offset \in Nat
            /\ n_syms(h) \in Nat /\ h.offset + n_syms(h) * EntSize <= image.end
            /\ \A j \in 1 .. n_syms(h) :
                 image.headers[h.link + 1].offset + EntryOf(image, h, j).name \in 0 .. image.end - 1
<1> DEFINE h == image.headers[n + 1]
<1>1. Header(n) = h /\ h \in HeaderRecord /\ h.type = "SYMTAB"
  BY HeaderFacts DEF NullHeader
<1>2. /\ n + 1 \in DOMAIN image.headers /\ h.link < Len(image.headers)
      /\ h.offset + h.size <= image.end
      /\ \A j \in 1 .. h.size \div EntSize :
           image.headers[h.link + 1].offset + EntryOf(image, h, j).name \in 0 .. image.end - 1
  BY <1>1, ImageFacts DEF WellFormed, shnum
<1>3. h.offset \in Nat /\ h.size \in Nat /\ h.link \in Nat
  BY <1>1 DEF HeaderRecord
<1>4. h.size \div EntSize \in Nat /\ (h.size \div EntSize) * EntSize <= h.size
  BY <1>3, SizesAssumption, Quotient
<1> HIDE DEF h
<1>5. h.offset + (h.size \div EntSize) * EntSize <= image.end
  <2>1. (h.size \div EntSize) * EntSize \in Nat
    BY <1>4, SizesAssumption
  <2> QED
    BY <1>2, <1>3, <1>4, <2>1, ImageFacts, SMTT(30)
<1> QED
  BY <1>1, <1>2, <1>3, <1>4, <1>5, ImageFacts, SMTT(30) DEF h, n_syms, shnum

\* Entry j of a table lies in the file.
LEMMA EntryFacts ==
  ASSUME LocalsInv, NEW n \in 0 .. shnum - 1, Header(n).type = "SYMTAB",
         NEW j \in 1 .. n_syms(image.headers[n + 1])
  PROVE  LET o == image.headers[n + 1].offset + (j - 1) * EntSize
         IN /\ o \in 0 .. image.end - 1 /\ o + EntSize <= image.end
            /\ image.entries[o] \in EntryRecord
            /\ EntryOf(image, image.headers[n + 1], j) = image.entries[o]
<1> DEFINE h == image.headers[n + 1]
           o == h.offset + (j - 1) * EntSize
<1>1. /\ h.offset \in Nat /\ n_syms(h) \in Nat /\ j - 1 \in Nat /\ j - 1 < n_syms(h)
      /\ h.offset + n_syms(h) * EntSize <= image.end /\ EntSize \in Nat \ {0} /\ image.end \in Nat
  BY TableFacts, SizesAssumption, ImageFacts, SMTT(30)
<1>2. (j - 1) * EntSize \in Nat /\ n_syms(h) * EntSize \in Nat
      /\ (j - 1) * EntSize + EntSize <= n_syms(h) * EntSize
  BY <1>1, EntryEnds
<1>3. o \in 0 .. image.end - 1 /\ o + EntSize <= image.end
  <2> HIDE DEF h
  <2> QED
    BY <1>1, <1>2
<1>4. image.entries \in [0 .. image.end - 1 -> EntryRecord]
  BY ImageFacts DEF WellFormed
<1> QED
  BY <1>3, <1>4 DEF EntryOf

\* Whatever was cut, an entry reads with its own name or none.
LEMMA EntryRead ==
  ASSUME LocalsInv, TableFound, NEW p \in 1 .. n_syms(Header(scan)), NEW e \in EntriesAt(OffsetOf(p))
  PROVE  /\ e.shndx \in Nat
         /\ e.name \in {0, EntryOf(image, image.headers[scan + 1], p).name}
         /\ OffsetOf(p) + EntSize <= image.size => e = EntryOf(image, image.headers[scan + 1], p)
<1>0. scan \in 0 .. shnum - 1 /\ Header(scan).type = "SYMTAB" /\ Header(scan) = image.headers[scan + 1]
  BY ImageFacts, TableFacts DEF LocalsInv, TableFound
<1> DEFINE o  == OffsetOf(p)
           em == image.entries[o]
<1>1. em \in EntryRecord /\ em = EntryOf(image, image.headers[scan + 1], p)
  BY <1>0, EntryFacts DEF OffsetOf
<1>2. NullEntry.shndx = 0 /\ NullEntry.name = 0
  BY DEF NullEntry, UNDEF
<1>3. em.shndx \in Nat
  BY <1>1 DEF EntryRecord
<1>4. ASSUME NEW x \in CutEntries(em)
      PROVE  x.shndx \in Nat /\ x.name \in {0, em.name}
  <2>1. PICK lost : x = [f \in DOMAIN em |-> IF f \in lost THEN NullEntry[f] ELSE em[f]]
    BY <1>4 DEF CutEntries
  <2>2. {"name", "shndx"} \subseteq DOMAIN em
    BY <1>1 DEF EntryRecord
  <2>3. /\ x.name = IF "name" \in lost THEN NullEntry.name ELSE em.name
        /\ x.shndx = IF "shndx" \in lost THEN NullEntry.shndx ELSE em.shndx
    BY <2>1, <2>2
  <2> QED
    BY <1>2, <1>3, <2>3
<1>5. e = em \/ e = NullEntry \/ e \in CutEntries(em)
  BY DEF EntriesAt
<1>6. o + EntSize <= image.size => e = em
  BY DEF EntriesAt
<1> QED
  BY <1>1, <1>2, <1>3, <1>4, <1>5, <1>6

\* The code looks for a name or a header at no offset that the whole file has not.
LEMMA NameInFile ==
  ASSUME LocalsInv, NamesFound, NEW n \in 0 .. shnum - 1
  PROVE  SectionNameAt(n) \in Nat /\ SectionNameAt(n) < image.end
<1> DEFINE at == image.headers[image.shstrndx + 1].offset
           h  == image.headers[n + 1]
<1>1. at + h.name \in 0 .. image.end - 1
  <2>1. n + 1 \in DOMAIN image.headers
    BY ImageFacts
  <2>2. \A m \in DOMAIN image.headers : at + image.headers[m].name \in 0 .. image.end - 1
    BY ImageFacts, Zenon DEF WellFormed
  <2> QED
    BY <2>1, <2>2, Zenon
<1>2. at \in Nat /\ h.name \in Nat
  BY ImageFacts, HeaderFacts DEF HeaderRecord
<1>3. NullHeader.name = 0 /\ NullHeader.offset = 0
  BY DEF NullHeader
<1>4. strings \in {0, at}
  BY <1>3, ImageFacts, HeaderFacts DEF NamesFound
<1>5. Header(n).name \in {0, h.name}
  BY <1>3, HeaderFacts
<1>6. image.end \in Nat
  BY ImageFacts
<1> HIDE DEF at, h
<1>7. \A x \in {0, at}, y \in {0, h.name} : x + y \in Nat /\ x + y < image.end
  BY <1>1, <1>2, <1>6
<1> QED
  BY <1>4, <1>5, <1>7 DEF SectionNameAt

\* The name of an entry is in the whole file.
LEMMA StringInFile ==
  ASSUME LocalsInv, TableFound, NEW p \in 1 .. n_syms(Header(scan)), NEW e \in EntriesAt(OffsetOf(p))
  PROVE  strtab + e.name \in Nat /\ strtab + e.name < image.end
<1> DEFINE table == image.headers[scan + 1]
           at    == image.headers[table.link + 1].offset
           name  == EntryOf(image, table, p).name
<1>0. /\ scan \in 0 .. shnum - 1 /\ Header(scan).type = "SYMTAB" /\ Header(scan) = table
      /\ table.link \in 0 .. shnum - 1
  BY ImageFacts, TableFacts DEF LocalsInv, TableFound
<1>1. at + name \in 0 .. image.end - 1
  BY <1>0, TableFacts
<1>2. at \in Nat /\ name \in Nat
  BY <1>0, HeaderFacts, EntryFacts DEF HeaderRecord, EntryRecord
<1>3. strtab \in {0, at}
  BY <1>0, HeaderFacts DEF TableFound, NullHeader
<1>4. e.name \in {0, name}
  BY EntryRead
<1> HIDE DEF at, name
<1> QED
  BY <1>1, <1>2, <1>3, <1>4, ImageFacts

\* So is everything that the loader reads for an entry.
LEMMA TouchedInFile ==
  ASSUME LocalsInv, NamesFound, TableFound, NEW p \in 1 .. n_syms(Header(scan)),
         NEW e \in EntriesAt(OffsetOf(p)), NEW o \in Touched(e)
  PROVE  o \in Nat /\ o < image.end
<1>1. e.shndx \in Nat
  BY EntryRead
<1>2. CASE o = strtab + e.name
  BY <1>2, StringInFile
<1>3. CASE o # strtab + e.name
  <2>1. e.shndx < shnum /\ (o = HeaderAt(e.shndx) \/ o = SectionNameAt(e.shndx))
    BY <1>3 DEF Touched, Unnamed
  <2>2. e.shndx \in 0 .. shnum - 1
    BY <1>1, <2>1, ImageFacts
  <2> QED
    BY <2>1, <2>2, HeaderFacts, NameInFile
<1> QED
  BY <1>2, <1>3

\* So is the entry itself.
LEMMA EntryInFile ==
  ASSUME LocalsInv, TableFound, NEW p \in 1 .. n_syms(Header(scan))
  PROVE  OffsetOf(p) \in Nat /\ OffsetOf(p) + EntSize \in Nat /\ OffsetOf(p) + EntSize <= image.end
<1>0. scan \in 0 .. shnum - 1 /\ Header(scan).type = "SYMTAB" /\ Header(scan) = image.headers[scan + 1]
  BY ImageFacts, TableFacts DEF LocalsInv, TableFound
<1> QED
  BY <1>0, EntryFacts, SizesAssumption DEF OffsetOf

-----------------------------------------------------------------------------
\* What is said of the image is said of the same image a step later.
LEMMA SameImage ==
  ASSUME image' = image
  PROVE  /\ shnum' = shnum /\ Extent' = Extent
         /\ \A n : HeaderAt(n)' = HeaderAt(n) /\ Header(n)' = Header(n)
BY DEF shnum, Extent, HeaderAt, Header

\* What has been loaded depends on nothing but the file and the locals that
\* point into it.
LEMMA SameTable ==
  ASSUME UNCHANGED <<image, scan, strings, strtab>>
  PROVE  /\ LoadedSymbols' = LoadedSymbols /\ NamesFound' = NamesFound /\ TableFound' = TableFound
         /\ n_syms(Header(scan))' = n_syms(Header(scan))
         /\ \A p : LoadedAs(p)' = LoadedAs(p)
<1>1. \A p : LoadedAs(p)' = LoadedAs(p)
  BY DEF LoadedAs, OffsetOf, AsLoaded, Header, HeaderAt, EntriesAt, CutEntries, LettersFor, ReadsOutside,
         Named, Unnamed, String, SectionNameAt, shnum
<1>2. n_syms(Header(scan))' = n_syms(Header(scan)) /\ NamesFound' = NamesFound
  BY DEF n_syms, Header, HeaderAt, NamesFound
<1>3. TableFound' = TableFound
  BY DEF Header, HeaderAt, TableFound, shnum
<1> QED
  BY <1>1, <1>2, <1>3 DEF LoadedSymbols

\* The invariant holds when the loader starts.
LEMMA InitOK ==
  ASSUME Init
  PROVE  IInv
<1>1. image \in Images /\ shnum \in Nat
  BY ImagesAssumption DEF Init, WellFormed, shnum
<1> QED
  BY <1>1 DEF Init, IInv, LocalsInv, SymbInv, OutsideNeedsPage

\* A step that loads an entry.
LEMMA LoadStep ==
  ASSUME IInv, LoadSymbol
  PROVE  IInv'
<1> USE DEF IInv
<1>0. UNCHANGED <<image, pc, scan, strings, strtab>> /\ pc = "load" /\ Len(symb) < n_syms(Header(scan))
  BY DEF LoadSymbol, Loading
<1>1. LocalsInv /\ NamesFound /\ TableFound /\ symb \in Seq(LoadedSymbols) /\ Len(symb) \in Nat
  BY <1>0 DEF LocalsInv, SymbInv
<1>2. n_syms(Header(scan)) \in Nat /\ Len(symb) + 1 \in 1 .. n_syms(Header(scan))
  BY <1>0, <1>1, TableFacts, ImageFacts, SMTT(30) DEF LocalsInv, TableFound
<1> DEFINE p == Len(symb) + 1
<1>3. PICK e \in EntriesAt(EntryAt) :
        \E c \in LettersFor(e) : symb' = Append(symb, AsLoaded(p, e, c))
  BY DEF LoadSymbol, AsLoaded
<1>4. PICK c \in LettersFor(e) : symb' = Append(symb, AsLoaded(p, e, c))
  BY <1>3
<1>5. EntryAt = OffsetOf(p)
  BY <1>1 DEF EntryAt, OffsetOf
<1> DEFINE new == AsLoaded(p, e, c)
<1>6. new \in LoadedAs(p) /\ new \in LoadedSymbols
  BY <1>2, <1>4, <1>5 DEF LoadedAs, LoadedSymbols
<1>7. symb' = Append(symb, new)
  BY <1>4
<1> HIDE DEF new
<1>8. /\ symb' \in Seq(LoadedSymbols) /\ Len(symb') = p /\ DOMAIN symb' = 1 .. p /\ symb'[p] = new
      /\ \A q \in 1 .. Len(symb) : symb'[q] = symb[q] /\ q \in DOMAIN symb
  BY <1>1, <1>6, <1>7
<1>9. \A q \in DOMAIN symb' : q \in 1 .. n_syms(Header(scan)) /\ symb'[q] \in LoadedAs(q)
  <2> SUFFICES ASSUME NEW q \in 1 .. p
               PROVE  q \in 1 .. n_syms(Header(scan)) /\ symb'[q] \in LoadedAs(q)
    BY <1>8
  <2>1. CASE q \in 1 .. Len(symb)
    BY <1>8, <2>1 DEF SymbInv
  <2>2. CASE q = p
    BY <1>2, <1>6, <1>8, <2>2
  <2> QED
    BY <1>1, <2>1, <2>2
<1>10. SymbInv'
  <2>1. p <= n_syms(Header(scan))
    BY <1>2
  <2> QED
    BY <1>0, <1>8, <1>9, <2>1, SameTable DEF SymbInv
<1>11. LocalsInv'
  BY <1>0, <1>1, SameTable, SameImage DEF LocalsInv
<1>12. OutsideNeedsPage'
  BY <1>0 DEF OutsideNeedsPage
<1> QED
  BY <1>10, <1>11, <1>12

\* A step that leaves the table and what is loaded of it alone.
LEMMA QuietStep ==
  ASSUME IInv, UNCHANGED <<image, scan, strings, strtab, symb>>,
         pc' \in {"done", "exit1", "fault", "outside"} \/ pc' = pc,
         pc' = "outside" => Extent < image.end
  PROVE  IInv'
<1>1. SymbInv' /\ LocalsInv'
  BY SameTable, SameImage DEF IInv, SymbInv, LocalsInv
<1>2. Extent' = Extent
  BY SameImage
<1> QED
  BY <1>1, <1>2 DEF IInv, OutsideNeedsPage

\* A step of the scan, before anything is loaded.
LEMMA ScanStep ==
  ASSUME IInv, FindNames \/ SkipSection \/ EnterSymtab
  PROVE  IInv'
<1>1. symb = <<>> /\ symb' = <<>> /\ image' = image /\ pc' \in {"scan", "load"}
  BY DEF IInv, SymbInv, FindNames, SkipSection, EnterSymtab, Scanning
<1>2. SymbInv'
  <2>1. pc' = "load" => 0 <= n_syms(Header(scan))'
    <3> SUFFICES ASSUME pc' = "load"
                 PROVE  0 <= n_syms(Header(scan))'
      OBVIOUS
    <3>1. scan' = scan /\ scan \in 0 .. shnum - 1 /\ Header(scan).type = "SYMTAB" /\ LocalsInv
      BY ImageFacts DEF FindNames, SkipSection, EnterSymtab, Scanning, IInv, LocalsInv
    <3>2. n_syms(Header(scan)) \in Nat /\ n_syms(Header(scan))' = n_syms(Header(scan))
      BY <1>1, <3>1, SameImage, TableFacts DEF n_syms
    <3> QED
      BY <3>2
  <2> QED
    BY <1>1, <2>1 DEF SymbInv
<1>3. LocalsInv'
  <2>1. CASE FindNames
    BY <1>1, <2>1, SameImage DEF FindNames, IInv, LocalsInv, NamesFound
  <2>2. CASE SkipSection
    <3>1. scan' \in 0 .. shnum
      BY <2>2, ImageFacts DEF SkipSection, Scanning, IInv, LocalsInv
    <3> QED
      BY <1>1, <2>2, <3>1, SameImage DEF SkipSection, Scanning, IInv, LocalsInv, NamesFound
  <2>3. CASE EnterSymtab
    BY <1>1, <2>3, SameImage DEF EnterSymtab, Scanning, IInv, LocalsInv, NamesFound, TableFound
  <2> QED
    BY <2>1, <2>2, <2>3
<1> QED
  BY <1>1, <1>2, <1>3 DEF IInv, OutsideNeedsPage

\* When something behind the mapping is looked at, the mapping ends before the
\* whole file does.
LEMMA OutsideCut ==
  ASSUME IInv, ReadOutside
  PROVE  Extent < image.end
<1>0. LocalsInv /\ Extent \in Nat /\ image.end \in Nat /\ shnum \in Nat
  BY MappedFacts, ImageFacts DEF IInv
<1> SUFFICES \E o \in Nat : o < image.end /\ ~Mapped(o)
  BY <1>0, MappedFacts
<1>1. ASSUME NEW n \in 0 .. shnum - 1, ~Mapped(HeaderAt(n))
      PROVE  \E o \in Nat : o < image.end /\ ~Mapped(o)
  BY <1>0, <1>1, HeaderFacts
<1>2. CASE pc = "names" /\ ~Mapped(HeaderAt(image.shstrndx))
  BY <1>0, <1>1, <1>2, ImageFacts
<1>3. CASE pc = "scan" /\ scan < shnum /\ ~Mapped(HeaderAt(scan))
  <2>1. scan \in 0 .. shnum - 1
    BY <1>0, <1>3 DEF LocalsInv
  <2> QED
    BY <1>1, <1>3, <2>1
<1>4. CASE Scanning /\ Header(scan).type = "SYMTAB" /\ ~Mapped(HeaderAt(Header(scan).link))
  <2>1. scan \in 0 .. shnum - 1
    BY <1>0, <1>4 DEF LocalsInv, Scanning
  <2>2. Header(scan).link \in 0 .. shnum - 1
    BY <1>0, <1>4, <2>1, TableFacts
  <2> QED
    BY <1>1, <1>4, <2>2
<1>5. CASE Loading
  <2> DEFINE p == Len(symb) + 1
  <2>1. NamesFound /\ TableFound /\ Len(symb) \in Nat /\ Len(symb) < n_syms(Header(scan))
    BY <1>5 DEF IInv, LocalsInv, SymbInv, Loading
  <2>2. scan \in 0 .. shnum - 1 /\ n_syms(Header(scan)) \in Nat
    BY <1>0, <2>1, TableFacts DEF LocalsInv, TableFound
  <2>3. p \in 1 .. n_syms(Header(scan)) /\ EntryAt = OffsetOf(p)
    BY <2>1, <2>2 DEF EntryAt, OffsetOf
  <2>4. CASE ~EntryMapped
    <3>1. OffsetOf(p) \in Nat /\ OffsetOf(p) + EntSize <= image.end
      BY <1>0, <2>1, <2>3, EntryInFile
    <3>2. OffsetOf(p) + EntSize - 1 \in Nat /\ OffsetOf(p) + EntSize - 1 < image.end
      BY <1>0, <3>1, SizesAssumption
    <3> QED
      BY <2>3, <2>4, <3>2 DEF EntryMapped
  <2>5. CASE \E e \in EntriesAt(EntryAt) : ~EntrySound(e)
    <3>1. PICK e \in EntriesAt(OffsetOf(p)) : \E o \in Touched(e) : ~Mapped(o)
      BY <2>3, <2>5 DEF EntrySound
    <3>2. PICK o \in Touched(e) : ~Mapped(o)
      BY <3>1
    <3> QED
      BY <1>0, <2>1, <2>3, <3>2, TouchedInFile
  <2> QED
    BY <1>5, <2>4, <2>5 DEF ReadOutside, Loading, Scanning
<1> QED
  BY <1>2, <1>3, <1>4, <1>5 DEF ReadOutside

\* The invariant holds of every run of Loader.
THEOREM Invariance == Spec => []IInv
<1>1. ASSUME IInv, [Next]_vars PROVE IInv'
  <2>1. CASE FindNames \/ SkipSection \/ EnterSymtab
    BY <1>1, <2>1, ScanStep
  <2>2. CASE LoadSymbol
    BY <1>1, <2>2, LoadStep
  <2>3. CASE MallocFails \/ NoSymtab \/ LoadFaults \/ LoadDone
    BY <1>1, <2>3, QuietStep DEF MallocFails, NoSymtab, LoadFaults, LoadDone
  <2>4. CASE ReadOutside
    BY <1>1, <2>4, QuietStep, OutsideCut DEF ReadOutside
  <2>5. CASE UNCHANGED vars
    BY <1>1, <2>5, QuietStep DEF vars, IInv, OutsideNeedsPage
  <2> QED
    BY <1>1, <2>1, <2>2, <2>3, <2>4, <2>5 DEF Next
<1> QED
  BY <1>1, InitOK, PTL DEF Spec

\* A cut inside of the last page of a file is not noticed: something behind the
\* mapping is looked at only when a page or more is missing.
THEOREM OutsideLacksPage == Spec => []OutsideNeedsPage
BY Invariance, PTL DEF IInv

-----------------------------------------------------------------------------
\* The table and the sections of the whole file, as Listing has them.
LEMMA TableIsListed ==
  ASSUME LocalsInv, NEW n \in 1 .. shnum, image.headers[n].type = "SYMTAB"
  PROVE  LET h     == image.headers[n]
             table == TableIn(image, h)
         IN /\ DOMAIN table = 1 .. n_syms(h) /\ Len(table) = n_syms(h)
            /\ table \in Seq(Abstract!SymbolEntry)
            /\ \A j \in 1 .. n_syms(h) :
                 LET e == EntryOf(image, h, j)
                 IN /\ e \in EntryRecord
                    /\ table[j] = [e EXCEPT !.name =
                         image.strings[image.headers[h.link + 1].offset + e.name]]
<1> DEFINE h == image.headers[n]
           N == n_syms(h)
           own(e) == [e EXCEPT !.name = image.strings[image.headers[h.link + 1].offset + e.name]]
<1>1. /\ h \in HeaderRecord /\ h.type = "SYMTAB" /\ h.link < Len(image.headers)
      /\ h.offset + h.size <= image.end /\ n \in DOMAIN image.headers
      /\ \A j \in 1 .. h.size \div EntSize :
           image.headers[h.link + 1].offset + EntryOf(image, h, j).name \in 0 .. image.end - 1
  BY ImageFacts DEF WellFormed
<1>2. h.offset \in Nat /\ h.size \in Nat /\ EntSize \in Nat \ {0} /\ image.end \in Nat
  BY <1>1, SizesAssumption, ImageFacts DEF HeaderRecord
<1>3. N \in Nat /\ N * EntSize <= h.size
  BY <1>2, Quotient DEF n_syms
<1>4. TableIn(image, h) = [j \in 1 .. N |-> own(EntryOf(image, h, j))]
  BY DEF TableIn, n_syms
<1> HIDE DEF h, N
<1>5. ASSUME NEW j \in 1 .. N
      PROVE  EntryOf(image, h, j) \in EntryRecord
  <2> DEFINE before == (j - 1) * EntSize
             all    == N * EntSize
  <2>1. before \in Nat /\ before + EntSize <= all /\ all \in Nat /\ all <= h.size
    BY <1>2, <1>3, EntryEnds
  <2> HIDE DEF before, all
  <2>2. h.offset + before \in 0 .. image.end - 1
    BY <1>1, <1>2, <2>1
  <2>3. image.entries \in [0 .. image.end - 1 -> EntryRecord]
    BY ImageFacts DEF WellFormed
  <2> QED
    BY <2>2, <2>3 DEF EntryOf, before
<1>6. ASSUME NEW j \in 1 .. N
      PROVE  own(EntryOf(image, h, j)) \in Abstract!SymbolEntry
  <2> DEFINE e == EntryOf(image, h, j)
             at == image.headers[h.link + 1].offset + e.name
  <2>1. at \in 0 .. image.end - 1 /\ e \in EntryRecord
    BY <1>1, <1>5 DEF N, n_syms
  <2>2. image.strings[at] \in STRING
    BY <2>1, ImageFacts DEF WellFormed
  <2> HIDE DEF e, at
  <2>3. [e EXCEPT !.name = image.strings[at]] \in Abstract!SymbolEntry
    BY <2>1, <2>2 DEF EntryRecord, Abstract!SymbolEntry
  <2> QED
    BY <2>3 DEF e, at
<1> HIDE DEF own
<1>7. /\ DOMAIN TableIn(image, h) = 1 .. N /\ Len(TableIn(image, h)) = N
      /\ TableIn(image, h) \in Seq(Abstract!SymbolEntry)
  BY <1>3, <1>4, <1>6
<1> QED
  BY <1>4, <1>5, <1>7 DEF h, N, own

\* The sections that Listing sees are the headers of the file, each with its
\* name and table.
LEMMA SectionsAreListed ==
  ASSUME LocalsInv
  PROVE  /\ SectionsOf(image) \in Seq(Abstract!SectionHeader)
         /\ Len(SectionsOf(image)) = shnum /\ DOMAIN SectionsOf(image) = 1 .. shnum
         /\ \A n \in 1 .. shnum :
              LET h == image.headers[n]
              IN SectionsOf(image)[n] =
                   [type |-> h.type, flags |-> h.flags,
                    name |-> image.strings[image.headers[image.shstrndx + 1].offset + h.name],
                    symbols |-> IF h.type = "SYMTAB" THEN TableIn(image, h) ELSE <<>>]
         /\ SectionsOf(image)[1].name = NoName
<1> DEFINE names == image.headers[image.shstrndx + 1].offset
           section(h) == [type |-> h.type, flags |-> h.flags, name |-> image.strings[names + h.name],
                          symbols |-> IF h.type = "SYMTAB" THEN TableIn(image, h) ELSE <<>>]
<1>1. SectionsOf(image) = [n \in 1 .. shnum |-> section(image.headers[n])]
  BY DEF SectionsOf, shnum
<1>2. ASSUME NEW n \in 1 .. shnum
      PROVE  section(image.headers[n]) \in Abstract!SectionHeader
  <2> DEFINE h == image.headers[n]
  <2>1. h \in HeaderRecord
    BY ImageFacts
  <2>2. names + h.name \in 0 .. image.end - 1 /\ image.strings \in [0 .. image.end - 1 -> STRING]
    BY ImageFacts DEF WellFormed
  <2>3. image.strings[names + h.name] \in STRING
    BY <2>2
  <2>4. (IF h.type = "SYMTAB" THEN TableIn(image, h) ELSE <<>>) \in Seq(Abstract!SymbolEntry)
    BY TableIsListed
  <2> HIDE DEF h, names
  <2>5. section(h) \in Abstract!SectionHeader
    BY <2>1, <2>3, <2>4
       DEF HeaderRecord, SectionTypes, SectionFlags,
           Abstract!SectionHeader, Abstract!SectionTypes, Abstract!SectionFlags
  <2> QED
    BY <2>5 DEF h
<1>3. shnum \in Nat /\ 1 \in 1 .. shnum
  BY ImageFacts
<1>4. section(image.headers[1]).name = NoName
  BY ImageFacts DEF WellFormed
<1>5. \A n \in 1 .. shnum : SectionsOf(image)[n] = section(image.headers[n])
  BY <1>1
<1>6. DOMAIN SectionsOf(image) = 1 .. shnum
  BY <1>1
<1>7. /\ SectionsOf(image) \in Seq(Abstract!SectionHeader)
      /\ Len(SectionsOf(image)) = shnum
  <2> HIDE DEF section
  <2> QED
    BY <1>1, <1>2, <1>3
<1> QED
  BY <1>3, <1>4, <1>5, <1>6, <1>7

\* Letters are chosen alike on both sides of the refinement.
LEMMA SameLetters ==
  ASSUME NEW s, NEW sections
  PROVE  /\ Abstract!NeedsSection(s) = NeedsSection(s)
         /\ Abstract!determine_symb(sections, s) = determine_symb(sections, s)
         /\ \A c : Abstract!CaseOf(s, c) = CaseOf(s, c)
         /\ Abstract!NoName = NoName
<1>1. Abstract!NoName = NoName
  BY DEF Abstract!NoName, NoName
<1>2. Abstract!get_symb_type_and_visibility(s) = get_symb_type_and_visibility(s)
  BY DEF Abstract!get_symb_type_and_visibility, get_symb_type_and_visibility,
         Abstract!ABS, ABS, Abstract!UNDEF, UNDEF, Abstract!COMMON, COMMON
<1>3. \A sec : Abstract!get_symbol_section_char(sec) = get_symbol_section_char(sec)
  BY DEF Abstract!get_symbol_section_char, get_symbol_section_char,
         Abstract!ReadOnlyTypes, ReadOnlyTypes
<1>4. Abstract!SectionNames = SectionNames /\ Abstract!EhFrame = EhFrame
  BY Zenon DEF Abstract!SectionNames, SectionNames, Abstract!EhFrame, EhFrame
<1>5. \A flags, name : Abstract!get_section_name(flags, name) = get_section_name(flags, name)
  BY <1>4 DEF Abstract!get_section_name, get_section_name
<1>6. \A ret : Abstract!RangeChar(ret) = RangeChar(ret)
  BY DEF Abstract!RangeChar, RangeChar
<1>7. \A sec, name : Abstract!get_symb_based_on_section(sec, name) = get_symb_based_on_section(sec, name)
  BY <1>5, <1>6 DEF Abstract!get_symb_based_on_section, get_symb_based_on_section
<1>8. \A c : Abstract!CaseOf(s, c) = CaseOf(s, c)
  <2>1. Abstract!Capitals = Capitals /\ Abstract!DebugNames = DebugNames
    BY Zenon DEF Abstract!Capitals, Capitals, Abstract!DebugNames, DebugNames
  <2>2. \A c : Abstract!ToLower(c) = ToLower(c)
    BY <2>1 DEF Abstract!ToLower, ToLower
  <2> QED
    BY <2>1, <2>2 DEF Abstract!CaseOf, CaseOf
<1>9. Abstract!determine_symb(sections, s) = determine_symb(sections, s)
  BY <1>2, <1>3, <1>7, <1>8
     DEF Abstract!determine_symb, determine_symb, Abstract!SectionOf, SectionOf, Abstract!Resolved, Resolved
<1> QED
  BY <1>1, <1>2, <1>8, <1>9 DEF Abstract!NeedsSection, NeedsSection

\* The letter needs the type and the flags of the section of the symbol only.
LEMMA SameLetter ==
  ASSUME NEW s, NEW one, NEW other,
         s.isSection \/ NeedsSection(s) =>
           one[s.shndx + 1].type = other[s.shndx + 1].type /\ one[s.shndx + 1].flags = other[s.shndx + 1].flags
  PROVE  determine_symb(one, s) = determine_symb(other, s)
<1>1. CASE s.isSection \/ NeedsSection(s)
  <2>1. /\ SectionOf(one, s).type = SectionOf(other, s).type
        /\ SectionOf(one, s).flags = SectionOf(other, s).flags
    BY <1>1 DEF SectionOf
  <2>2. get_symbol_section_char(SectionOf(one, s)) = get_symbol_section_char(SectionOf(other, s))
    BY <2>1 DEF get_symbol_section_char
  <2>3. get_symb_based_on_section(SectionOf(one, s), s.name) = get_symb_based_on_section(SectionOf(other, s), s.name)
    BY <2>1 DEF get_symb_based_on_section
  <2> QED
    BY <2>2, <2>3 DEF determine_symb
<1>2. CASE ~s.isSection /\ ~NeedsSection(s)
  BY <1>2 DEF determine_symb, NeedsSection
<1> QED
  BY <1>1, <1>2

\* An entry none of whose parts was cut is read as Listing reads it.
LEMMA ReadAsWhole ==
  ASSUME LocalsInv, NamesFound, TableFound, NEW p \in 1 .. n_syms(Header(scan)),
         NEW e \in EntriesAt(OffsetOf(p)), \A o \in Kept(p) : o < image.size
  PROVE  LET s == Abstract!Named(TableIn(image, image.headers[scan + 1])[p])
         IN /\ Named(e) = s
            /\ ReadsOutside(e) <=> Abstract!ReadsOutside(s)
            /\ \A c : CaseOf(Named(e), c) = Abstract!CaseOf(s, c)
            /\ ~ReadsOutside(e) =>
                 /\ LettersFor(e) = {determine_symb(SectionsOf(image), s)}
                 /\ determine_symb(SectionsOf(image), s) = Abstract!determine_symb(SectionsOf(image), s)
<1> DEFINE table   == image.headers[scan + 1]
           namesAt == image.headers[image.shstrndx + 1].offset
           whole   == TableIn(image, table)[p]
           text    == image.strings[image.headers[table.link + 1].offset + e.name]
           s       == Abstract!Named(whole)
<1>1. /\ scan \in 0 .. shnum - 1 /\ Header(scan).type = "SYMTAB" /\ Header(scan) = table
      /\ table.link \in 0 .. shnum - 1 /\ image.shstrndx \in 0 .. shnum - 1
      /\ table.offset \in Nat /\ shnum \in Nat
  BY ImageFacts, TableFacts, SMTT(30) DEF LocalsInv, TableFound
<1>2. e = EntryOf(image, table, p) /\ e.shndx \in Nat /\ e \in EntryRecord
  <2>1. table.offset + p * EntSize - 1 < image.size
    BY DEF Kept
  <2>2. EntSize \in Nat \ {0} /\ p \in Nat /\ image.size \in Nat
    BY <1>1, SizesAssumption, ImageFacts
  <2>3. \A k, E \in Nat : k * E \in Nat /\ (k - 1) * E + E = k * E
    OBVIOUS
  <2>4. OffsetOf(p) + EntSize <= image.size
    <3> DEFINE before == (p - 1) * EntSize
               all    == p * EntSize
    <3>1. before + EntSize = all /\ all \in Nat
      BY <2>2, <2>3
    <3>2. before \in Int
      BY <2>2
    <3>3. table.offset + all - 1 < image.size /\ OffsetOf(p) = table.offset + before
      BY <1>1, <2>1 DEF OffsetOf
    <3> HIDE DEF before, all, table
    <3> QED
      BY <1>1, <2>2, <3>1, <3>2, <3>3
  <2>5. EntryOf(image, table, p) \in EntryRecord
    BY <1>1, EntryFacts
  <2> QED
    BY <2>4, <2>5, EntryRead
<1>3. whole = [e EXCEPT !.name = text]
  <2>1. scan + 1 \in 1 .. shnum /\ table.type = "SYMTAB" /\ p \in 1 .. n_syms(table)
    BY <1>1
  <2>2. \A j \in 1 .. n_syms(table) :
          TableIn(image, table)[j] =
            [EntryOf(image, table, j) EXCEPT !.name =
               image.strings[image.headers[table.link + 1].offset + EntryOf(image, table, j).name]]
    BY <2>1, TableIsListed
  <2> QED
    BY <1>2, <2>1, <2>2
<1>4. strtab = image.headers[table.link + 1].offset /\ strings = namesAt
  <2>1. HeaderAt(table.link) < image.size /\ HeaderAt(image.shstrndx) < image.size
    BY DEF Kept
  <2> QED
    BY <1>1, <2>1, HeaderFacts DEF TableFound, NamesFound
<1>5. String(strtab + e.name) = text
  <2>1. strtab + e.name < image.size
    BY <1>2, <1>4 DEF Kept
  <2> QED
    BY <1>4, <2>1 DEF String
<1>6. ASSUME e.shndx < shnum
      PROVE  /\ String(SectionNameAt(e.shndx)) = SectionsOf(image)[e.shndx + 1].name
             /\ Header(e.shndx).type = SectionsOf(image)[e.shndx + 1].type
             /\ Header(e.shndx).flags = SectionsOf(image)[e.shndx + 1].flags
  <2>1. HeaderAt(e.shndx) < image.size /\ namesAt + image.headers[e.shndx + 1].name < image.size
    BY <1>2, <1>6 DEF Kept
  <2>2. e.shndx \in 0 .. shnum - 1 /\ e.shndx + 1 \in 1 .. shnum
    BY <1>1, <1>2, <1>6
  <2>3. Header(e.shndx) = image.headers[e.shndx + 1]
    BY <2>1, <2>2, HeaderFacts
  <2>4. /\ SectionsOf(image)[e.shndx + 1].name = image.strings[namesAt + image.headers[e.shndx + 1].name]
        /\ SectionsOf(image)[e.shndx + 1].type = image.headers[e.shndx + 1].type
        /\ SectionsOf(image)[e.shndx + 1].flags = image.headers[e.shndx + 1].flags
    BY <2>2, SectionsAreListed
  <2> QED
    BY <1>4, <2>1, <2>3, <2>4 DEF String, SectionNameAt
<1>7. /\ whole.name = text /\ whole.type = e.type /\ whole.binding = e.binding
      /\ whole.visibility = e.visibility /\ whole.shndx = e.shndx /\ whole.value = e.value
  BY <1>2, <1>3 DEF EntryRecord
<1>8. Len(SectionsOf(image)) = shnum
  BY SectionsAreListed
<1> HIDE DEF whole, text, table
<1>9. Unnamed(e) <=> Abstract!Unnamed(whole)
  BY <1>5, <1>7, <1>8, SameLetters DEF Unnamed, Abstract!Unnamed
<1>10. Named(e) = s
  <2>1. s = [name |-> IF Unnamed(e) THEN SectionsOf(image)[e.shndx + 1].name ELSE text,
             type |-> e.type, binding |-> e.binding, visibility |-> e.visibility,
             shndx |-> e.shndx, value |-> e.value, isSection |-> Abstract!Unnamed(whole)]
    BY <1>7, <1>9 DEF Abstract!Named, Abstract!Fields, Abstract!Section
  <2>2. Unnamed(e) \in BOOLEAN /\ Abstract!Unnamed(whole) \in BOOLEAN
    BY DEF Unnamed, Abstract!Unnamed
  <2> QED
    BY <1>5, <1>6, <1>9, <2>1, <2>2 DEF Named, Unnamed
<1>11. NeedsSection(e) <=> NeedsSection(Named(e))
  BY DEF NeedsSection, get_symb_type_and_visibility, Named
<1>12. ReadsOutside(e) <=> Abstract!ReadsOutside(s)
  <2>1. Abstract!NeedsSection(s) = NeedsSection(e)
    BY Zenon, <1>10, <1>11, SameLetters DEF NeedsSection
  <2>2. s.shndx = e.shndx
    BY <1>10 DEF Named
  <2> QED
    BY <1>8, <2>1, <2>2 DEF ReadsOutside, Abstract!ReadsOutside
<1>13. \A c : CaseOf(Named(e), c) = Abstract!CaseOf(s, c)
  BY <1>10, SameLetters
<1>14. ASSUME ~ReadsOutside(e)
       PROVE  /\ LettersFor(e) = {determine_symb(SectionsOf(image), s)}
              /\ determine_symb(SectionsOf(image), s) = Abstract!determine_symb(SectionsOf(image), s)
  <2> DEFINE read == [n \in 1 .. shnum |-> Header(n - 1)]
  <2>1. Named(e).isSection \/ NeedsSection(Named(e)) =>
          /\ read[Named(e).shndx + 1].type = SectionsOf(image)[Named(e).shndx + 1].type
          /\ read[Named(e).shndx + 1].flags = SectionsOf(image)[Named(e).shndx + 1].flags
    <3> SUFFICES ASSUME Named(e).isSection \/ NeedsSection(Named(e))
                 PROVE  /\ read[e.shndx + 1].type = SectionsOf(image)[e.shndx + 1].type
                        /\ read[e.shndx + 1].flags = SectionsOf(image)[e.shndx + 1].flags
      BY DEF Named
    <3>1. e.shndx < shnum
      <4>1. Named(e).isSection => e.shndx < shnum
        BY DEF Named, Unnamed
      <4> QED
        BY <1>1, <1>2, <1>11, <1>14, <4>1 DEF ReadsOutside
    <3>2. e.shndx + 1 \in 1 .. shnum /\ (e.shndx + 1) - 1 = e.shndx
      BY <1>1, <1>2, <3>1
    <3>3. read[e.shndx + 1] = Header(e.shndx)
      BY <3>2
    <3> QED
      BY <1>6, <3>1, <3>3
  <2>2. determine_symb(read, Named(e)) = determine_symb(SectionsOf(image), Named(e))
    BY <2>1, SameLetter
  <2> QED
    BY <1>10, <1>14, <2>2, SameLetters DEF LettersFor
<1> QED
  BY <1>10, <1>12, <1>13, <1>14 DEF whole, table

\* In a file that was cut, a symbol whose entry, names and section header are
\* all in front of the cut is loaded as from the whole file.
THEOREM CutLeavesTheRestRight == Spec => []RightUnlessCut
<1>1. ASSUME IInv PROVE RightUnlessCut
  <2> SUFFICES ASSUME NEW p \in DOMAIN symb, \A o \in Kept(p) : o < image.size
               PROVE  LET s == Abstract!Named(TableIn(image, image.headers[scan + 1])[p])
                      IN /\ symb[p].name = s.name /\ symb[p].isSection = s.isSection
                         /\ symb[p].binding = s.binding /\ symb[p].shndx = s.shndx
                         /\ symb[p].value = s.value
                         /\ ~Abstract!ReadsOutside(s) => symb[p].char = determine_symb(SectionsOf(image), s)
    BY DEF RightUnlessCut
  <2> DEFINE s == Abstract!Named(TableIn(image, image.headers[scan + 1])[p])
  <2>1. symb # <<>> /\ LocalsInv /\ p \in 1 .. n_syms(Header(scan)) /\ symb[p] \in LoadedAs(p)
    BY <1>1 DEF IInv, SymbInv
  <2>2. NamesFound /\ TableFound
    BY <2>1 DEF LocalsInv
  <2>3. PICK e \in EntriesAt(OffsetOf(p)) : \E c \in LettersFor(e) : symb[p] = AsLoaded(p, e, c)
    BY <2>1 DEF LoadedAs
  <2>4. PICK c \in LettersFor(e) : symb[p] = AsLoaded(p, e, c)
    BY <2>3
  <2>5. /\ Named(e) = s /\ (ReadsOutside(e) <=> Abstract!ReadsOutside(s))
        /\ ~ReadsOutside(e) => LettersFor(e) = {determine_symb(SectionsOf(image), s)}
    BY <2>1, <2>2, ReadAsWhole
  <2> HIDE DEF s
  <2>6. /\ symb[p].name = s.name /\ symb[p].isSection = s.isSection /\ symb[p].binding = s.binding
        /\ symb[p].shndx = s.shndx /\ symb[p].value = s.value /\ symb[p].char = c
    BY <2>4, <2>5 DEF AsLoaded
  <2> QED
    BY <2>5, <2>6 DEF s
<1> QED
  BY <1>1, Invariance, PTL

-----------------------------------------------------------------------------
\* A whole file is read everywhere as it is.
LEMMA WholeIsKept ==
  ASSUME LocalsInv, Whole, TableFound, NEW p \in 1 .. n_syms(Header(scan)), NEW o \in Kept(p)
  PROVE  o < image.size
<1> DEFINE table   == image.headers[scan + 1]
           e       == EntryOf(image, table, p)
           namesAt == image.headers[image.shstrndx + 1].offset
<1>1. /\ scan \in 0 .. shnum - 1 /\ Header(scan).type = "SYMTAB" /\ Header(scan) = table
      /\ table.link \in 0 .. shnum - 1 /\ image.shstrndx \in 0 .. shnum - 1
      /\ shnum \in Nat /\ image.size = image.end /\ image.end \in Nat
  BY ImageFacts, TableFacts DEF LocalsInv, TableFound, Whole
<1>2. CASE \E n \in 0 .. shnum - 1 : o = HeaderAt(n)
  BY <1>1, <1>2, HeaderFacts
<1>3. CASE o = table.offset + p * EntSize - 1
  <2>1. table.offset \in Nat /\ n_syms(table) \in Nat /\ table.offset + n_syms(table) * EntSize <= image.end
    BY <1>1, TableFacts
  <2>2. \A k, n, E \in Nat : k <= n => k * E <= n * E /\ k * E \in Nat /\ n * E \in Nat
    OBVIOUS
  <2> DEFINE before == p * EntSize
             all    == n_syms(table) * EntSize
  <2>3. before <= all /\ before \in Nat /\ all \in Nat
    BY <1>1, <2>1, <2>2, SizesAssumption
  <2>4. table.offset + all <= image.end /\ o = table.offset + before - 1
    BY <1>3, <2>1
  <2> HIDE DEF before, all, table
  <2> QED
    BY <1>1, <2>1, <2>3, <2>4
<1>4. CASE o = image.headers[table.link + 1].offset + e.name
  <2>1. o \in 0 .. image.end - 1
    BY <1>1, <1>4, TableFacts
  <2> QED
    BY <1>1, <2>1
<1>5. CASE e.shndx < shnum /\ o \in {HeaderAt(e.shndx), namesAt + image.headers[e.shndx + 1].name}
  <2>1. e.shndx \in Nat
    BY <1>1, EntryFacts DEF EntryRecord
  <2>2. e.shndx \in 0 .. shnum - 1 /\ e.shndx + 1 \in DOMAIN image.headers
    BY <1>1, <1>5, <2>1, ImageFacts
  <2>3. namesAt + image.headers[e.shndx + 1].name \in 0 .. image.end - 1
    BY <2>2, ImageFacts DEF WellFormed
  <2> HIDE DEF e, namesAt
  <2> QED
    BY <1>1, <1>2, <1>5, <2>2, <2>3
<1> QED
  BY <1>1, <1>2, <1>3, <1>4, <1>5 DEF Kept

\* The loading of a symbol of a whole file is that of Listing.
LEMMA LoadImplements ==
  ASSUME IInv, Whole, LoadSymbol
  PROVE  Abstract!LoadSymbol
<1> DEFINE p     == Len(symb) + 1
           table == image.headers[scan + 1]
           s     == Abstract!Named(TableIn(image, table)[p])
<1>1. /\ LocalsInv /\ NamesFound /\ TableFound /\ Len(symb) \in Nat
      /\ pc = "load" /\ Len(symb) < n_syms(Header(scan))
  BY DEF LoadSymbol, Loading, IInv, LocalsInv, SymbInv
<1>2. scan \in 0 .. shnum - 1 /\ scan + 1 \in 1 .. shnum /\ Header(scan) = table /\ table.type = "SYMTAB"
      /\ n_syms(table) \in Nat
  BY <1>1, TableFacts, ImageFacts DEF LocalsInv, TableFound
<1>3. p \in 1 .. n_syms(Header(scan)) /\ EntryAt = OffsetOf(p)
  BY <1>1, <1>2 DEF EntryAt, OffsetOf
<1>4. \A o \in Kept(p) : o < image.size
  BY <1>1, <1>3, WholeIsKept
<1>5. PICK e \in EntriesAt(OffsetOf(p)) : \E c \in LettersFor(e) : symb' = Append(symb, AsLoaded(p, e, c))
  BY <1>3 DEF LoadSymbol, AsLoaded
<1>6. PICK c \in LettersFor(e) : symb' = Append(symb, AsLoaded(p, e, c))
  BY <1>5
<1>7. /\ Named(e) = s /\ (ReadsOutside(e) <=> Abstract!ReadsOutside(s))
      /\ \A x : CaseOf(Named(e), x) = Abstract!CaseOf(s, x)
      /\ ~ReadsOutside(e) => LettersFor(e) = {Abstract!determine_symb(SectionsOf(image), s)}
  BY <1>1, <1>3, <1>4, ReadAsWhole
<1>8. Abstract!Table = TableIn(image, table)
  BY <1>2, SectionsAreListed, <1>1 DEF Abstract!Table, Abstract!Section
<1>9. Abstract!Loading /\ s = Abstract!Named(Abstract!Entry)
  <2>1. Len(symb) < Len(Abstract!Table)
    BY <1>1, <1>2, <1>8, TableIsListed
  <2> QED
    BY <1>1, <1>8, <2>1 DEF Abstract!Loading, Abstract!Entry
<1> HIDE DEF s
<1>10. c \in IF Abstract!ReadsOutside(s) THEN {Abstract!CaseOf(s, x) : x \in {"B", "D", "N", "R", "T"}}
             ELSE {Abstract!determine_symb(SectionsOf(image), s)}
  <2>1. ReadsOutside(e) => LettersFor(e) = {Abstract!CaseOf(s, x) : x \in {"B", "D", "N", "R", "T"}}
    BY <1>7 DEF LettersFor
  <2> QED
    BY <1>6, <1>7, <2>1
<1>11. symb' = Append(symb, Abstract!Loaded(s, c))
  BY <1>6, <1>7 DEF AsLoaded, Abstract!Loaded
<1>12. UNCHANGED <<SectionsOf(image), scan>> /\ pc = pc'
  BY DEF LoadSymbol
<1>13. \E x \in IF Abstract!ReadsOutside(s) THEN {Abstract!CaseOf(s, y) : y \in {"B", "D", "N", "R", "T"}}
               ELSE {Abstract!determine_symb(SectionsOf(image), s)} : symb' = Append(symb, Abstract!Loaded(s, x))
  BY <1>10, <1>11
<1> QED
  BY <1>9, <1>12, <1>13 DEF Abstract!LoadSymbol

\* So is every other step.
LEMMA StepImplements ==
  ASSUME IInv, Whole, [Next]_vars
  PROVE  [Abstract!LoadNext]_(Abstract!vars)
<1> DEFINE table == image.headers[scan + 1]
<1>1. LocalsInv /\ SymbInv /\ Whole /\ image.end \in Nat /\ shnum \in Nat
  BY ImageFacts DEF IInv
<1>2. Len(SectionsOf(image)) = shnum
  BY <1>1, SectionsAreListed
<1>3. ASSUME scan < shnum
      PROVE  /\ scan \in 0 .. shnum - 1 /\ scan + 1 \in 1 .. shnum /\ Header(scan) = table
             /\ Abstract!Section(scan).type = table.type
             /\ table.type = "SYMTAB" => Abstract!Section(scan).symbols = TableIn(image, table)
  <2>1. scan \in 0 .. shnum - 1 /\ scan + 1 \in 1 .. shnum
    BY <1>1, <1>3 DEF LocalsInv
  <2>2. Header(scan) = table
    BY <1>1, <2>1, HeaderFacts, ImageFacts DEF Whole
  <2> QED
    BY <1>1, <2>1, <2>2, SectionsAreListed DEF Abstract!Section
<1>4. CASE FindNames
  BY <1>4 DEF FindNames, Abstract!vars
<1>5. CASE SkipSection
  <2>1. pc = "scan" /\ scan < shnum /\ Header(scan).type # "SYMTAB"
    BY <1>5 DEF SkipSection, Scanning
  <2>2. Abstract!SkipSection
    BY <1>2, <1>3, <1>5, <2>1 DEF SkipSection, Abstract!SkipSection
  <2> QED
    BY <2>2 DEF Abstract!LoadNext
<1>6. CASE EnterSymtab \/ MallocFails
  <2>1. pc = "scan" /\ scan < shnum /\ Header(scan).type = "SYMTAB"
    BY <1>6 DEF EnterSymtab, MallocFails, Scanning
  <2>2. Abstract!AtSymtab
    BY <1>2, <1>3, <2>1 DEF Abstract!AtSymtab
  <2>3. Abstract!EnterSymtab \/ Abstract!MallocFails
    BY <1>6, <2>1, <2>2 DEF EnterSymtab, MallocFails, Abstract!EnterSymtab, Abstract!MallocFails
  <2> QED
    BY <2>3 DEF Abstract!LoadNext
<1>7. CASE NoSymtab
  <2>1. Abstract!NoSymtab
    BY <1>2, <1>7 DEF NoSymtab, Abstract!NoSymtab
  <2> QED
    BY <2>1 DEF Abstract!LoadNext
<1>8. CASE LoadSymbol
  BY <1>8, LoadImplements DEF Abstract!LoadNext
<1>9. CASE LoadFaults
  <2> DEFINE p == Len(symb) + 1
             s == Abstract!Named(TableIn(image, table)[p])
  <2>1. /\ NamesFound /\ TableFound /\ Len(symb) \in Nat /\ scan < shnum
        /\ pc = "load" /\ Len(symb) < n_syms(Header(scan))
    BY <1>1, <1>9 DEF LoadFaults, Loading, LocalsInv, SymbInv, TableFound
  <2>2. Header(scan) = table /\ table.type = "SYMTAB" /\ n_syms(table) \in Nat /\ scan + 1 \in 1 .. shnum
    BY <1>1, <1>3, <2>1, TableFacts DEF TableFound
  <2>3. p \in 1 .. n_syms(Header(scan)) /\ EntryAt = OffsetOf(p)
    BY <2>1, <2>2 DEF EntryAt, OffsetOf
  <2>4. PICK e \in EntriesAt(OffsetOf(p)) : ReadsOutside(e)
    BY <1>9, <2>3 DEF LoadFaults
  <2>5. Abstract!ReadsOutside(s)
    BY <1>1, <2>1, <2>3, <2>4, WholeIsKept, ReadAsWhole
  <2>6. Abstract!Table = TableIn(image, table) /\ Len(Abstract!Table) = n_syms(table)
    BY <1>1, <1>3, <2>1, <2>2, TableIsListed DEF Abstract!Table
  <2>7. Abstract!Loading /\ s = Abstract!Named(Abstract!Entry)
    BY <2>1, <2>2, <2>6 DEF Abstract!Loading, Abstract!Entry
  <2> HIDE DEF s
  <2>8. Abstract!LoadFaults
    BY <1>9, <2>1, <2>5, <2>7 DEF LoadFaults, Abstract!LoadFaults
  <2> QED
    BY <2>8 DEF Abstract!LoadNext
<1>10. CASE LoadDone
  <2>1. TableFound /\ pc = "load" /\ Len(symb) = n_syms(Header(scan))
    BY <1>1, <1>10 DEF LoadDone, LocalsInv
  <2>2. Header(scan) = table /\ table.type = "SYMTAB" /\ scan + 1 \in 1 .. shnum
    BY <1>3, <2>1 DEF TableFound
  <2>3. Abstract!Table = TableIn(image, table) /\ Len(Abstract!Table) = n_syms(table)
    BY <1>1, <1>3, <2>1, <2>2, TableIsListed DEF Abstract!Table, TableFound
  <2>4. Abstract!LoadDone
    BY <1>10, <2>1, <2>2, <2>3 DEF LoadDone, Abstract!LoadDone
  <2> QED
    BY <2>4 DEF Abstract!LoadNext
<1>11. ~ReadOutside
  BY <1>1, OutsideCut, MappedFacts DEF Whole
<1>12. CASE UNCHANGED vars
  BY <1>12 DEF vars, Abstract!vars
<1> QED
  BY <1>4, <1>5, <1>6, <1>7, <1>8, <1>9, <1>10, <1>11, <1>12 DEF Next

\* A file that is whole is loaded as Listing has it: each symbol of its first
\* table once, in order, under its own name or that of its section, and nothing
\* behind the mapping is looked at.
THEOREM Refinement == Spec => LoadsAsListed
<1>1. Init => (Whole => Abstract!Init)
  <2> SUFFICES ASSUME Init
               PROVE  Abstract!Init
    OBVIOUS
  <2>1. SectionsOf(image) \in AbstractFiles
    BY DEF Init, AbstractFiles
  <2> QED
    BY <2>1 DEF Init, Abstract!Init, Abstract!Options
<1>2. IInv /\ [Next]_vars => [Whole => [Abstract!LoadNext]_(Abstract!vars)]_vars
  BY StepImplements
<1> QED
  BY <1>1, <1>2, Invariance, PTL DEF Spec, LoadsAsListed
=============================================================================
