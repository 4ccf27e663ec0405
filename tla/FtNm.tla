-------------------------------- MODULE FtNm --------------------------------
(***************************************************************************)
(* The run of ft_nm as a whole (srcs/ft_nm.c): main reads the command      *)
(* line, manageELF takes the files one by one through open, fstat, mmap,   *)
(* the header checks, parse_symtab and print_symboles, close_files         *)
(* releases them at the very end.  Every failure ends the process.         *)
(*                                                                         *)
(* System calls and malloc may fail, and another process may empty a file  *)
(* at any time.  What a listing contains is the subject of Listing; here a *)
(* listing is one step.                                                    *)
(***************************************************************************)
EXTENDS Integers, Sequences

CONSTANTS
  Args,      \* the strings a command line is made of
  Meaning,   \* the option each flag asks for
  MaxArgs,   \* bound on the length of the command line
  MaxFiles,  \* MAX_FILES
  Paths,     \* the names of files, a.out among them
  Headers,   \* what a file may be: see HeaderType
  Disks      \* the contents of the disk, from Paths to Headers

Flags == DOMAIN Meaning

ASSUME MaxArgsAssumption == MaxArgs \in Nat
ASSUME MaxFilesAssumption == MaxFiles \in Nat \ {0}
ASSUME PathsAssumption == Args \ Flags \subseteq Paths /\ "a.out" \in Paths
ASSUME DisksAssumption == Disks \subseteq [Paths -> Headers]

\* opens: the file can be opened.  magic, class, encoding, type: the check of
\* the header succeeds.  shoff: the section header table is missing, lies
\* inside the file, begins there and runs past the mapping, lies in the zeros
\* that fill the last page, or past the mapping.  sections: e_shnum is not 0.
\* symtab: one of the sections is a symbol table.
HeaderType ==
  [opens : BOOLEAN, magic : BOOLEAN, class : BOOLEAN, encoding : BOOLEAN, type : BOOLEAN,
   shoff : {"zero", "inside", "across", "tail", "past"}, sections : BOOLEAN, symtab : BOOLEAN]
ASSUME HeadersAssumption == Headers \subseteq HeaderType

VARIABLES
  argv,    \* the command line, without the name of the program
  arg,     \* i of main
  option,  \* option of main
  files,   \* the entries of files[] in use: arg, where argv has the path, and option
  disk,    \* what the files are
  gone,    \* the files that have been emptied since the start
  pc,      \* args, the next step for files[cur], then exit0, exit1 or fault
  cur,     \* i of manageELF, then of close_files
  opened,  \* the files whose descriptor is open
  mapped,  \* the files whose data is mapped
  symb,    \* the files whose array of symbols is allocated
  named,   \* the files whose name has been printed above their listing
  listed,  \* the listings printed
  message  \* the message of an exit(1), and the file it is about

vars == <<argv, arg, option, files, disk, gone, pc, cur, opened, mapped, symb, named, listed, message>>
env == <<argv, disk>>
cmdline == <<arg, option, files>>
held == <<opened, mapped, symb>>
printed == <<named, listed, message>>

\* The messages of the calls of exit(1), shortened where they name the file.
CloseErrors == {"unmap: Failed to unmap file", "close fd: Failed to close file"}
FileErrors == {
  "open", "fstat: Failed to get file size", "fstat: can't stat file", "mmap: Failed to map file",
  "Invalid ELF header/magic number", "Invalid ELF class/arch", "Invalid ELF data encoding(LSB/MSB)",
  "Invalid ELF type", "The file has no section header table",
  "Failed to allocate memory for symbol table", "Invalid ELF section header offset"}
Messages == {"", "too many input files"} \cup FileErrors \cup CloseErrors
NoMessage == [arg |-> 0, text |-> ""]
CommandLines == UNION {[1 .. n -> Args] : n \in 0 .. MaxArgs}

Init ==
  /\ argv \in CommandLines /\ disk \in Disks /\ gone = {}
  /\ arg = 1 /\ option = "SORT_ORDER" /\ files = <<>>
  /\ pc = "args" /\ cur = 1
  /\ opened = {} /\ mapped = {} /\ symb = {}
  /\ named = <<>> /\ listed = <<>> /\ message = NoMessage

\* Another process empties a file.
Truncate ==
  /\ \E p \in Paths \ gone : gone' = gone \cup {p}
  /\ UNCHANGED <<env, cmdline, pc, cur, held, printed>>

Path(f) == IF f.arg = 0 THEN "a.out" ELSE argv[f.arg]
File == files[cur]
Header == disk[Path(File)]
Emptied == Path(File) \in gone

Exit1(text) ==
  /\ pc' = "exit1" /\ message' = [arg |-> File.arg, text |-> text]
  /\ UNCHANGED <<env, gone, cmdline, cur, held, named, listed>>
Faults == pc' = "fault" /\ UNCHANGED <<env, gone, cmdline, cur, held, printed>>

-----------------------------------------------------------------------------
\* main

AtArg == pc = "args" /\ arg <= Len(argv)

ParseFlag ==
  /\ AtArg /\ argv[arg] \in Flags
  /\ option' = Meaning[argv[arg]]
  /\ arg' = arg + 1
  /\ UNCHANGED <<env, gone, files, pc, cur, held, printed>>

\* Mutant: one file too many.
ParsePathOneMore ==
  /\ AtArg /\ argv[arg] \notin Flags /\ Len(files) <= MaxFiles
  /\ files' = Append(files, [arg |-> arg, option |-> option])
  /\ arg' = arg + 1
  /\ UNCHANGED <<env, gone, option, pc, cur, held, printed>>

ParsePath ==
  /\ AtArg /\ argv[arg] \notin Flags /\ Len(files) < MaxFiles
  /\ files' = Append(files, [arg |-> arg, option |-> option])
  /\ arg' = arg + 1
  /\ UNCHANGED <<env, gone, option, pc, cur, held, printed>>

\* "too many input files".
TooMany ==
  /\ AtArg /\ argv[arg] \notin Flags /\ Len(files) >= MaxFiles
  /\ pc' = "exit1"
  /\ message' = [arg |-> arg, text |-> "too many input files"]
  /\ UNCHANGED <<env, gone, cmdline, cur, held, named, listed>>

\* Mutant: a.out comes under the default option.
DefaultFilePlain == IF files = <<>> THEN <<[arg |-> 0, option |-> "SORT_ORDER"]>> ELSE files
DefaultFile == IF files = <<>> THEN <<[arg |-> 0, option |-> option]>> ELSE files

ArgsDone ==
  /\ pc = "args" /\ arg > Len(argv)
  /\ files' = DefaultFile
  /\ pc' = "open"
  /\ UNCHANGED <<env, gone, arg, option, cur, held, printed>>

-----------------------------------------------------------------------------
\* manageELF, on files[cur]

OpenFile ==
  /\ pc = "open" /\ cur <= Len(files) /\ Header.opens
  /\ opened' = opened \cup {cur}
  /\ pc' = "stat"
  /\ UNCHANGED <<env, gone, cmdline, cur, mapped, symb, printed>>

\* Mutant: the next file gets its turn.
OpenFailsGoesOn ==
  /\ pc = "open" /\ cur <= Len(files)
  /\ message' = [arg |-> File.arg, text |-> "open"]
  /\ cur' = cur + 1
  /\ UNCHANGED <<env, gone, cmdline, pc, held, named, listed>>

\* "can't open file", or "Allowed options are" for a path that starts with a dash.
OpenFails ==
  /\ pc = "open" /\ cur <= Len(files)
  /\ Exit1("open")

\* The first fstat, whose result the second one overwrites.
Stat ==
  /\ pc = "stat"
  /\ \/ pc' = "size" /\ UNCHANGED <<env, gone, cmdline, cur, held, printed>>
     \/ Exit1("fstat: Failed to get file size")

\* get_data_and_size: fstat and mmap.  Nothing of length 0 can be mapped.
MapFile ==
  /\ pc = "size" /\ ~Emptied
  /\ mapped' = mapped \cup {cur}
  /\ pc' = "ehdr"
  /\ UNCHANGED <<env, gone, cmdline, cur, opened, symb, printed>>

MapFails ==
  /\ pc = "size"
  /\ \/ Exit1("fstat: can't stat file")
     \/ Exit1("mmap: Failed to map file")

\* Reading the pages of a file that has been emptied.
ReadFaults ==
  /\ pc \in {"ehdr", "shdr", "symtab", "offset"} \/ (pc = "print" /\ cur \in symb)
  /\ Emptied
  /\ Faults

\* parse_ehdr: the first check that fails, "" when none does.
EhdrError(h) ==
  IF ~h.magic THEN "Invalid ELF header/magic number"
  ELSE IF ~h.class THEN "Invalid ELF class/arch"
  ELSE IF ~h.encoding THEN "Invalid ELF data encoding(LSB/MSB)"
  ELSE IF ~h.type THEN "Invalid ELF type"
  ELSE IF h.shoff = "zero" THEN "The file has no section header table"
  ELSE ""

ParseEhdr ==
  /\ pc = "ehdr" /\ ~Emptied
  /\ IF EhdrError(Header) # "" THEN Exit1(EhdrError(Header))
     ELSE pc' = "shdr" /\ UNCHANGED <<env, gone, cmdline, cur, held, printed>>

ParseShdr ==
  /\ pc = "shdr" /\ ~Emptied
  /\ IF ~Header.sections THEN Exit1("The file has no section header table")
     ELSE pc' = "symtab" /\ UNCHANGED <<env, gone, cmdline, cur, held, printed>>

\* parse_symtab32 and parse_symtab64.  In the zeros that fill the last page no
\* section is a symbol table; past the mapping there may be anything.
FindsTable ==
  CASE Header.shoff = "inside" -> {Header.symtab}
    [] Header.shoff = "tail"   -> {FALSE}
    [] OTHER                   -> BOOLEAN

\* Mutant: the data is not needed once the symbols are loaded.
ParseSymtabUnmaps ==
  /\ pc = "symtab" /\ ~Emptied
  /\ \E found \in FindsTable : symb' = IF found THEN symb \cup {cur} ELSE symb
  /\ mapped' = mapped \ {cur}
  /\ pc' = "offset"
  /\ UNCHANGED <<env, gone, cmdline, cur, opened, printed>>

ParseSymtab ==
  /\ pc = "symtab" /\ ~Emptied
  /\ \E found \in FindsTable : symb' = IF found THEN symb \cup {cur} ELSE symb
  /\ pc' = "offset"
  /\ UNCHANGED <<env, gone, cmdline, cur, opened, mapped, printed>>

\* "Failed to allocate memory for symbol table".
ParseSymtabFails ==
  /\ pc = "symtab" /\ ~Emptied /\ TRUE \in FindsTable
  /\ Exit1("Failed to allocate memory for symbol table")

\* The section header table is read from behind the mapping, or the section of
\* an index the program does not know.
ParseSymtabFaults ==
  /\ pc = "symtab" /\ ~Emptied
  /\ Header.shoff \in {"across", "past"} \/ (Header.shoff = "inside" /\ Header.symtab)
  /\ Faults

\* e_shoff against st_size, after the table has been used.
CheckOffset ==
  /\ pc = "offset" /\ ~Emptied
  /\ IF Header.shoff \in {"tail", "past"} THEN Exit1("Invalid ELF section header offset")
     ELSE pc' = "header" /\ UNCHANGED <<env, gone, cmdline, cur, held, printed>>

\* Mutant: no name above the first listing.
PrintHeaderBetween ==
  /\ pc = "header"
  /\ named' = IF cur > 1 THEN Append(named, File.arg) ELSE named
  /\ pc' = "print"
  /\ UNCHANGED <<env, gone, cmdline, cur, held, listed, message>>

\* print_symboles names the file when there are several.
PrintHeader ==
  /\ pc = "header"
  /\ named' = IF Len(files) > 1 THEN Append(named, File.arg) ELSE named
  /\ pc' = "print"
  /\ UNCHANGED <<env, gone, cmdline, cur, held, listed, message>>

\* A table of one symbol may be listed without a look at its name.
PrintSymbols ==
  /\ pc = "print"
  /\ listed' = Append(listed, [arg |-> File.arg, option |-> File.option])
  /\ pc' = "free"
  /\ UNCHANGED <<env, gone, cmdline, cur, held, named, message>>

\* A malloc of mergeSort fails.
PrintFaults ==
  /\ pc = "print" /\ cur \in symb
  /\ Faults

\* Mutants: the file is closed once it is listed; the array of symbols is kept.
FreeSymbolsCloses ==
  /\ pc = "free"
  /\ symb' = symb \ {cur} /\ opened' = opened \ {cur}
  /\ cur' = cur + 1 /\ pc' = "open"
  /\ UNCHANGED <<env, gone, cmdline, mapped, printed>>

FreeSymbolsNot ==
  /\ pc = "free"
  /\ cur' = cur + 1 /\ pc' = "open"
  /\ UNCHANGED <<env, gone, cmdline, held, printed>>

FreeSymbols ==
  /\ pc = "free"
  /\ symb' = symb \ {cur}
  /\ cur' = cur + 1 /\ pc' = "open"
  /\ UNCHANGED <<env, gone, cmdline, opened, mapped, printed>>

FilesDone ==
  /\ pc = "open" /\ cur > Len(files)
  /\ cur' = 1 /\ pc' = "unmap"
  /\ UNCHANGED <<env, gone, cmdline, held, printed>>

-----------------------------------------------------------------------------
\* close_files

UnmapFile ==
  /\ pc = "unmap" /\ cur <= Len(files)
  /\ \/ /\ mapped' = mapped \ {cur} /\ pc' = "close"
        /\ UNCHANGED <<env, gone, cmdline, cur, opened, symb, printed>>
     \/ Exit1("unmap: Failed to unmap file")

\* Mutant: the loop does not advance.
CloseFileStays ==
  /\ pc = "close"
  /\ opened' = opened \ {cur} /\ pc' = "unmap"
  /\ UNCHANGED <<env, gone, cmdline, cur, mapped, symb, printed>>

CloseFile ==
  /\ pc = "close"
  /\ \/ /\ opened' = opened \ {cur} /\ cur' = cur + 1 /\ pc' = "unmap"
        /\ UNCHANGED <<env, gone, cmdline, mapped, symb, printed>>
     \/ Exit1("close fd: Failed to close file")

Return ==
  /\ pc = "unmap" /\ cur > Len(files)
  /\ pc' = "exit0"
  /\ UNCHANGED <<env, gone, cmdline, cur, held, printed>>

Ended == pc \in {"exit0", "exit1", "fault"}

Program ==
  \/ ParseFlag \/ ParsePath \/ TooMany \/ ArgsDone
  \/ OpenFile \/ OpenFails \/ Stat \/ MapFile \/ MapFails \/ ReadFaults
  \/ ParseEhdr \/ ParseShdr \/ ParseSymtab \/ ParseSymtabFails \/ ParseSymtabFaults
  \/ CheckOffset \/ PrintHeader \/ PrintSymbols \/ PrintFaults \/ FreeSymbols \/ FilesDone
  \/ UnmapFile \/ CloseFile \/ Return

Next == Program \/ (Truncate /\ ~Ended) \/ (Ended /\ UNCHANGED vars)

\* One thread runs and no system call waits for ever; nobody has to empty files.
Spec == Init /\ [][Next]_vars /\ WF_vars(Program)
-----------------------------------------------------------------------------
Listed == {listed[p].arg : p \in DOMAIN listed}

Entries == [arg : Nat, option : {"SORT_ORDER"} \cup {Meaning[f] : f \in Flags}]

\* Types: files[] keeps within MAX_FILES, and its paths are words of the
\* command line already read that are no flags.
TypeOK ==
  /\ argv \in CommandLines /\ disk \in Disks /\ gone \subseteq Paths
  /\ arg \in 1 .. Len(argv) + 1
  /\ option \in {"SORT_ORDER"} \cup {Meaning[f] : f \in Flags}
  /\ files \in Seq(Entries) /\ Len(files) <= MaxFiles
  /\ \A k \in DOMAIN files : LET n == files[k].arg IN n = 0 \/ (n < arg /\ argv[n] \notin Flags)
  /\ pc \in {"args", "open", "stat", "size", "ehdr", "shdr", "symtab", "offset", "header", "print",
             "free", "unmap", "close", "exit0", "exit1", "fault"}
  /\ cur \in 1 .. Len(files) + 1
  /\ opened \cup mapped \cup symb \subseteq DOMAIN files
  /\ named \in Seq(Nat) /\ listed \in Seq(Entries) /\ message \in [arg : Nat, text : Messages]

\* An array of symbols holds pointers into the data of its file: it is never
\* there without the mapping, nor the mapping without the descriptor.
SymbolsMapped == symb \subseteq mapped /\ mapped \subseteq opened

\* A run that returns from main has given back everything, and has listed
\* every file.
NothingHeldAtReturn ==
  pc = "exit0" =>
    opened = {} /\ mapped = {} /\ symb = {} /\ Len(listed) = Len(files)

\* A run that stops early has listed in full the files in front of the one it
\* stopped at, and no other: neither a message nor a fault (a read behind the
\* mapping, a page of a file emptied meanwhile, a malloc of mergeSort) costs a
\* file its listing once main has gone on to the next.  When closing fails all
\* have been listed.
FailureCutsListing ==
  /\ message # NoMessage /\ message.text # "too many input files" =>
       \A k \in DOMAIN files :
         files[k].arg \in Listed <=> files[k].arg < message.arg \/ message.text \in CloseErrors
  /\ pc = "fault" => \A k \in DOMAIN files : files[k].arg \in Listed <=> k < cur

\* When there are several files each listing stands under its own name, and at
\* the end at most one name has no listing.
NamedWhenSeveral ==
  IF Len(files) > 1 /\ pc # "args"
    THEN /\ Len(named) - Len(listed) \in {0, 1}
         /\ \A p \in DOMAIN listed : named[p] = listed[p].arg
    ELSE named = <<>>

\* A file is released only when all have been listed: what one file needs is
\* never taken away on behalf of another.
ReleasedAtTheEnd ==
  [][opened' \subseteq opened /\ opened' # opened => Len(listed) = Len(files)]_vars

\* The run implements what NmSpec promises.
Promise == INSTANCE NmSpec WITH
  status <- CASE pc = "exit0" -> "ok" [] pc \in {"exit1", "fault"} -> "failed" [] OTHER -> "running"
ListsInOrder == Promise!Spec

\* Whatever the files are, the run ends.
Terminates == <>Ended

\* ft_nm.c 158: the message is for a "section header table [that] goes past the
\* end of the file".  A file whose table begins behind the mapping gets it: the
\* table is not read there first.
TablePastEndReported ==
  \A k \in DOMAIN files :
    disk[Path(files[k])].shoff = "past" => ~(pc = "fault" /\ cur = k /\ Path(files[k]) \notin gone)
=============================================================================
