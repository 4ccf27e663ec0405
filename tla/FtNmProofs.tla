----------------------------- MODULE FtNmProofs -----------------------------
(***************************************************************************)
(* Proofs about FtNm, for every command line, every disk and every         *)
(* MAX_FILES: what is open and mapped at each point of a run, and that a   *)
(* run lists the files in the order NmSpec promises.                       *)
(*                                                                         *)
(* The inductive invariant IInv says, for each value of pc, which files    *)
(* are held (HeldInv), which command-line words files[] stands for         *)
(* (EntriesInv), how many of them have been listed (ListedInv) and which   *)
(* file a message is about (CutInv).                                       *)
(***************************************************************************)
EXTENDS FtNm, TLAPS

\* What files[cur] and the files around it hold.
HeldInv ==
  /\ pc = "args" => cur = 1 /\ opened = {} /\ mapped = {} /\ symb = {}
  /\ pc = "open" => opened = 1 .. cur - 1 /\ mapped = 1 .. cur - 1 /\ symb = {}
  /\ pc \in {"stat", "size", "ehdr", "shdr", "symtab", "offset", "header", "print", "free"} =>
       cur <= Len(files) /\ opened = 1 .. cur
  /\ pc \in {"stat", "size"} => mapped = 1 .. cur - 1 /\ symb = {}
  /\ pc \in {"ehdr", "shdr", "symtab"} => mapped = 1 .. cur /\ symb = {}
  /\ pc \in {"offset", "header", "print", "free"} => mapped = 1 .. cur /\ symb \subseteq {cur}
  /\ pc = "unmap" => opened = cur .. Len(files) /\ mapped = cur .. Len(files) /\ symb = {}
  /\ pc = "close" =>
       cur <= Len(files) /\ opened = cur .. Len(files) /\ mapped = cur + 1 .. Len(files) /\ symb = {}
  /\ pc = "exit0" => opened = {} /\ mapped = {} /\ symb = {}
  /\ symb \subseteq mapped /\ mapped \subseteq opened

\* files[] holds the paths read so far, from left to right, each with the
\* meaning of the last flag in front of it; option is the meaning of the last
\* flag read.
EntriesInv ==
  /\ option = Promise!OptionFor(argv, arg)
  /\ \A j, k \in DOMAIN files : j < k => files[j].arg < files[k].arg
  /\ \A k \in DOMAIN files : files[k].option = Promise!OptionFor(argv, files[k].arg)
  /\ pc = "args" =>
       /\ \A k \in DOMAIN files : files[k].arg \in Promise!PathArgs(argv) /\ files[k].arg < arg
       /\ \A n \in Promise!PathArgs(argv) : n < arg => \E k \in DOMAIN files : files[k].arg = n
  /\ pc \notin {"args", "exit1"} =>
       /\ \A k \in DOMAIN files : files[k].arg \in Promise!Wanted(argv)
       /\ \A n \in Promise!Wanted(argv) : \E k \in DOMAIN files : files[k].arg = n

\* How far the listings have come.
ListedInv ==
  /\ Len(listed) <= Len(files)
  /\ \A p \in DOMAIN listed : listed[p] = files[p]
  /\ pc = "args" => listed = <<>>
  /\ pc \in {"open", "stat", "size", "ehdr", "shdr", "symtab", "offset", "header", "print"} =>
       Len(listed) = cur - 1
  /\ pc = "free" => Len(listed) = cur
  /\ pc \in {"unmap", "close", "exit0"} => Len(listed) = Len(files)

\* A message is the last thing a run prints, and tells where it stopped.  A
\* fault comes while files[cur] is read or sorted.
CutInv ==
  /\ pc # "exit1" => message = NoMessage
  /\ pc = "exit1" =>
       \/ message.text = "too many input files"
       \/ /\ cur \in DOMAIN files /\ message.arg = files[cur].arg
          /\ IF message.text \in CloseErrors THEN Len(listed) = Len(files) ELSE Len(listed) = cur - 1
  /\ pc = "fault" => cur \in DOMAIN files /\ Len(listed) = cur - 1

IInv == TypeOK /\ HeldInv /\ EntriesInv /\ ListedInv /\ CutInv

-----------------------------------------------------------------------------
\* A command line is a sequence.
LEMMA ArgvIsSeq ==
  ASSUME argv \in CommandLines
  PROVE  argv \in Seq(Args) /\ Len(argv) \in Nat /\ DOMAIN argv = 1 .. Len(argv)
<1>1. PICK n \in 0 .. MaxArgs : argv \in [1 .. n -> Args]
  BY DEF CommandLines
<1> QED
  BY <1>1, MaxArgsAssumption

\* A step that leaves the command line alone keeps EntriesInv.
LEMMA EntriesKeep ==
  ASSUME EntriesInv, pc \notin {"args", "exit1"}, pc' # "args", UNCHANGED <<argv, cmdline>>
  PROVE  EntriesInv'
  BY DEF EntriesInv, cmdline

\* A step that stops the run with a message about files[cur] keeps the invariant.
LEMMA Exit1Keeps ==
  ASSUME IInv, NEW text \in Messages, Exit1(text), pc \notin {"args", "exit0", "exit1", "fault"},
         cur \in DOMAIN files,
         IF text \in CloseErrors THEN Len(listed) = Len(files) ELSE Len(listed) = cur - 1
  PROVE  IInv'
<1>1. TypeOK'
  <2>1. File \in Entries
    BY DEF IInv, TypeOK, File
  <2>2. message' \in [arg : Nat, text : Messages]
    BY <2>1 DEF Exit1, Entries
  <2> QED
    BY <2>2 DEF IInv, TypeOK, Exit1, env, cmdline, held
<1>2. HeldInv'
  BY DEF IInv, HeldInv, Exit1, env, cmdline, held
<1>3. EntriesInv'
  BY EntriesKeep DEF IInv, Exit1, env, cmdline
<1>4. ListedInv'
  BY DEF IInv, ListedInv, Exit1, cmdline
<1>5. CutInv'
  BY DEF IInv, CutInv, Exit1, cmdline, File
<1> QED
  BY <1>1, <1>2, <1>3, <1>4, <1>5 DEF IInv

\* So does a fault over files[cur].
LEMMA FaultsKeeps ==
  ASSUME IInv, Faults, pc \in {"ehdr", "shdr", "symtab", "offset", "print"}
  PROVE  IInv'
<1>1. TypeOK'
  BY DEF IInv, TypeOK, Faults, env, cmdline, held, printed
<1>2. HeldInv'
  BY DEF IInv, HeldInv, Faults, env, cmdline, held
<1>3. EntriesInv'
  BY EntriesKeep DEF IInv, Faults, env, cmdline
<1>4. ListedInv'
  BY DEF IInv, ListedInv, Faults, cmdline, printed
<1>5. CutInv'
  <2>1. cur \in DOMAIN files /\ Len(listed) = cur - 1
    BY DEF IInv, TypeOK, HeldInv, ListedInv
  <2> QED
    BY <2>1 DEF IInv, CutInv, Faults, cmdline, printed
<1> QED
  BY <1>1, <1>2, <1>3, <1>4, <1>5 DEF IInv

-----------------------------------------------------------------------------
\* The steps that go on: those of a few actions, and those that only pass a check.
Passes(a, b) == pc = a /\ pc' = b /\ UNCHANGED <<env, gone, cmdline, cur, held, printed>>

Unmaps ==
  /\ pc = "unmap" /\ cur <= Len(files) /\ mapped' = mapped \ {cur} /\ pc' = "close"
  /\ UNCHANGED <<env, gone, cmdline, cur, opened, symb, printed>>
Closes ==
  /\ pc = "close" /\ opened' = opened \ {cur} /\ cur' = cur + 1 /\ pc' = "unmap"
  /\ UNCHANGED <<env, gone, cmdline, mapped, symb, printed>>

Moves ==
  \/ ParseFlag \/ ParsePath \/ TooMany \/ ArgsDone \/ OpenFile \/ Passes("stat", "size") \/ MapFile
  \/ Passes("ehdr", "shdr") \/ Passes("shdr", "symtab") \/ ParseSymtab \/ Passes("offset", "header")
  \/ PrintHeader \/ PrintSymbols \/ FreeSymbols \/ FilesDone \/ Unmaps \/ Closes \/ Return
  \/ Truncate \/ UNCHANGED vars

\* Every other step ends the run, and keeps the invariant.
Stops ==
  /\ pc \notin {"exit0", "exit1", "fault"} /\ pc' \in {"exit1", "fault"}
  /\ UNCHANGED <<argv, files, opened, named, listed>>

\* Every step of main keeps the invariant and goes on, or ends the program.
LEMMA StopOrMove ==
  ASSUME IInv, [Next]_vars
  PROVE  (Stops /\ IInv') \/ Moves
<1> DEFINE Reading == {"stat", "size", "ehdr", "shdr", "symtab", "offset"}
<1>1. ASSUME NEW text \in FileErrors, Exit1(text),
             pc \in Reading \/ (pc = "open" /\ cur <= Len(files))
      PROVE  Stops /\ IInv'
  <2>1. cur \in DOMAIN files /\ Len(listed) = cur - 1
    BY <1>1 DEF IInv, TypeOK, HeldInv, ListedInv
  <2>2. text \in Messages /\ text \notin CloseErrors
    BY <1>1 DEF Messages, FileErrors, CloseErrors
  <2>3. Stops
    BY <1>1 DEF Exit1, Stops, env, cmdline, held
  <2> QED
    BY <1>1, <2>1, <2>2, <2>3, Exit1Keeps
<1>2. ASSUME NEW text \in CloseErrors, Exit1(text),
             pc = "close" \/ (pc = "unmap" /\ cur <= Len(files))
      PROVE  Stops /\ IInv'
  <2>1. cur \in DOMAIN files /\ Len(listed) = Len(files)
    BY <1>2 DEF IInv, TypeOK, HeldInv, ListedInv
  <2>2. text \in Messages
    BY <1>2 DEF Messages
  <2>3. Stops
    BY <1>2 DEF Exit1, Stops, env, cmdline, held
  <2> QED
    BY <1>2, <2>1, <2>2, <2>3, Exit1Keeps
<1>3. CASE OpenFails
  BY <1>1, <1>3 DEF OpenFails, FileErrors
<1>4. CASE Stat
  BY <1>1, <1>4 DEF Stat, FileErrors, Moves, Passes
<1>5. CASE MapFails
  BY <1>1, <1>5 DEF MapFails, FileErrors
<1>6. CASE ReadFaults
  BY <1>6, FaultsKeeps DEF ReadFaults, Faults, Stops, env, cmdline, held, printed
<1>7. CASE ParseEhdr
  <2>1. EhdrError(Header) \in FileErrors \/ EhdrError(Header) = ""
    BY DEF EhdrError, FileErrors
  <2> QED
    BY <1>1, <1>7, <2>1 DEF ParseEhdr, Moves, Passes
<1>8. CASE ParseShdr
  BY <1>1, <1>8 DEF ParseShdr, FileErrors, Moves, Passes
<1>9. CASE ParseSymtabFails
  BY <1>1, <1>9 DEF ParseSymtabFails, FileErrors
<1>10. CASE ParseSymtabFaults
  BY <1>10, FaultsKeeps DEF ParseSymtabFaults, Faults, Stops, env, cmdline, held, printed
<1>11. CASE CheckOffset
  BY <1>1, <1>11 DEF CheckOffset, FileErrors, Moves, Passes
<1>12. CASE PrintFaults
  BY <1>12, FaultsKeeps DEF PrintFaults, Faults, Stops, env, cmdline, held, printed
<1>13. CASE UnmapFile
  BY <1>2, <1>13 DEF UnmapFile, CloseErrors, Moves, Unmaps
<1>14. CASE CloseFile
  BY <1>2, <1>14 DEF CloseFile, CloseErrors, Moves, Closes
<1> QED
  BY <1>3, <1>4, <1>5, <1>6, <1>7, <1>8, <1>9, <1>10, <1>11, <1>12, <1>13, <1>14
     DEF Next, Program, Moves

-----------------------------------------------------------------------------
\* Type correctness, one step per action.
LEMMA TypeStep ==
  ASSUME IInv, Moves
  PROVE  TypeOK'
<1> USE DEF IInv
<1> DEFINE Spells(fs, n) ==
      \A k \in DOMAIN fs : fs[k].arg = 0 \/ (fs[k].arg < n /\ argv[fs[k].arg] \notin Flags)
<1>0. argv \in Seq(Args) /\ Len(argv) \in Nat /\ DOMAIN argv = 1 .. Len(argv)
  BY ArgvIsSeq DEF TypeOK
<1>a. arg \in Nat /\ \A k \in DOMAIN files : files[k] \in Entries /\ files[k].arg \in Nat
  <2>1. \A k \in DOMAIN files : files[k] \in Entries
    BY DEF TypeOK
  <2>2. arg \in Nat
    BY <1>0 DEF TypeOK
  <2> QED
    BY <2>1, <2>2 DEF Entries
<1>1. CASE ParseFlag
  <2>1. Spells(files, arg')
    <3> SUFFICES ASSUME NEW k \in DOMAIN files, files[k].arg # 0
                 PROVE  files[k].arg < arg' /\ argv[files[k].arg] \notin Flags
      BY <1>1 DEF ParseFlag
    <3>1. files[k].arg < arg /\ argv[files[k].arg] \notin Flags
      BY DEF TypeOK
    <3>2. files[k].arg \in Nat /\ arg \in Nat /\ arg' = arg + 1
      BY <1>a, <1>1 DEF ParseFlag
    <3> QED
      BY <3>1, <3>2
  <2>2. arg' \in 1 .. Len(argv) + 1
    BY <1>0, <1>1 DEF ParseFlag, AtArg, TypeOK
  <2>3. option' \in {"SORT_ORDER"} \cup {Meaning[f] : f \in Flags}
    BY <1>1 DEF ParseFlag
  <2> QED
    BY <1>1, <2>1, <2>2, <2>3 DEF ParseFlag, TypeOK, env, held, printed
<1>2. CASE ParsePath
  <2>1. [arg |-> arg, option |-> option] \in Entries
    BY <1>0 DEF TypeOK, Entries
  <2>2. files' \in Seq(Entries) /\ Len(files') = Len(files) + 1
    BY <1>2, <2>1 DEF ParsePath, TypeOK
  <2>3. Spells(files', arg')
    <3> SUFFICES ASSUME NEW k \in DOMAIN files'
                 PROVE  files'[k].arg = 0 \/ (files'[k].arg < arg' /\ argv[files'[k].arg] \notin Flags)
      OBVIOUS
    <3>1. CASE k \in DOMAIN files
      <4>1. files'[k] = files[k]
        BY <1>2, <3>1 DEF ParsePath, TypeOK
      <4>2. files[k] \in Entries /\ arg \in Nat /\ arg' = arg + 1
        BY <1>a, <1>2, <3>1 DEF ParsePath
      <4>3. files[k].arg = 0 \/ (files[k].arg < arg /\ argv[files[k].arg] \notin Flags)
        BY <3>1 DEF TypeOK
      <4>4. files[k].arg \in Nat
        BY <1>a, <3>1
      <4> QED
        BY <4>1, <4>2, <4>3, <4>4
    <3>2. CASE k = Len(files) + 1
      <4>1. files'[k] = [arg |-> arg, option |-> option]
        BY <1>2, <3>2 DEF ParsePath, TypeOK
      <4>2. arg \in Nat /\ arg' = arg + 1 /\ argv[arg] \notin Flags
        BY <1>0, <1>2 DEF ParsePath, TypeOK
      <4> QED
        BY <4>1, <4>2
    <3> QED
      BY <2>2, <3>1, <3>2 DEF TypeOK
  <2>4. arg' \in 1 .. Len(argv') + 1
    BY <1>0, <1>2 DEF ParsePath, TypeOK, AtArg, env
  <2>5. Len(files') <= MaxFiles /\ cur \in 1 .. Len(files') + 1
    BY <1>2, <2>2, MaxFilesAssumption DEF ParsePath, TypeOK
  <2>6. opened \cup mapped \cup symb \subseteq DOMAIN files'
    BY <1>2, <2>2 DEF TypeOK
  <2> QED
    BY <1>2, <2>2, <2>3, <2>4, <2>5, <2>6 DEF ParsePath, TypeOK, env, held, printed
<1>3. CASE TooMany
  <2>1. message' \in [arg : Nat, text : Messages]
    BY <1>a, <1>3 DEF TooMany, Messages
  <2> QED
    BY <1>3, <2>1 DEF TooMany, TypeOK, env, cmdline, held
<1>4. CASE ArgsDone
  <2> DEFINE one == <<[arg |-> 0, option |-> option]>>
  <2>0. one \in Seq(Entries) /\ Len(one) = 1
    BY DEF TypeOK, Entries
  <2>1. files' \in Seq(Entries) /\ Len(files') <= MaxFiles /\ Len(files') >= Len(files)
    BY <1>4, <2>0, MaxFilesAssumption DEF ArgsDone, DefaultFile, TypeOK
  <2>2. Spells(files', arg')
    BY <1>4 DEF ArgsDone, DefaultFile, TypeOK
  <2> QED
    BY <1>4, <2>1, <2>2 DEF ArgsDone, TypeOK, env, held, printed
<1>5. CASE OpenFile
  BY <1>5 DEF OpenFile, TypeOK, env, cmdline, printed
<1>6. CASE MapFile
  BY <1>6 DEF MapFile, TypeOK, HeldInv, env, cmdline, printed
<1>7. CASE ParseSymtab
  BY <1>7 DEF ParseSymtab, TypeOK, HeldInv, env, cmdline, printed
<1>8. CASE PrintHeader
  <2>1. File \in Entries
    BY <1>8 DEF PrintHeader, TypeOK, HeldInv, File
  <2>2. named' \in Seq(Nat)
    BY <1>8, <2>1 DEF PrintHeader, TypeOK, Entries
  <2> QED
    BY <1>8, <2>2 DEF PrintHeader, TypeOK, env, cmdline, held
<1>9. CASE PrintSymbols
  <2>1. File \in Entries
    BY <1>9 DEF PrintSymbols, TypeOK, HeldInv, File
  <2>2. listed' \in Seq(Entries)
    BY <1>9, <2>1 DEF PrintSymbols, TypeOK, Entries
  <2> QED
    BY <1>9, <2>2 DEF PrintSymbols, TypeOK, env, cmdline, held
<1>10. CASE FreeSymbols
  BY <1>10 DEF FreeSymbols, TypeOK, HeldInv, env, cmdline, printed
<1>11. CASE FilesDone
  BY <1>11 DEF FilesDone, TypeOK, env, cmdline, held, printed
<1>12. CASE Return
  BY <1>12 DEF Return, TypeOK, env, cmdline, held, printed
<1>13. CASE Truncate
  BY <1>13 DEF Truncate, TypeOK, env, cmdline, held, printed
<1>14. CASE UNCHANGED vars
  BY <1>14 DEF vars, TypeOK
<1>15. CASE \E a, b \in {"stat", "size", "ehdr", "shdr", "symtab", "offset", "header"} : Passes(a, b)
  BY <1>15 DEF Passes, TypeOK, env, cmdline, held, printed
<1>16. CASE Unmaps
  BY <1>16 DEF Unmaps, TypeOK, env, cmdline, printed
<1>17. CASE Closes
  BY <1>17 DEF Closes, TypeOK, HeldInv, env, cmdline, printed
<1> QED
  BY <1>1, <1>2, <1>3, <1>4, <1>5, <1>6, <1>7, <1>8, <1>9, <1>10, <1>11, <1>12, <1>13, <1>14, <1>15,
     <1>16, <1>17 DEF Moves

-----------------------------------------------------------------------------
\* What is held.
LEMMA HeldStep ==
  ASSUME IInv, Moves
  PROVE  HeldInv'
<1> USE DEF IInv
<1>1. CASE ParseFlag
  BY <1>1 DEF ParseFlag, AtArg, HeldInv, held
<1>2. CASE ParsePath
  BY <1>2 DEF ParsePath, AtArg, HeldInv, held
<1>3. CASE TooMany
  BY <1>3 DEF TooMany, AtArg, HeldInv, held
<1>4. CASE ArgsDone
  BY <1>4 DEF ArgsDone, HeldInv, held
<1>5. CASE OpenFile
  BY <1>5 DEF OpenFile, TypeOK, HeldInv, cmdline
<1>6. CASE MapFile
  BY <1>6 DEF MapFile, TypeOK, HeldInv, cmdline
<1>7. CASE ParseSymtab
  BY <1>7 DEF ParseSymtab, TypeOK, HeldInv, cmdline
<1>8. CASE PrintHeader
  BY <1>8 DEF PrintHeader, HeldInv, cmdline, held
<1>9. CASE PrintSymbols
  BY <1>9 DEF PrintSymbols, HeldInv, cmdline, held
<1>10. CASE FreeSymbols
  BY <1>10 DEF FreeSymbols, TypeOK, HeldInv, cmdline
<1>11. CASE FilesDone
  <2>1. cur = Len(files) + 1 /\ Len(files) \in Nat
    BY <1>11 DEF FilesDone, TypeOK
  <2> QED
    BY <1>11, <2>1 DEF FilesDone, HeldInv, cmdline, held
<1>12. CASE Return
  <2>1. cur = Len(files) + 1 /\ Len(files) \in Nat
    BY <1>12 DEF Return, TypeOK
  <2> QED
    BY <1>12, <2>1 DEF Return, HeldInv, cmdline, held
<1>13. CASE Truncate
  BY <1>13 DEF Truncate, HeldInv, cmdline, held
<1>14. CASE UNCHANGED vars
  BY <1>14 DEF vars, HeldInv
<1>15. CASE Passes("stat", "size")
  BY <1>15 DEF Passes, HeldInv, cmdline, held
<1>16. CASE Passes("ehdr", "shdr")
  BY <1>16 DEF Passes, HeldInv, cmdline, held
<1>17. CASE Passes("shdr", "symtab")
  BY <1>17 DEF Passes, HeldInv, cmdline, held
<1>18. CASE Passes("offset", "header")
  BY <1>18 DEF Passes, HeldInv, cmdline, held
<1>19. CASE Unmaps
  BY <1>19 DEF Unmaps, TypeOK, HeldInv, cmdline
<1>20. CASE Closes
  BY <1>20 DEF Closes, TypeOK, HeldInv, cmdline
<1> QED
  BY <1>1, <1>2, <1>3, <1>4, <1>5, <1>6, <1>7, <1>8, <1>9, <1>10, <1>11, <1>12, <1>13, <1>14, <1>15,
     <1>16, <1>17, <1>18, <1>19, <1>20 DEF Moves

-----------------------------------------------------------------------------
\* How far the listings have come.
LEMMA ListedStep ==
  ASSUME IInv, Moves
  PROVE  ListedInv'
<1> USE DEF IInv
<1>1. CASE ParseFlag
  BY <1>1 DEF ParseFlag, AtArg, ListedInv, printed
<1>2. CASE ParsePath
  BY <1>2 DEF ParsePath, AtArg, TypeOK, ListedInv, printed
<1>3. CASE TooMany
  BY <1>3 DEF TooMany, AtArg, ListedInv, cmdline
<1>4. CASE ArgsDone
  <2>1. listed' = <<>> /\ cur' = 1 /\ pc' = "open"
    BY <1>4 DEF ArgsDone, HeldInv, ListedInv, printed
  <2>2. Len(files') \in Nat
    BY <1>4 DEF ArgsDone, DefaultFile, TypeOK
  <2> QED
    BY <2>1, <2>2 DEF ListedInv
<1>5. CASE OpenFile
  BY <1>5 DEF OpenFile, ListedInv, cmdline, printed
<1>6. CASE MapFile
  BY <1>6 DEF MapFile, ListedInv, cmdline, printed
<1>7. CASE ParseSymtab
  BY <1>7 DEF ParseSymtab, ListedInv, cmdline, printed
<1>8. CASE PrintHeader
  BY <1>8 DEF PrintHeader, ListedInv, cmdline
<1>9. CASE PrintSymbols
  <2>1. cur \in DOMAIN files /\ Len(listed) = cur - 1 /\ files[cur] \in Entries
    BY <1>9 DEF PrintSymbols, TypeOK, HeldInv, ListedInv
  <2>2. [arg |-> File.arg, option |-> File.option] = files[cur]
    BY <2>1 DEF File, Entries
  <2>3. listed' = Append(listed, files[cur])
    BY <1>9, <2>2 DEF PrintSymbols
  <2>4. Len(listed') = cur /\ DOMAIN listed' = 1 .. cur
    BY <2>1, <2>3 DEF TypeOK
  <2>5. \A p \in DOMAIN listed' : listed'[p] = files[p]
    BY <2>1, <2>3, <2>4 DEF TypeOK, ListedInv
  <2> QED
    BY <1>9, <2>1, <2>4, <2>5 DEF PrintSymbols, ListedInv, cmdline
<1>10. CASE FreeSymbols
  BY <1>10 DEF FreeSymbols, TypeOK, ListedInv, cmdline, printed
<1>11. CASE FilesDone
  BY <1>11 DEF FilesDone, TypeOK, ListedInv, cmdline, printed
<1>12. CASE Return
  BY <1>12 DEF Return, ListedInv, cmdline, printed
<1>13. CASE Truncate
  BY <1>13 DEF Truncate, ListedInv, cmdline, printed
<1>14. CASE UNCHANGED vars
  BY <1>14 DEF vars, ListedInv
<1>15. CASE Passes("stat", "size")
  BY <1>15 DEF Passes, ListedInv, cmdline, printed
<1>16. CASE Passes("ehdr", "shdr")
  BY <1>16 DEF Passes, ListedInv, cmdline, printed
<1>17. CASE Passes("shdr", "symtab")
  BY <1>17 DEF Passes, ListedInv, cmdline, printed
<1>18. CASE Passes("offset", "header")
  BY <1>18 DEF Passes, ListedInv, cmdline, printed
<1>19. CASE Unmaps
  BY <1>19 DEF Unmaps, ListedInv, cmdline, printed
<1>20. CASE Closes
  BY <1>20 DEF Closes, ListedInv, cmdline, printed
<1> QED
  BY <1>1, <1>2, <1>3, <1>4, <1>5, <1>6, <1>7, <1>8, <1>9, <1>10, <1>11, <1>12, <1>13, <1>14, <1>15,
     <1>16, <1>17, <1>18, <1>19, <1>20 DEF Moves

-----------------------------------------------------------------------------
\* Nothing is printed after a message.
LEMMA CutStep ==
  ASSUME IInv, Moves
  PROVE  CutInv'
<1> USE DEF IInv
<1>1. CASE TooMany
  BY <1>1 DEF TooMany, CutInv
<1>2. CASE Truncate \/ UNCHANGED vars
  BY <1>2 DEF Truncate, vars, CutInv, cmdline, printed
<1>3. ASSUME pc # "exit1", pc' \notin {"exit1", "fault"}, message' = message
      PROVE  CutInv'
  BY <1>3 DEF CutInv
<1>4. CASE ParseFlag \/ ParsePath \/ ArgsDone
  BY <1>3, <1>4 DEF ParseFlag, ParsePath, ArgsDone, AtArg, printed
<1>5. CASE OpenFile \/ MapFile \/ ParseSymtab \/ PrintHeader \/ PrintSymbols \/ FreeSymbols
  BY <1>3, <1>5 DEF OpenFile, MapFile, ParseSymtab, PrintHeader, PrintSymbols, FreeSymbols, printed
<1>6. CASE FilesDone \/ Unmaps \/ Closes \/ Return
  BY <1>3, <1>6 DEF FilesDone, Unmaps, Closes, Return, printed
<1>7. CASE Passes("stat", "size") \/ Passes("ehdr", "shdr") \/ Passes("shdr", "symtab")
             \/ Passes("offset", "header")
  BY <1>3, <1>7 DEF Passes, printed
<1> QED
  BY <1>1, <1>2, <1>4, <1>5, <1>6, <1>7 DEF Moves

-----------------------------------------------------------------------------
\* The option in force after one more word of the command line.
LEMMA FlagRead ==
  ASSUME argv \in Seq(Args), arg \in DOMAIN argv, argv[arg] \in Flags
  PROVE  Promise!OptionFor(argv, arg + 1) = Meaning[argv[arg]]
<1> DEFINE F == Promise!FlagsFor(argv, arg + 1)
<1>1. arg \in F /\ \A k \in F : k <= arg /\ k \in Nat
  BY DEF Promise!FlagsFor, Promise!Flags, Flags
<1> HIDE DEF F
<1>2. arg \in Nat
  OBVIOUS
<1>3. (CHOOSE m \in F : \A k \in F : k <= m) = arg
  BY <1>1, <1>2
<1> QED
  BY <1>1, <1>3 DEF Promise!OptionFor, Promise!LastMeaning, F

\* A path on the command line leaves the option in force as it was.
LEMMA PathRead ==
  ASSUME argv \in Seq(Args), arg \in DOMAIN argv, argv[arg] \notin Flags
  PROVE  Promise!OptionFor(argv, arg + 1) = Promise!OptionFor(argv, arg)
<1>1. Promise!FlagsFor(argv, arg + 1) = Promise!FlagsFor(argv, arg)
  BY DEF Promise!FlagsFor, Promise!Flags, Flags
<1> QED
  BY <1>1 DEF Promise!OptionFor

\* a.out comes under the last flag of all.
LEMMA AllRead ==
  ASSUME argv \in Seq(Args)
  PROVE  Promise!OptionFor(argv, Len(argv) + 1) = Promise!OptionFor(argv, 0)
<1>1. Promise!FlagsFor(argv, Len(argv) + 1) = Promise!FlagsFor(argv, 0)
  BY DEF Promise!FlagsFor
<1> QED
  BY <1>1 DEF Promise!OptionFor

\* Which words of the command line files[] stands for.
LEMMA EntriesStep ==
  ASSUME IInv, Moves
  PROVE  EntriesInv'
<1> USE DEF IInv
<1>0. argv \in Seq(Args) /\ Len(argv) \in Nat /\ DOMAIN argv = 1 .. Len(argv)
  BY ArgvIsSeq DEF TypeOK
<1>a. arg \in 1 .. Len(argv) + 1 /\ arg \in Nat
  BY <1>0 DEF TypeOK
<1>1. CASE ParseFlag
  <2>1. arg \in DOMAIN argv /\ argv[arg] \in Flags /\ argv' = argv /\ arg' = arg + 1
    BY <1>0, <1>a, <1>1 DEF ParseFlag, AtArg, env
  <2>2. option' = Promise!OptionFor(argv', arg')
    BY <1>0, <1>1, <2>1, FlagRead DEF ParseFlag
  <2>3. \A n \in Promise!PathArgs(argv) : n < arg + 1 => n < arg
    BY <1>0, <1>a, <2>1 DEF Promise!PathArgs, Promise!Flags, Flags
  <2>4. files' = files /\ pc = "args" /\ pc' = "args"
    BY <1>1 DEF ParseFlag, AtArg
  <2>5. \A k \in DOMAIN files : files[k].arg \in Promise!PathArgs(argv) /\ files[k].arg < arg + 1
    <3>1. \A k \in DOMAIN files : files[k].arg \in Promise!PathArgs(argv) /\ files[k].arg < arg
      BY <2>4 DEF EntriesInv
    <3>2. \A n \in Promise!PathArgs(argv) : n \in Nat
      BY <1>0 DEF Promise!PathArgs
    <3> QED
      BY <1>a, <3>1, <3>2
  <2>6. \A n \in Promise!PathArgs(argv) : n < arg + 1 => \E k \in DOMAIN files : files[k].arg = n
    BY <2>3, <2>4 DEF EntriesInv
  <2> QED
    BY <2>1, <2>2, <2>4, <2>5, <2>6 DEF EntriesInv
<1>2. CASE ParsePath
  <2> DEFINE new == [arg |-> arg, option |-> option]
  <2>1. /\ arg \in DOMAIN argv /\ argv[arg] \notin Flags /\ argv' = argv /\ arg' = arg + 1
        /\ option' = option /\ pc = "args" /\ pc' = "args" /\ files' = Append(files, new)
    BY <1>0, <1>a, <1>2 DEF ParsePath, AtArg, env
  <2>2. option = Promise!OptionFor(argv, arg) /\ option' = Promise!OptionFor(argv, arg + 1)
    BY <1>0, <2>1, PathRead DEF EntriesInv
  <2>3. /\ \A k \in DOMAIN files : files'[k] = files[k]
        /\ files'[Len(files) + 1] = new /\ DOMAIN files = 1 .. Len(files)
        /\ DOMAIN files' = 1 .. Len(files) + 1 /\ Len(files) \in Nat
    BY <2>1 DEF TypeOK
  <2>4. \A k \in DOMAIN files : files[k].arg \in Promise!PathArgs(argv) /\ files[k].arg < arg
    BY <2>1 DEF EntriesInv
  <2>5. arg \in Promise!PathArgs(argv)
    BY <2>1 DEF Promise!PathArgs, Promise!Flags, Flags
  <2>6. Promise!PathArgs(argv) \subseteq Nat
    BY <1>0 DEF Promise!PathArgs
  <2>7. \A j, k \in DOMAIN files' : j < k => files'[j].arg < files'[k].arg
    <3> SUFFICES ASSUME NEW j \in DOMAIN files', NEW k \in DOMAIN files', j < k
                 PROVE  files'[j].arg < files'[k].arg
      OBVIOUS
    <3>1. j \in DOMAIN files /\ files'[j].arg = files[j].arg
      BY <2>3
    <3>2. CASE k \in DOMAIN files
      BY <2>3, <3>1, <3>2 DEF EntriesInv
    <3>3. CASE k = Len(files) + 1
      BY <2>3, <2>4, <3>1, <3>3
    <3> QED
      BY <2>3, <3>2, <3>3
  <2>8. \A k \in DOMAIN files' : files'[k].option = Promise!OptionFor(argv, files'[k].arg)
    <3> SUFFICES ASSUME NEW k \in DOMAIN files'
                 PROVE  files'[k].option = Promise!OptionFor(argv, files'[k].arg)
      OBVIOUS
    <3>1. CASE k \in DOMAIN files
      BY <2>3, <3>1 DEF EntriesInv
    <3>2. CASE k = Len(files) + 1
      BY <2>2, <2>3, <3>2
    <3> QED
      BY <2>3, <3>1, <3>2
  <2>9. \A k \in DOMAIN files' : files'[k].arg \in Promise!PathArgs(argv) /\ files'[k].arg < arg + 1
    <3> SUFFICES ASSUME NEW k \in DOMAIN files'
                 PROVE  files'[k].arg \in Promise!PathArgs(argv) /\ files'[k].arg < arg + 1
      OBVIOUS
    <3>1. CASE k \in DOMAIN files
      BY <1>a, <2>3, <2>4, <2>6, <3>1
    <3>2. CASE k = Len(files) + 1
      BY <1>a, <2>3, <2>5, <3>2
    <3> QED
      BY <2>3, <3>1, <3>2
  <2>10. \A n \in Promise!PathArgs(argv) : n < arg + 1 => \E k \in DOMAIN files' : files'[k].arg = n
    <3> SUFFICES ASSUME NEW n \in Promise!PathArgs(argv), n < arg + 1
                 PROVE  \E k \in DOMAIN files' : files'[k].arg = n
      OBVIOUS
    <3>1. CASE n = arg
      BY <2>3, <3>1
    <3>2. CASE n < arg
      <4>1. PICK k \in DOMAIN files : files[k].arg = n
        BY <2>1, <3>2 DEF EntriesInv
      <4> QED
        BY <2>3, <4>1
    <3> QED
      BY <1>a, <2>6, <3>1, <3>2
  <2> QED
    BY <2>1, <2>2, <2>7, <2>8, <2>9, <2>10 DEF EntriesInv
<1>3. CASE TooMany
  BY <1>3 DEF TooMany, AtArg, EntriesInv, env, cmdline
<1>4. CASE ArgsDone
  <2>1. arg = Len(argv) + 1 /\ argv' = argv /\ arg' = arg /\ option' = option /\ pc = "args" /\ pc' = "open"
    BY <1>0, <1>a, <1>4 DEF ArgsDone, env
  <2>2. option = Promise!OptionFor(argv, 0)
    BY <1>0, <2>1, AllRead DEF EntriesInv
  <2>3. \A n \in Promise!PathArgs(argv) : n < arg
    BY <1>0, <2>1 DEF Promise!PathArgs
  <2>4. CASE files = <<>>
    <3>1. files' = <<[arg |-> 0, option |-> option]>>
      BY <1>4, <2>4 DEF ArgsDone, DefaultFile
    <3>2. DOMAIN files' = {1} /\ files'[1].arg = 0 /\ files'[1].option = option
      BY <3>1
    <3>3. Promise!PathArgs(argv) = {}
      BY <2>1, <2>3, <2>4 DEF EntriesInv
    <3>4. Promise!Wanted(argv) = {0}
      BY <3>3 DEF Promise!Wanted
    <3> QED
      BY <2>1, <2>2, <3>2, <3>4 DEF EntriesInv
  <2>5. CASE files # <<>>
    <3>1. files' = files
      BY <1>4, <2>5 DEF ArgsDone, DefaultFile
    <3>2. 1 \in DOMAIN files
      BY <2>5 DEF TypeOK
    <3>3. Promise!Wanted(argv) = Promise!PathArgs(argv)
      BY <2>1, <3>2 DEF EntriesInv, Promise!Wanted
    <3> QED
      BY <2>1, <2>3, <3>1, <3>3 DEF EntriesInv
  <2> QED
    BY <2>4, <2>5
<1>5. CASE Truncate \/ UNCHANGED vars
  BY <1>5 DEF Truncate, vars, EntriesInv, env, cmdline
<1>6. ASSUME pc \notin {"args", "exit1"}, pc' # "args", UNCHANGED <<env, cmdline>>
      PROVE  EntriesInv'
  BY <1>6, EntriesKeep DEF env
<1>7. CASE OpenFile \/ MapFile \/ ParseSymtab \/ PrintHeader \/ PrintSymbols \/ FreeSymbols
  BY <1>6, <1>7 DEF OpenFile, MapFile, ParseSymtab, PrintHeader, PrintSymbols, FreeSymbols
<1>8. CASE FilesDone \/ Unmaps \/ Closes \/ Return
  BY <1>6, <1>8 DEF FilesDone, Unmaps, Closes, Return
<1>9. CASE Passes("stat", "size") \/ Passes("ehdr", "shdr") \/ Passes("shdr", "symtab")
             \/ Passes("offset", "header")
  BY <1>6, <1>9 DEF Passes
<1> QED
  BY <1>1, <1>2, <1>3, <1>4, <1>5, <1>7, <1>8, <1>9 DEF Moves

-----------------------------------------------------------------------------
\* IInv is an invariant.
LEMMA InitOK ==
  ASSUME Init
  PROVE  IInv
<1> USE DEF Init
<1>0. argv \in Seq(Args) /\ Len(argv) \in Nat /\ DOMAIN argv = 1 .. Len(argv)
  BY ArgvIsSeq
<1>1. TypeOK
  <2>1. files \in Seq(Entries) /\ listed \in Seq(Entries) /\ named \in Seq(Nat)
        /\ Len(files) = 0 /\ DOMAIN files = {}
    OBVIOUS
  <2>2. message \in [arg : Nat, text : Messages]
    BY DEF NoMessage, Messages
  <2>3. arg \in 1 .. Len(argv) + 1 /\ cur \in 1 .. Len(files) + 1 /\ Len(files) <= MaxFiles
    BY <1>0, <2>1, MaxFilesAssumption
  <2> QED
    BY <2>1, <2>2, <2>3 DEF TypeOK
<1>2. HeldInv
  BY DEF HeldInv
<1>3. EntriesInv
  <2>1. Promise!FlagsFor(argv, 1) = {} /\ \A n \in Promise!PathArgs(argv) : ~(n < 1)
    BY <1>0 DEF Promise!FlagsFor, Promise!PathArgs
  <2> QED
    BY <2>1 DEF EntriesInv, Promise!OptionFor, Promise!LastMeaning
<1>4. ListedInv /\ CutInv
  BY DEF ListedInv, CutInv
<1> QED
  BY <1>1, <1>2, <1>3, <1>4 DEF IInv

\* Every step of main and its functions keeps the invariant.
LEMMA StepOK ==
  ASSUME IInv, [Next]_vars
  PROVE  IInv'
<1>1. CASE Moves
  BY <1>1, TypeStep, HeldStep, EntriesStep, ListedStep, CutStep DEF IInv
<1> QED
  BY <1>1, StopOrMove

\* What is read, held and listed at each point of main, for every command
\* line.
THEOREM Invariance == Spec => []IInv
<1>1. Init => IInv
  BY InitOK
<1>2. IInv /\ [Next]_vars => IInv'
  BY StepOK
<1> QED
  BY <1>1, <1>2, PTL DEF Spec

\* Type correctness: files[] never exceeds MAX_FILES, its paths are words of
\* the command line.
THEOREM TypeCorrect == Spec => []TypeOK
<1>1. IInv => TypeOK
  BY DEF IInv
<1> QED
  BY <1>1, Invariance, PTL

\* The array of symbols never outlives the mapping its names point into.
THEOREM PointersSound == Spec => []SymbolsMapped
<1>1. IInv => SymbolsMapped
  BY DEF IInv, HeldInv, SymbolsMapped
<1> QED
  BY <1>1, Invariance, PTL

\* Returning from main, everything has been released and every file listed.
THEOREM AllReleased == Spec => []NothingHeldAtReturn
<1>1. IInv => NothingHeldAtReturn
  BY DEF IInv, HeldInv, ListedInv, NothingHeldAtReturn
<1> QED
  BY <1>1, Invariance, PTL

\* The lists a run keeps are sequences, and files[] is in the order of argv.
LEMMA ListFacts ==
  ASSUME IInv
  PROVE  /\ DOMAIN files = 1 .. Len(files) /\ Len(files) \in Nat
         /\ DOMAIN listed = 1 .. Len(listed) /\ Len(listed) \in Nat /\ Len(listed) <= Len(files)
         /\ \A p \in DOMAIN listed : listed[p] = files[p]
         /\ \A j, k \in DOMAIN files :
              files[j].arg \in Nat /\ (files[j].arg < files[k].arg <=> j < k)
<1>1. files \in Seq(Entries) /\ listed \in Seq(Entries)
  BY DEF IInv, TypeOK
<1>2. \A k \in DOMAIN files : files[k] \in Entries
  BY <1>1
<1>3. \A k \in DOMAIN files : files[k].arg \in Nat
  BY <1>2 DEF Entries
<1>4. \A j, k \in DOMAIN files : files[j].arg < files[k].arg <=> j < k
  <2> SUFFICES ASSUME NEW j \in DOMAIN files, NEW k \in DOMAIN files
               PROVE  files[j].arg < files[k].arg <=> j < k
    OBVIOUS
  <2>1. j \in Nat /\ k \in Nat
    BY <1>1
  <2>2. (j < k => files[j].arg < files[k].arg) /\ (k < j => files[k].arg < files[j].arg)
    BY DEF IInv, EntriesInv
  <2> QED
    BY <1>3, <2>1, <2>2
<1> QED
  BY <1>1, <1>3, <1>4 DEF IInv, ListedInv

\* Exactly the first Len(listed) files are listed.
LEMMA ListedAreFirst ==
  ASSUME IInv, NEW k \in DOMAIN files
  PROVE  files[k].arg \in Listed <=> k <= Len(listed)
<1>1. CASE k <= Len(listed)
  BY ListFacts, <1>1 DEF Listed
<1>2. ASSUME NEW p \in DOMAIN listed, listed[p].arg = files[k].arg
      PROVE  k <= Len(listed)
  <2>1. p \in DOMAIN files /\ files[p].arg = files[k].arg
    BY ListFacts, <1>2
  <2>2. ~(p < k) /\ ~(k < p)
    BY ListFacts, <2>1
  <2> QED
    BY ListFacts, <2>1, <2>2
<1> QED
  BY <1>1, <1>2 DEF Listed

\* A message cuts the listings off exactly at the file it is about, a fault at
\* the file that is being read or sorted.
THEOREM CutExactly == Spec => []FailureCutsListing
<1>1. ASSUME IInv, pc = "exit1", message.text # "too many input files"
      PROVE  \A k \in DOMAIN files :
               files[k].arg \in Listed <=> files[k].arg < message.arg \/ message.text \in CloseErrors
  <2>1. /\ cur \in DOMAIN files /\ message.arg = files[cur].arg
        /\ IF message.text \in CloseErrors THEN Len(listed) = Len(files) ELSE Len(listed) = cur - 1
    BY <1>1 DEF IInv, CutInv
  <2> SUFFICES ASSUME NEW k \in DOMAIN files
               PROVE  k <= Len(listed) <=> k < cur \/ message.text \in CloseErrors
    BY <1>1, <2>1, ListFacts, ListedAreFirst
  <2>2. k \in Nat /\ cur \in Nat /\ k <= Len(files)
    <3>1. DOMAIN files = 1 .. Len(files) /\ Len(files) \in Nat
      BY <1>1, ListFacts
    <3>2. cur \in DOMAIN files
      BY <2>1
    <3> QED
      BY <3>1, <3>2
  <2>3. CASE message.text \in CloseErrors
    <3>1. Len(listed) = Len(files)
      BY <2>1, <2>3
    <3> QED
      BY <2>2, <2>3, <3>1
  <2>4. CASE message.text \notin CloseErrors
    <3>1. Len(listed) = cur - 1
      BY <2>1, <2>4
    <3> QED
      BY <2>2, <2>4, <3>1
  <2> QED
    BY <2>3, <2>4
<1>2. ASSUME IInv, pc = "fault", NEW k \in DOMAIN files
      PROVE  files[k].arg \in Listed <=> k < cur
  <2>1. cur \in DOMAIN files /\ Len(listed) = cur - 1
    BY <1>2 DEF IInv, CutInv
  <2>2. k \in Nat /\ cur \in Nat
    BY <1>2, <2>1, ListFacts
  <2> QED
    BY <1>2, <2>1, <2>2, ListedAreFirst
<1>3. IInv => FailureCutsListing
  BY <1>1, <1>2 DEF FailureCutsListing, IInv, CutInv
<1> QED
  BY <1>3, Invariance, PTL

-----------------------------------------------------------------------------
\* FtNm implements NmSpec.
\* The file of PrintSymbols is the next one NmSpec wants.
LEMMA NextPending ==
  ASSUME IInv, pc = "print"
  PROVE  /\ File.arg \in Promise!Pending
         /\ \A m \in Promise!Pending : File.arg <= m
         /\ File.option = Promise!OptionFor(argv, File.arg)
<1>1. cur \in DOMAIN files /\ Len(listed) = cur - 1
  BY ListFacts DEF IInv, TypeOK, HeldInv, ListedInv
<1>2. /\ \A k \in DOMAIN files : files[k].arg \in Promise!Wanted(argv)
      /\ \A n \in Promise!Wanted(argv) : \E k \in DOMAIN files : files[k].arg = n
      /\ \A k \in DOMAIN files : files[k].option = Promise!OptionFor(argv, files[k].arg)
  BY DEF IInv, EntriesInv
<1>3. \A p \in DOMAIN listed : p \in DOMAIN files /\ p < cur /\ listed[p] = files[p]
  BY <1>1, ListFacts
<1>4. \A p \in DOMAIN listed : listed[p].arg < files[cur].arg
  BY <1>1, <1>3, ListFacts
<1>5. ASSUME NEW m \in Promise!Pending
      PROVE  files[cur].arg <= m
  <2>1. PICK k \in DOMAIN files : files[k].arg = m
    BY <1>2 DEF Promise!Pending
  <2>2. ~(k < cur)
    <3> SUFFICES ASSUME k < cur PROVE FALSE
      OBVIOUS
    <3>1. k \in DOMAIN listed
      BY <1>1, ListFacts
    <3>2. listed[k].arg = m
      BY <1>3, <2>1, <3>1
    <3>3. listed[k].arg < m
      BY <3>1 DEF Promise!Pending
    <3>4. m \in Nat
      BY <2>1, ListFacts
    <3> QED
      BY <3>2, <3>3, <3>4
  <2>3. ~(files[k].arg < files[cur].arg)
    BY <1>1, <2>2, ListFacts
  <2>4. files[k].arg \in Nat /\ files[cur].arg \in Nat
    BY <1>1, ListFacts
  <2> QED
    BY <2>1, <2>3, <2>4
<1> QED
  BY <1>1, <1>2, <1>4, <1>5 DEF File, Promise!Pending

\* Every step of FtNm is one of NmSpec or leaves its variables alone.
LEMMA MoveRefines ==
  ASSUME IInv, Moves
  PROVE  [Promise!Next]_(Promise!vars)
<1> USE DEF Promise!vars
<1>1. CASE PrintSymbols
  BY <1>1, NextPending DEF PrintSymbols, Promise!Next, Promise!List, env
<1>2. CASE Return
  <2>1. Promise!Pending = {}
    <3> SUFFICES ASSUME NEW n \in Promise!Pending PROVE FALSE
      OBVIOUS
    <3>1. PICK k \in DOMAIN files : files[k].arg = n
      BY <1>2 DEF Promise!Pending, Return, IInv, EntriesInv
    <3>2. k \in DOMAIN listed /\ listed[k] = files[k]
      BY <1>2, ListFacts DEF Return, IInv, ListedInv
    <3>3. listed[k].arg < n /\ n \in Nat
      BY <3>1, <3>2, ListFacts DEF Promise!Pending
    <3> QED
      BY <3>1, <3>2, <3>3
  <2> QED
    BY <1>2, <2>1 DEF Return, Promise!Next, Promise!Succeed, env, printed
<1>3. CASE TooMany
  BY <1>3 DEF TooMany, AtArg, Promise!Next, Promise!Fail, env
<1>4. CASE ParseFlag \/ ParsePath \/ ArgsDone
  BY <1>4 DEF ParseFlag, ParsePath, ArgsDone, AtArg, env, printed
<1>5. CASE OpenFile \/ MapFile \/ ParseSymtab \/ PrintHeader \/ FreeSymbols
  BY <1>5 DEF OpenFile, MapFile, ParseSymtab, PrintHeader, FreeSymbols, env, printed
<1>6. CASE FilesDone \/ Unmaps \/ Closes
  BY <1>6 DEF FilesDone, Unmaps, Closes, env, printed
<1>7. CASE Passes("stat", "size") \/ Passes("ehdr", "shdr") \/ Passes("shdr", "symtab")
             \/ Passes("offset", "header")
  BY <1>7 DEF Passes, env, printed
<1>8. CASE Truncate \/ UNCHANGED vars
  BY <1>8 DEF Truncate, vars, env, printed
<1> QED
  BY <1>1, <1>2, <1>3, <1>4, <1>5, <1>6, <1>7, <1>8 DEF Moves

\* Where the program ends with a message, the specification of nm allows it
\* to fail.
LEMMA StopRefines ==
  ASSUME Stops
  PROVE  Promise!Fail
BY DEF Stops, Promise!Fail

\* Every run lists the files from left to right, each under the last flag in
\* front of it, and returns 0 only when all have been listed.
THEOREM ImplementsNmSpec == Spec => ListsInOrder
<1>1. Init => Promise!Init
  BY ArgvIsSeq DEF Init, Promise!Init
<1>2. IInv /\ [Next]_vars => [Promise!Next]_(Promise!vars)
  BY StopOrMove, MoveRefines, StopRefines DEF Promise!Next
<1> QED
  BY <1>1, <1>2, Invariance, PTL DEF Spec, ListsInOrder, Promise!Spec
-----------------------------------------------------------------------------
\* The names above the listings: one for each file whose turn has come, and
\* none before the command line has been read or when there is one file.
NamedInv ==
  /\ pc = "args" \/ Len(files) <= 1 => named = <<>>
  /\ pc # "args" /\ Len(files) > 1 =>
       /\ Len(named) - Len(listed) \in {0, 1}
       /\ pc = "print" => Len(named) = Len(listed) + 1
       /\ pc \notin {"print", "exit1", "fault"} => Len(named) = Len(listed)
       /\ \A p \in DOMAIN named : p \in DOMAIN files /\ named[p] = files[p].arg

\* A step that prints nothing and neither begins nor ends a listing.
LEMMA NamedKeeps ==
  ASSUME IInv, NamedInv, UNCHANGED <<files, named, listed>>, pc # "args", pc' # "args",
         pc' = pc \/ pc' \in {"exit1", "fault"} \/ (pc \notin {"print", "exit1", "fault"} /\ pc' # "print")
  PROVE  NamedInv'
BY DEF NamedInv

\* Every step keeps names and listings in turn.
LEMMA NamedStep ==
  ASSUME IInv, NamedInv, [Next]_vars
  PROVE  NamedInv'
<1>0. /\ Len(files) \in Nat /\ DOMAIN files = 1 .. Len(files) /\ Len(listed) \in Nat
      /\ named \in Seq(Nat) /\ Len(named) \in Nat /\ DOMAIN named = 1 .. Len(named)
  BY ListFacts DEF IInv, TypeOK
<1>a. pc = "args" => named = <<>> /\ Len(named) = 0 /\ listed = <<>> /\ Len(listed) = 0 /\ DOMAIN named = {}
  <2>1. Len(<<>>) = 0 /\ DOMAIN <<>> = {}
    OBVIOUS
  <2> QED
    BY <2>1 DEF NamedInv, IInv, ListedInv
<1>b. ASSUME pc = "args", pc' \in {"exit1", "fault"}, UNCHANGED <<files, named, listed>>
      PROVE  NamedInv'
  <2>1. named' = <<>> /\ Len(named') - Len(listed') = 0 /\ \A p \in DOMAIN named' : FALSE
    BY <1>a, <1>b
  <2>2. pc' = "args" \/ Len(files') <= 1 => named' = <<>>
    BY <2>1
  <2>3. Len(named') - Len(listed') \in {0, 1}
    BY <2>1
  <2>4. pc' = "print" => Len(named') = Len(listed') + 1
    BY <1>b
  <2>5. pc' \notin {"print", "exit1", "fault"} => Len(named') = Len(listed')
    BY <1>b
  <2> QED
    BY <1>b, <2>1, <2>2, <2>3, <2>4, <2>5 DEF NamedInv
<1>1. CASE Stops
  <2>1. CASE pc = "args"
    BY <1>1, <1>b, <2>1 DEF Stops
  <2>2. CASE pc # "args"
    BY <1>1, <2>2, NamedKeeps DEF Stops
  <2> QED
    BY <2>1, <2>2
<1>2. CASE ParseFlag \/ ParsePath
  BY <1>2, <1>a DEF ParseFlag, ParsePath, AtArg, NamedInv, printed
<1>3. CASE TooMany
  BY <1>3, <1>b DEF TooMany, AtArg, cmdline
<1>4. CASE ArgsDone
  BY <1>4, <1>a DEF ArgsDone, NamedInv, printed
<1>5. CASE PrintHeader
  <2>1. cur \in DOMAIN files /\ Len(listed) = cur - 1
    BY <1>0, <1>5 DEF PrintHeader, IInv, TypeOK, HeldInv, ListedInv
  <2>2. files' = files /\ listed' = listed /\ pc = "header" /\ pc' = "print"
    BY <1>5 DEF PrintHeader, cmdline
  <2>3. CASE Len(files) > 1
    <3>1. named' = Append(named, files[cur].arg) /\ Len(named) = cur - 1
      BY <1>5, <2>1, <2>2, <2>3 DEF PrintHeader, File, NamedInv
    <3>2. Len(named') = cur /\ DOMAIN named' = 1 .. cur /\ named'[cur] = files[cur].arg
          /\ \A p \in DOMAIN named : named'[p] = named[p]
      BY <1>0, <2>1, <3>1
    <3>3. \A p \in DOMAIN named' : p \in DOMAIN files /\ named'[p] = files[p].arg
      <4> SUFFICES ASSUME NEW p \in DOMAIN named'
                   PROVE  p \in DOMAIN files /\ named'[p] = files[p].arg
        OBVIOUS
      <4>1. p = cur \/ p \in DOMAIN named
        BY <1>0, <2>1, <3>1, <3>2
      <4> QED
        BY <2>1, <2>2, <2>3, <3>2, <4>1 DEF NamedInv
    <3> QED
      BY <1>0, <2>1, <2>2, <2>3, <3>2, <3>3 DEF NamedInv
  <2>4. CASE ~(Len(files) > 1)
    BY <1>0, <1>5, <2>2, <2>4 DEF PrintHeader, NamedInv
  <2> QED
    BY <2>3, <2>4
<1>6. CASE PrintSymbols
  <2>1. Len(listed') = Len(listed) + 1
    BY <1>6 DEF PrintSymbols, IInv, TypeOK
  <2>2. files' = files /\ named' = named /\ pc = "print" /\ pc' = "free"
    BY <1>6 DEF PrintSymbols, cmdline
  <2>3. ASSUME Len(files) > 1
        PROVE  Len(named') = Len(listed') /\ Len(named') - Len(listed') = 0
    <3>1. Len(named) = Len(listed) + 1
      BY <2>2, <2>3 DEF NamedInv
    <3> QED
      BY <1>0, <2>1, <2>2, <3>1
  <2>4. Len(files) > 1 => \A p \in DOMAIN named' : p \in DOMAIN files' /\ named'[p] = files'[p].arg
    BY <2>2 DEF NamedInv
  <2>5. Len(files') <= 1 => named' = <<>>
    BY <2>2 DEF NamedInv
  <2> QED
    BY <2>2, <2>3, <2>4, <2>5 DEF NamedInv
<1>7. CASE OpenFile \/ MapFile \/ ParseSymtab \/ FreeSymbols
  BY <1>7, NamedKeeps DEF OpenFile, MapFile, ParseSymtab, FreeSymbols, cmdline, printed
<1>8. CASE FilesDone \/ Unmaps \/ Closes \/ Return
  BY <1>8, NamedKeeps DEF FilesDone, Unmaps, Closes, Return, cmdline, printed
<1>9. CASE Passes("stat", "size") \/ Passes("ehdr", "shdr") \/ Passes("shdr", "symtab")
             \/ Passes("offset", "header")
  BY <1>9, NamedKeeps DEF Passes, cmdline, printed
<1>10. CASE Truncate \/ UNCHANGED vars
  BY <1>10 DEF Truncate, vars, NamedInv, cmdline, printed
<1> QED
  BY <1>1, <1>2, <1>3, <1>4, <1>5, <1>6, <1>7, <1>8, <1>9, <1>10, StopOrMove DEF Moves

\* When there are several files each listing stands under the name of its own
\* file (print_symboles), and a run that fails leaves at most one name bare.
THEOREM NamesMatch == Spec => []NamedWhenSeveral
<1>1. Init => NamedInv
  BY DEF Init, NamedInv
<1>2. IInv /\ NamedInv /\ [Next]_vars => NamedInv'
  BY NamedStep
<1>3. IInv /\ NamedInv => NamedWhenSeveral
  <2> SUFFICES ASSUME IInv, NamedInv
               PROVE  NamedWhenSeveral
    OBVIOUS
  <2>1. /\ Len(files) \in Nat /\ DOMAIN listed = 1 .. Len(listed) /\ Len(listed) \in Nat
        /\ \A p \in DOMAIN listed : listed[p] = files[p]
    BY ListFacts
  <2>2. named \in Seq(Nat)
    BY DEF IInv, TypeOK
  <2> QED
    BY <2>1, <2>2 DEF NamedInv, NamedWhenSeveral
<1> QED
  BY <1>1, <1>2, <1>3, Invariance, PTL DEF Spec

\* close_files is the only place where descriptors are given back, and it is
\* reached when every file has been listed.
THEOREM ReleasesLast == Spec => ReleasedAtTheEnd
<1> DEFINE Release == opened' \subseteq opened /\ opened' # opened => Len(listed) = Len(files)
<1>1. ASSUME IInv, [Next]_vars
      PROVE  Release
  <2>1. CASE opened' = opened
    BY <2>1
  <2>2. CASE OpenFile
    BY <2>2 DEF OpenFile
  <2>3. CASE Closes
    BY <1>1, <2>3 DEF Closes, IInv, ListedInv
  <2>4. ASSUME Moves, ~OpenFile, ~Closes
        PROVE  opened' = opened
    <3>1. CASE ParseFlag \/ ParsePath \/ TooMany \/ ArgsDone
      BY <3>1 DEF ParseFlag, ParsePath, TooMany, ArgsDone, held
    <3>2. CASE MapFile \/ ParseSymtab \/ PrintHeader \/ PrintSymbols \/ FreeSymbols
      BY <3>2 DEF MapFile, ParseSymtab, PrintHeader, PrintSymbols, FreeSymbols, held
    <3>3. CASE FilesDone \/ Unmaps \/ Return
      BY <3>3 DEF FilesDone, Unmaps, Return, held
    <3>4. CASE Passes("stat", "size") \/ Passes("ehdr", "shdr") \/ Passes("shdr", "symtab")
                 \/ Passes("offset", "header")
      BY <3>4 DEF Passes, held
    <3>5. CASE Truncate \/ UNCHANGED vars
      BY <3>5 DEF Truncate, vars, held
    <3> QED
      BY <2>4, <3>1, <3>2, <3>3, <3>4, <3>5 DEF Moves
  <2>5. CASE Stops
    BY <2>1, <2>5 DEF Stops
  <2> QED
    BY <1>1, <2>1, <2>2, <2>3, <2>4, <2>5, StopOrMove
<1>2. IInv /\ [Next]_vars => [Release]_vars
  BY <1>1
<1> QED
  BY <1>2, Invariance, PTL DEF Spec, ReleasedAtTheEnd
=============================================================================
