-------------------------- MODULE GetNextLineProofs -------------------------
(***************************************************************************)
(* Proofs about GetNextLine, for all texts, descriptors and sizes of       *)
(* buffer and table: when memory is misused, which lines may hold line     *)
(* feeds, that lines are pieces of the file in order, and that without a   *)
(* failure nothing is lost.                                                *)
(*                                                                         *)
(* The inductive invariant IInv adds to the types what a call knows about  *)
(* its rest (CallInv), where freed pointers stay (FreedInv), and that a    *)
(* line handed out at the end of the file leaves nothing behind (EndInv).  *)
(* PlaceInv and OpenInv say where in the file lines and rest are, WholeInv *)
(* and EndedInv that they are all of it.                                   *)
(***************************************************************************)
EXTENDS GetNextLine, TLAPS, NumberInduction, SequenceTheorems

AnyChar == Chars \cup {LF, NUL}

\* manage_lines is reached with a line feed in the rest, without a rest, or
\* after a failed read.
CallInv ==
  /\ pc \in {"read", "manage"} => cur <= TableSize
  /\ pc = "manage" /\ LineFeed(rest[cur].text) = 0 /\ rest[cur].text # <<>> =>
       failures > 0 /\ ~clean[cur]
  /\ pc = "undefined" => cur = TableSize \/ failures > 0

FreedInv == \A fd \in Fds : rest[fd].at = "freed" => failures > 0 /\ ~clean[fd]

EndInv ==
  \A fd \in Fds : clean[fd] =>
    \A n \in DOMAIN lines[fd] :
      \/ lines[fd][n].how = "feed" /\ LineFeed(lines[fd][n].line) = 0
      \/ /\ lines[fd][n].how = "end" /\ n = Len(lines[fd])
         /\ off[fd] = Len(file[fd]) /\ rest[fd].text = <<>>

IInv == TypeOK /\ CallInv /\ FreedInv /\ EndInv

-----------------------------------------------------------------------------
\* Texts

\* LineFeed finds the first line feed of a text.
LEMMA FeedFacts ==
  ASSUME NEW t \in Seq(Plain)
  PROVE  /\ LineFeed(t) = 0 <=> \A k \in 1 .. Len(t) : t[k] # LF
         /\ LineFeed(t) # 0 => /\ LineFeed(t) \in 1 .. Len(t)
                               /\ t[LineFeed(t)] = LF
                               /\ \A m \in 1 .. LineFeed(t) - 1 : t[m] # LF
<1> DEFINE feeds == {k \in DOMAIN t : t[k] = LF}
<1>1. CASE feeds = {}
  BY <1>1 DEF LineFeed
<1>2. CASE feeds # {}
  <2>0. feeds \in SUBSET Nat
    OBVIOUS
  <2>1. \E k \in feeds : \A m \in feeds : k <= m
    BY <1>2, <2>0, LeastNumber
  <2> DEFINE first == CHOOSE k \in feeds : \A m \in feeds : k <= m
  <2>2. first \in feeds /\ \A m \in feeds : first <= m
    BY <2>1
  <2>3. LineFeed(t) = first
    BY <1>2 DEF LineFeed
  <2> QED
    BY <2>2, <2>3
<1> QED
  BY <1>1, <1>2

\* What ft_strjoin makes of a rest and a buffer has no zero byte.
LEMMA JoinedType ==
  ASSUME NEW t \in Seq(Plain), NEW buffer \in Seq(AnyChar)
  PROVE  Joined(t, buffer) \in Seq(Plain)
<1> DEFINE zeros == {k \in DOMAIN buffer : buffer[k] = NUL}
<1>1. CASE zeros = {}
  <2>1. \A k \in 1 .. Len(buffer) : buffer[k] \in Plain
    BY <1>1 DEF AnyChar, Plain
  <2>2. buffer \in Seq(Plain)
    BY <2>1
  <2> QED
    BY <1>1, <2>2 DEF Joined
<1>2. CASE zeros # {}
  <2> DEFINE first == CHOOSE k \in zeros : \A m \in zeros : k <= m
  <2>0. zeros \in SUBSET Nat
    OBVIOUS
  <2>1. \E k \in zeros : \A m \in zeros : k <= m
    BY <1>2, <2>0, LeastNumber
  <2>2. first \in zeros /\ \A m \in zeros : first <= m
    BY <2>1
  <2>3. first - 1 \in 0 .. Len(buffer) /\ \A k \in 1 .. first - 1 : buffer[k] \in Plain
    BY <2>2 DEF AnyChar, Plain
  <2> HIDE DEF first
  <2>4. SubSeq(buffer, 1, first - 1) \in Seq(Plain)
    BY <2>3
  <2> QED
    BY <1>2, <2>4 DEF Joined, first
<1> QED
  BY <1>1, <1>2

\* The text in front of the first line feed has none; what is behind it, and
\* what read puts into the buffer, are texts.
LEMMA CutFacts ==
  ASSUME NEW t \in Seq(Plain), LineFeed(t) # 0
  PROVE  /\ SubSeq(t, 1, LineFeed(t) - 1) \in Seq(Plain)
         /\ LineFeed(SubSeq(t, 1, LineFeed(t) - 1)) = 0
         /\ AfterFeed(t, LineFeed(t)) \in Seq(Plain)
<1> DEFINE k == LineFeed(t)
           line == SubSeq(t, 1, k - 1)
<1>1. k \in 1 .. Len(t) /\ \A m \in 1 .. k - 1 : t[m] # LF
  BY FeedFacts
<1> HIDE DEF k
<1>2. line \in Seq(Plain) /\ Len(line) = k - 1 /\ \A m \in 1 .. k - 1 : line[m] = t[m]
  BY <1>1
<1>3. LineFeed(line) = 0
  BY <1>1, <1>2, FeedFacts
<1>4. AfterFeed(t, k) \in Seq(Plain)
  BY <1>1 DEF AfterFeed
<1> QED
  BY <1>2, <1>3, <1>4 DEF k

\* The text of a file is a sequence of characters.
LEMMA FileText ==
  ASSUME TypeOK, NEW fd \in Fds
  PROVE  file[fd] \in Seq(AnyChar)
<1>1. file[fd] \in Texts \/ file[fd] = <<>>
  BY DEF TypeOK
<1>2. <<>> \in Seq(AnyChar)
  OBVIOUS
<1> QED
  BY <1>1, <1>2, TextsAssumption, Zenon DEF AnyChar

\* So is what one read takes from it.
LEMMA ChunkType ==
  ASSUME NEW t \in Seq(AnyChar), NEW m \in Nat, NEW n \in Nat, m + n <= Len(t)
  PROVE  SubSeq(t, m + 1, m + n) \in Seq(AnyChar)
  OBVIOUS

-----------------------------------------------------------------------------
\* The invariant holds at the start and is kept by the caller's steps

\* Before the first call the invariant holds.
LEMMA InitInv == Init => IInv
<1> SUFFICES ASSUME Init PROVE IInv
  OBVIOUS
<1>1. cur \in Fds
  BY FdsAssumption DEF Init
<1>2. TypeOK
  BY <1>1, SizesAssumption DEF Init, TypeOK, NoText
<1>3. CallInv /\ FreedInv /\ EndInv
  BY DEF Init, CallInv, FreedInv, EndInv, NoText
<1> QED
  BY <1>2, <1>3 DEF IInv

\* What a caller does with a descriptor keeps it.
LEMMA CallerInv ==
  ASSUME IInv, NEW fd \in Fds,
         OpenFile(fd) \/ CloseFile(fd) \/ Call(fd) \/ CallRefused(fd) \/ CheckFails(fd)
  PROVE  IInv'
<1> USE DEF IInv
<1>1. CASE OpenFile(fd)
  <2>1. TypeOK'
    BY <1>1, SizesAssumption, SMTT(30) DEF OpenFile, TypeOK
  <2>2. CallInv' /\ FreedInv'
    BY <1>1 DEF OpenFile, TypeOK, CallInv, FreedInv, NoText
  <2>3. EndInv'
    BY <1>1 DEF OpenFile, TypeOK, EndInv
  <2> QED
    BY <2>1, <2>2, <2>3
<1>2. CASE CloseFile(fd)
  BY <1>2 DEF CloseFile, TypeOK, CallInv, FreedInv, EndInv
<1>3. CASE Call(fd)
  <2>1. fd <= TableSize
    BY <1>3, FdsAssumption DEF Call, Refused
  <2>2. TypeOK'
    BY <1>3 DEF Call, caller, TypeOK
  <2>3. CallInv'
    BY <1>3, <2>1 DEF Call, CallInv
  <2>4. FreedInv' /\ EndInv'
    BY <1>3 DEF Call, caller, FreedInv, EndInv
  <2> QED
    BY <2>2, <2>3, <2>4
<1>4. CASE CallRefused(fd)
  BY <1>4 DEF CallRefused, TypeOK, CallInv, FreedInv, EndInv
<1>5. CASE CheckFails(fd)
  BY <1>5, SizesAssumption, SMTT(30) DEF CheckFails, TypeOK, CallInv, FreedInv, EndInv
<1> QED
  BY <1>1, <1>2, <1>3, <1>4, <1>5

-----------------------------------------------------------------------------
\* The steps of a call

\* A read that is joined to the rest keeps it.
LEMMA ReadSomeInv == IInv /\ ReadSome => IInv'
<1> SUFFICES ASSUME IInv, ReadSome PROVE IInv'
  OBVIOUS
<1> USE DEF IInv
<1>1. PICK n \in 1 .. BUFF_SIZE :
        /\ off[cur] + n <= Len(file[cur])
        /\ LET new == Joined(rest[cur].text, SubSeq(file[cur], off[cur] + 1, off[cur] + n))
           IN /\ rest' = [rest EXCEPT ![cur] = Pointing(new)]
              /\ pc' = IF LineFeed(new) # 0 THEN "manage" ELSE "read"
        /\ off' = [off EXCEPT ![cur] = @ + n]
  BY DEF ReadSome
<1>2. n \in Nat \ {0} /\ cur \in Fds /\ off[cur] \in Nat /\ rest[cur].text \in Seq(Plain)
  BY SizesAssumption DEF TypeOK
<1> DEFINE new == Joined(rest[cur].text, SubSeq(file[cur], off[cur] + 1, off[cur] + n))
<1>3. new \in Seq(Plain)
  BY <1>1, <1>2, FileText, ChunkType, JoinedType
<1>4. /\ rest' = [rest EXCEPT ![cur] = Pointing(new)]
      /\ pc' = IF LineFeed(new) # 0 THEN "manage" ELSE "read"
  BY <1>1
<1> HIDE DEF new
<1>5. TypeOK'
  BY <1>1, <1>2, <1>3, <1>4 DEF ReadSome, caller, TypeOK, Pointing
<1>6. CallInv' /\ FreedInv'
  BY <1>2, <1>4 DEF ReadSome, caller, TypeOK, CallInv, FreedInv, Pointing
<1>7. EndInv'
  BY <1>1, <1>2, <1>4, SMTT(60) DEF ReadSome, caller, TypeOK, EndInv
<1> QED
  BY <1>5, <1>6, <1>7

\* Handing out a line appends it to the lines of the file that is read, and
\* to no other.
LEMMA HandType ==
  ASSUME TypeOK, NEW line \in Seq(Plain), NEW how \in {"feed", "end", "part", "lost"}, Hand(line, how)
  PROVE  /\ lines' \in [Fds -> Seq(Handed)]
         /\ \A fd \in Fds \ {cur} : lines'[fd] = lines[fd]
         /\ Len(lines'[cur]) = Len(lines[cur]) + 1
         /\ \A n \in 1 .. Len(lines[cur]) : lines'[cur][n] = lines[cur][n]
         /\ lines'[cur][Len(lines[cur]) + 1] = [line |-> line, how |-> how]
<1> DEFINE entry == [line |-> line, how |-> how]
<1>1. entry \in Handed /\ cur \in Fds /\ lines[cur] \in Seq(Handed)
  BY DEF Handed, TypeOK
<1>2. lines' = [lines EXCEPT ![cur] = Append(lines[cur], entry)]
  BY DEF Hand
<1> HIDE DEF entry
<1>3. /\ Append(lines[cur], entry) \in Seq(Handed)
      /\ Len(Append(lines[cur], entry)) = Len(lines[cur]) + 1
      /\ \A n \in 1 .. Len(lines[cur]) : Append(lines[cur], entry)[n] = lines[cur][n]
      /\ Append(lines[cur], entry)[Len(lines[cur]) + 1] = entry
  BY <1>1
<1>4. lines \in [Fds -> Seq(Handed)]
  BY DEF TypeOK
<1>5. lines'[cur] = Append(lines[cur], entry) /\ \A fd \in Fds \ {cur} : lines'[fd] = lines[fd]
  BY <1>1, <1>2, <1>4
<1>6. lines' \in [Fds -> Seq(Handed)]
  BY <1>1, <1>2, <1>3, <1>4
<1> QED
  BY <1>3, <1>5, <1>6 DEF entry

\* A call that hands out a line at the end of the file, or up to a line feed,
\* has handed out none at the end of the file before.
LEMMA NotEnded ==
  ASSUME IInv, clean[cur], rest[cur].text # <<>>
  PROVE  \A n \in 1 .. Len(lines[cur]) :
           lines[cur][n].how = "feed" /\ LineFeed(lines[cur][n].line) = 0
<1>1. cur \in Fds /\ DOMAIN lines[cur] = 1 .. Len(lines[cur])
  BY DEF IInv, TypeOK
<1> QED
  BY <1>1 DEF IInv, EndInv

\* Handing out the rest at the end of the file keeps the invariant.
LEMMA EndWithRestInv == IInv /\ EndWithRest => IInv'
<1> SUFFICES ASSUME IInv, EndWithRest PROVE IInv'
  OBVIOUS
<1>1. /\ TypeOK /\ cur \in Fds /\ rest[cur].text \in Seq(Plain)
      /\ off[cur] = Len(file[cur]) /\ rest[cur].text # <<>>
  BY DEF IInv, TypeOK, EndWithRest, AtEnd
<1>2. Hand(rest[cur].text, "end")
  BY DEF EndWithRest
<1> DEFINE len == Len(lines[cur])
<1>3. /\ lines' \in [Fds -> Seq(Handed)]
      /\ \A fd \in Fds \ {cur} : lines'[fd] = lines[fd]
      /\ Len(lines'[cur]) = len + 1
      /\ \A n \in 1 .. len : lines'[cur][n] = lines[cur][n]
      /\ lines'[cur][len + 1] = [line |-> rest[cur].text, how |-> "end"]
  BY <1>1, <1>2, HandType
<1>4. TypeOK'
  BY <1>1, <1>3 DEF EndWithRest, caller, TypeOK, NoText
<1>5. CallInv' /\ FreedInv'
  BY <1>1 DEF IInv, EndWithRest, caller, TypeOK, CallInv, FreedInv, NoText
<1>6. EndInv'
  <2> SUFFICES ASSUME NEW fd \in Fds, clean[fd], NEW n \in DOMAIN lines'[fd]
               PROVE  \/ lines'[fd][n].how = "feed" /\ LineFeed(lines'[fd][n].line) = 0
                      \/ /\ lines'[fd][n].how = "end" /\ n = Len(lines'[fd])
                         /\ off[fd] = Len(file[fd]) /\ rest'[fd].text = <<>>
    BY DEF EndInv, EndWithRest, caller
  <2>1. CASE fd # cur
    BY <1>1, <1>3, <2>1 DEF IInv, EndInv, TypeOK, EndWithRest
  <2>2. CASE fd = cur
    <3>1. rest'[cur].text = <<>>
      BY <1>1 DEF EndWithRest, NoText, TypeOK
    <3>2. n \in 1 .. len \/ n = len + 1
      BY <1>1, <1>3, <2>2 DEF TypeOK
    <3> QED
      BY <1>1, <1>3, <2>2, <3>1, <3>2, NotEnded
  <2> QED
    BY <2>1, <2>2
<1> QED
  BY <1>4, <1>5, <1>6 DEF IInv

\* Handing out a line and keeping what follows its feed as the rest keeps it.
LEMMA CutLineInv == IInv /\ CutLine => IInv'
<1> SUFFICES ASSUME IInv, CutLine PROVE IInv'
  OBVIOUS
<1> DEFINE t == rest[cur].text
           line == SubSeq(t, 1, LineFeed(t) - 1)
           left == AfterFeed(t, LineFeed(t))
<1>1. TypeOK /\ cur \in Fds /\ t \in Seq(Plain) /\ LineFeed(t) # 0
  BY DEF IInv, TypeOK, CutLine
<1>2. line \in Seq(Plain) /\ LineFeed(line) = 0 /\ left \in Seq(Plain)
  BY <1>1, CutFacts
<1>3. Hand(line, "feed") /\ rest' = [rest EXCEPT ![cur] = Pointing(left)]
  BY DEF CutLine
<1>4. t # <<>>
  <2>1. LineFeed(t) \in 1 .. Len(t)
    BY <1>1, FeedFacts
  <2> QED
    BY <2>1, <1>1
<1> HIDE DEF line, left
<1> DEFINE len == Len(lines[cur])
<1>5. /\ lines' \in [Fds -> Seq(Handed)]
      /\ \A fd \in Fds \ {cur} : lines'[fd] = lines[fd]
      /\ Len(lines'[cur]) = len + 1
      /\ \A n \in 1 .. len : lines'[cur][n] = lines[cur][n]
      /\ lines'[cur][len + 1] = [line |-> line, how |-> "feed"]
  BY <1>1, <1>2, <1>3, HandType
<1>6. TypeOK'
  <2>1. rest' \in [Fds -> [at : {"null", "text", "freed"}, text : Seq(Plain)]]
    BY <1>1, <1>2, <1>3 DEF TypeOK, Pointing
  <2>2. \A fd \in Fds : rest'[fd].at # "text" => rest'[fd].text = <<>>
    BY <1>1, <1>3 DEF TypeOK, Pointing
  <2>3. pc' = "idle" /\ TypeOK /\ UNCHANGED <<file, status, opens, fresh, off, cur, failures, clean>>
    BY <1>1 DEF CutLine, caller
  <2> QED
    BY <1>5, <2>1, <2>2, <2>3 DEF TypeOK
<1>7. CallInv' /\ FreedInv'
  BY <1>1, <1>3 DEF IInv, CutLine, caller, TypeOK, CallInv, FreedInv, Pointing
<1>8. EndInv'
  <2> SUFFICES ASSUME NEW fd \in Fds, clean[fd], NEW n \in DOMAIN lines'[fd]
               PROVE  \/ lines'[fd][n].how = "feed" /\ LineFeed(lines'[fd][n].line) = 0
                      \/ /\ lines'[fd][n].how = "end" /\ n = Len(lines'[fd])
                         /\ off[fd] = Len(file[fd]) /\ rest'[fd].text = <<>>
    BY DEF EndInv, CutLine, caller
  <2>1. CASE fd # cur
    BY <1>1, <1>3, <1>5, <2>1, SMTT(30) DEF IInv, EndInv, TypeOK
  <2>2. CASE fd = cur
    <3>1. n \in 1 .. len \/ n = len + 1
      BY <1>1, <1>5, <2>2 DEF TypeOK
    <3> QED
      BY <1>2, <1>4, <1>5, <2>2, <3>1, NotEnded, SMTT(30)
  <2> QED
    BY <2>1, <2>2
<1> QED
  BY <1>6, <1>7, <1>8 DEF IInv

\* Only a failed read leads here: the descriptor is no longer clean.
LEMMA PartLineInv == IInv /\ PartLine => IInv'
<1> SUFFICES ASSUME IInv, PartLine PROVE IInv'
  OBVIOUS
<1>1. TypeOK /\ cur \in Fds /\ rest[cur].text \in Seq(Plain)
  BY DEF IInv, TypeOK
<1>2. failures > 0 /\ ~clean[cur]
  BY DEF IInv, CallInv, PartLine
<1>3. /\ lines' \in [Fds -> Seq(Handed)]
      /\ \A fd \in Fds \ {cur} : lines'[fd] = lines[fd]
  BY <1>1, HandType DEF PartLine
<1>4. TypeOK'
  BY <1>1, <1>3 DEF PartLine, caller, TypeOK, Freed
<1>5. CallInv' /\ FreedInv'
  BY <1>1, <1>2 DEF IInv, PartLine, caller, TypeOK, CallInv, FreedInv
<1>6. EndInv'
  BY <1>1, <1>2, <1>3 DEF IInv, PartLine, caller, TypeOK, EndInv
<1> QED
  BY <1>4, <1>5, <1>6 DEF IInv

\* A failure is counted, and its descriptor is no longer clean.
LEMMA FailsFacts ==
  ASSUME TypeOK, Fails
  PROVE  /\ failures' \in 0 .. MaxFailures /\ failures' > 0
         /\ clean' \in [Fds -> BOOLEAN] /\ ~clean'[cur]
         /\ \A fd \in Fds \ {cur} : clean'[fd] = clean[fd]
  BY SizesAssumption DEF TypeOK, Fails

\* A failing allocation disturbs nothing but the rest and the lines of its own
\* descriptor: all of IInv that is about it is about clean descriptors.
LEMMA UnstoredInv ==
  ASSUME IInv, Fails, UNCHANGED <<caller, cur>>,
         NEW left \in [at : {"null", "text", "freed"}, text : Seq(Plain)],
         left.at # "text" => left.text = <<>>,
         rest' = [rest EXCEPT ![cur] = left],
         pc' \in {"idle", "undefined"},
         off' \in [Fds -> Nat],
         \A fd \in Fds : off'[fd] <= Len(file[fd]),
         \A fd \in Fds \ {cur} : off'[fd] = off[fd],
         lines' \in [Fds -> Seq(Handed)],
         \A fd \in Fds \ {cur} : lines'[fd] = lines[fd]
  PROVE  IInv'
<1>1. /\ failures' \in 0 .. MaxFailures /\ failures' > 0
      /\ clean' \in [Fds -> BOOLEAN] /\ ~clean'[cur]
      /\ \A fd \in Fds \ {cur} : clean'[fd] = clean[fd]
  BY FailsFacts DEF IInv
<1>2. TypeOK'
  <2>1. rest' \in [Fds -> [at : {"null", "text", "freed"}, text : Seq(Plain)]]
    BY DEF IInv, TypeOK
  <2>2. \A fd \in Fds : rest'[fd].at # "text" => rest'[fd].text = <<>>
    BY DEF IInv, TypeOK
  <2>3. /\ file' \in [Fds -> Texts \cup {<<>>}] /\ status' \in [Fds -> {"closed", "open", "ended"}]
        /\ cur' \in Fds /\ opens' \in 0 .. MaxOpens /\ fresh' \in [Fds -> BOOLEAN]
        /\ \A fd \in Fds : off'[fd] <= Len(file'[fd])
    BY DEF IInv, TypeOK, caller
  <2> QED
    BY <1>1, <2>1, <2>2, <2>3 DEF TypeOK
<1>3. CallInv'
  BY <1>1 DEF CallInv
<1>4. FreedInv'
  <2> SUFFICES ASSUME NEW fd \in Fds, rest'[fd].at = "freed"
               PROVE  failures' > 0 /\ ~clean'[fd]
    BY DEF FreedInv
  <2>1. CASE fd = cur
    BY <1>1, <2>1
  <2>2. CASE fd # cur
    BY <1>1, <2>2 DEF IInv, TypeOK, FreedInv
  <2> QED
    BY <2>1, <2>2
<1>5. EndInv'
  <2> SUFFICES ASSUME NEW fd \in Fds, clean'[fd]
               PROVE  \A n \in DOMAIN lines'[fd] :
                        \/ lines'[fd][n].how = "feed" /\ LineFeed(lines'[fd][n].line) = 0
                        \/ /\ lines'[fd][n].how = "end" /\ n = Len(lines'[fd])
                           /\ off'[fd] = Len(file'[fd]) /\ rest'[fd].text = <<>>
    BY DEF EndInv
  <2>1. fd # cur /\ clean[fd]
    BY <1>1
  <2>2. lines'[fd] = lines[fd] /\ off'[fd] = off[fd] /\ rest'[fd] = rest[fd] /\ file' = file
    BY <2>1 DEF IInv, TypeOK, caller
  <2> QED
    BY <2>1, <2>2 DEF IInv, EndInv
<1> QED
  BY <1>2, <1>3, <1>4, <1>5 DEF IInv

\* Handing out a line leaves the lines of the other files alone.
LEMMA LinesKept ==
  ASSUME TypeOK, NEW line \in Seq(Plain), NEW how \in {"feed", "end", "part", "lost"}, Hand(line, how)
  PROVE  /\ lines' \in [Fds -> Seq(Handed)]
         /\ \A fd \in Fds \ {cur} : lines'[fd] = lines[fd]
  BY HandType

\* The steps in which malloc fails keep the invariant.
LEMMA UnstoredStepsInv ==
  ASSUME IInv, ReadUnstored \/ EndUnstored \/ CutUnstored \/ PartUnstored
  PROVE  IInv'
<1>0. /\ TypeOK /\ cur \in Fds /\ rest[cur].text \in Seq(Plain) /\ <<>> \in Seq(Plain)
      /\ off \in [Fds -> Nat] /\ \A fd \in Fds : off[fd] <= Len(file[fd])
      /\ lines \in [Fds -> Seq(Handed)]
  BY DEF IInv, TypeOK
<1> DEFINE Entry == [at : {"null", "text", "freed"}, text : Seq(Plain)]
<1>n. /\ NoText \in Entry /\ (NoText.at # "text" => NoText.text = <<>>)
      /\ Freed \in Entry /\ (Freed.at # "text" => Freed.text = <<>>)
  BY <1>0 DEF NoText, Freed
<1>1. CASE ReadUnstored
  <2>1. PICK n \in 1 .. BUFF_SIZE :
          off[cur] + n <= Len(file[cur]) /\ off' = [off EXCEPT ![cur] = @ + n]
    BY <1>1 DEF ReadUnstored
  <2>2. n \in Nat
    BY SizesAssumption
  <2>3. /\ off' \in [Fds -> Nat] /\ \A fd \in Fds : off'[fd] <= Len(file[fd])
        /\ \A fd \in Fds \ {cur} : off'[fd] = off[fd]
    BY <1>0, <2>1, <2>2
  <2>4. /\ Fails /\ UNCHANGED <<caller, cur>> /\ lines' = lines /\ pc' = "undefined"
        /\ rest' = [rest EXCEPT ![cur] = NoText]
    BY <1>1 DEF ReadUnstored
  <2> QED
    BY <1>0, <1>n, <2>3, <2>4, UnstoredInv
<1>2. CASE EndUnstored
  <2>1. /\ Fails /\ UNCHANGED <<caller, cur>> /\ off' = off /\ pc' = "idle"
        /\ rest' = [rest EXCEPT ![cur] = NoText] /\ Hand(<<>>, "lost")
    BY <1>2 DEF EndUnstored
  <2> QED
    BY <1>0, <1>n, <2>1, LinesKept, UnstoredInv
<1>3. CASE CutUnstored
  <2> DEFINE t == rest[cur].text
             k == LineFeed(t)
             line == SubSeq(t, 1, k - 1)
             left == Pointing(AfterFeed(t, k))
  <2>1. line \in Seq(Plain) /\ AfterFeed(t, k) \in Seq(Plain)
    BY <1>0, <1>3, CutFacts DEF CutUnstored
  <2>2. left \in Entry /\ (left.at # "text" => left.text = <<>>)
    BY <2>1 DEF Pointing
  <2>3. /\ Fails /\ UNCHANGED <<caller, cur>> /\ off' = off /\ pc' = "idle"
        /\ Hand(<<>>, "lost") \/ Hand(line, "feed")
        /\ rest' = [rest EXCEPT ![cur] = left] \/ rest' = [rest EXCEPT ![cur] = NoText]
    BY <1>3 DEF CutUnstored, RestLost
  <2> HIDE DEF line, left
  <2>4. /\ lines' \in [Fds -> Seq(Handed)]
        /\ \A fd \in Fds \ {cur} : lines'[fd] = lines[fd]
    BY <1>0, <2>1, <2>3, LinesKept
  <2>5. CASE rest' = [rest EXCEPT ![cur] = left]
    BY <1>0, <2>2, <2>3, <2>4, <2>5, UnstoredInv
  <2>6. CASE rest' = [rest EXCEPT ![cur] = NoText]
    BY <1>0, <1>n, <2>3, <2>4, <2>6, UnstoredInv
  <2> QED
    BY <2>3, <2>5, <2>6
<1>4. CASE PartUnstored
  <2>1. /\ Fails /\ UNCHANGED <<caller, cur>> /\ off' = off /\ pc' = "idle"
        /\ rest' = [rest EXCEPT ![cur] = Freed] /\ Hand(<<>>, "lost")
    BY <1>4 DEF PartUnstored
  <2> QED
    BY <1>0, <1>n, <2>1, LinesKept, UnstoredInv
<1> QED
  BY <1>1, <1>2, <1>3, <1>4

\* The steps that hand out no line keep it.
LEMMA OtherInv ==
  ASSUME IInv, FaultOnRest \/ EndWithoutRest \/ ReadFails \/ NoLine
  PROVE  IInv'
<1> USE DEF IInv
<1>1. CASE FaultOnRest
  <2>1. cur = TableSize \/ failures > 0
    BY <1>1, FdsAssumption DEF FaultOnRest, Sound, Freed, TypeOK, CallInv, FreedInv
  <2> QED
    BY <1>1, <2>1 DEF FaultOnRest, caller, TypeOK, CallInv, FreedInv, EndInv
<1>2. CASE EndWithoutRest
  BY <1>2 DEF EndWithoutRest, AtEnd, caller, TypeOK, CallInv, FreedInv, EndInv
<1>3. CASE ReadFails
  BY <1>3, FailsFacts DEF ReadFails, caller, TypeOK, CallInv, FreedInv, EndInv
<1>4. CASE NoLine
  BY <1>4 DEF NoLine, NoText, TypeOK, CallInv, FreedInv, EndInv
<1> QED
  BY <1>1, <1>2, <1>3, <1>4

\* Every step keeps it.
LEMMA NextInv == IInv /\ [Next]_vars => IInv'
<1> SUFFICES ASSUME IInv, [Next]_vars PROVE IInv'
  OBVIOUS
<1>1. CASE \E fd \in Fds :
             OpenFile(fd) \/ CloseFile(fd) \/ Call(fd) \/ CallRefused(fd) \/ CheckFails(fd)
  BY <1>1, CallerInv
<1>2. CASE InCall
  BY <1>2, ReadSomeInv, EndWithRestInv, CutLineInv, PartLineInv, OtherInv, UnstoredStepsInv
     DEF InCall
<1>3. CASE UNCHANGED vars
  BY <1>3 DEF vars, IInv, TypeOK, CallInv, FreedInv, EndInv
<1> QED
  BY <1>1, <1>2, <1>3 DEF Next

\* It holds whatever the caller does and whatever fails.
LEMMA InvHolds == Spec => []IInv
  BY InitInv, NextInv, PTL DEF Spec

-----------------------------------------------------------------------------
\* What is kept of a file and handed out are texts without zero bytes, and no
\* more is read than there is.
THEOREM TypeCorrect == Spec => []TypeOK
<1>1. IInv => TypeOK
  BY DEF IInv
<1> QED
  BY <1>1, InvHolds, PTL

\* Unless a read or a malloc has failed no freed pointer stays in the_rest, and
\* none and no null pointer is used;
\* the only entry outside the table that is used is the first one behind it.
THEOREM MisuseNeedsFailure == Spec => []MemorySafe
<1>1. IInv => MemorySafe
  BY DEF IInv, CallInv, FreedInv, MemorySafe, Freed
<1> QED
  BY <1>1, InvHolds, PTL

\* Every line but the last one of a file ends at its first line feed, for every
\* BUFF_SIZE and every split of the text into reads.
THEOREM LinesEndAtFeeds == Spec => []LinesWhole
<1>1. IInv => LinesWhole
  BY DEF IInv, EndInv, LinesWhole
<1> QED
  BY <1>1, InvHolds, PTL

-----------------------------------------------------------------------------
\* Where lines are in the file.  Of a file that was opened without a rest and
\* has no zero byte the rest is what was read last, and the lines handed out
\* are pieces of what was read before that (PlaceInv).
Told(fd) == fresh[fd] /\ status[fd] # "closed" /\ ~Zero(fd)
Seen(fd) == off[fd] - Len(rest[fd].text)

\* The text t is what was read last of f, up to place o; in front of it are seen.
ReadLast(f, o, t, seen) ==
  seen \in Nat /\ o \in 0 .. Len(f) /\ seen + Len(t) = o /\ SubSeq(f, seen + 1, o) = t

Pieces(ls, t, upto) ==
  \E at \in [DOMAIN ls -> 0 .. upto] :
    \A n \in DOMAIN ls :
      LET piece == TextOf(ls[n])
      IN /\ at[n] + Len(piece) <= (IF n < Len(ls) THEN at[n + 1] ELSE upto)
         /\ SubSeq(t, at[n] + 1, at[n] + Len(piece)) = piece

OpenInv == pc \in {"read", "manage"} => status[cur] = "open"
PlaceInv ==
  \A fd \in Fds : Told(fd) =>
    /\ ReadLast(file[fd], off[fd], rest[fd].text, Seen(fd))
    /\ Pieces(lines[fd], file[fd], Seen(fd))

\* A line is a text, with its line feed too.
LEMMA TextOfType ==
  ASSUME NEW l \in Handed
  PROVE  TextOf(l) \in Seq(Plain) /\ Len(TextOf(l)) \in Nat
<1>1. l.line \in Seq(Plain) /\ LF \in Plain
  BY DEF Handed, Plain
<1>2. Append(l.line, LF) \in Seq(Plain)
  BY <1>1
<1> QED
  BY <1>1, <1>2 DEF TextOf

\* Pieces in front of one place are in front of a later one,
LEMMA PiecesLater ==
  ASSUME NEW ls \in Seq(Handed), NEW t, NEW u \in Nat, NEW v \in Nat, u <= v, Pieces(ls, t, u)
  PROVE  Pieces(ls, t, v)
<1>1. PICK at \in [DOMAIN ls -> 0 .. u] :
        \A n \in DOMAIN ls :
          /\ at[n] + Len(TextOf(ls[n])) <= (IF n < Len(ls) THEN at[n + 1] ELSE u)
          /\ SubSeq(t, at[n] + 1, at[n] + Len(TextOf(ls[n]))) = TextOf(ls[n])
  BY DEF Pieces
<1>2. at \in [DOMAIN ls -> 0 .. v]
  OBVIOUS
<1>3. ASSUME NEW n \in DOMAIN ls
      PROVE  at[n] + Len(TextOf(ls[n])) <= (IF n < Len(ls) THEN at[n + 1] ELSE v)
  <2>1. Len(TextOf(ls[n])) \in Nat /\ at[n] \in Nat
    BY TextOfType
  <2> QED
    BY <1>1, <2>1
<1> QED
  BY <1>1, <1>2, <1>3 DEF Pieces

\* and one that begins where they end may follow.
LEMMA OnePieceMore ==
  ASSUME NEW ls \in Seq(Handed), NEW l \in Handed, NEW t, NEW u \in Nat, NEW v \in Nat,
         Pieces(ls, t, u), u + Len(TextOf(l)) <= v,
         SubSeq(t, u + 1, u + Len(TextOf(l))) = TextOf(l)
  PROVE  Pieces(Append(ls, l), t, v)
<1> DEFINE len  == Len(ls)
           more == Append(ls, l)
<1>1. PICK at \in [DOMAIN ls -> 0 .. u] :
        \A n \in DOMAIN ls :
          /\ at[n] + Len(TextOf(ls[n])) <= (IF n < Len(ls) THEN at[n + 1] ELSE u)
          /\ SubSeq(t, at[n] + 1, at[n] + Len(TextOf(ls[n]))) = TextOf(ls[n])
  BY DEF Pieces
<1>2. /\ DOMAIN ls = 1 .. len /\ len \in Nat /\ DOMAIN more = 1 .. len + 1 /\ Len(more) = len + 1
      /\ more[len + 1] = l /\ \A n \in 1 .. len : more[n] = ls[n]
  OBVIOUS
<1>3. Len(TextOf(l)) \in Nat
  BY TextOfType
<1> DEFINE next == [n \in 1 .. len + 1 |-> IF n = len + 1 THEN u ELSE at[n]]
<1>4. /\ next \in [DOMAIN more -> 0 .. v] /\ next[len + 1] = u
      /\ \A n \in 1 .. len : next[n] = at[n]
  BY <1>2, <1>3
<1> HIDE DEF more, next
<1>5. ASSUME NEW n \in 1 .. len + 1
      PROVE  /\ next[n] + Len(TextOf(more[n])) <= (IF n < Len(more) THEN next[n + 1] ELSE v)
             /\ SubSeq(t, next[n] + 1, next[n] + Len(TextOf(more[n]))) = TextOf(more[n])
  <2>1. CASE n = len + 1
    <3>1. next[n] = u /\ more[n] = l /\ ~(n < Len(more))
      BY <1>2, <1>4, <2>1
    <3> QED
      BY <3>1
  <2>2. CASE n # len + 1
    <3>1. n \in 1 .. len /\ n \in DOMAIN ls /\ n < Len(more) /\ next[n] = at[n] /\ more[n] = ls[n]
      BY <1>2, <1>4, <2>2
    <3>2. next[n + 1] = IF n < len THEN at[n + 1] ELSE u
      <4>1. n < len => n + 1 \in 1 .. len
        BY <1>2, <3>1
      <4>2. ~(n < len) => n + 1 = len + 1
        BY <1>2, <3>1
      <4> QED
        BY <1>4, <4>1, <4>2
    <3> QED
      BY <1>1, <3>1, <3>2
  <2> QED
    BY <2>1, <2>2
<1> QED
  BY <1>2, <1>4, <1>5 DEF Pieces, more

\* What the call for cur does to the others: nothing.
LEMMA PlacedInCall ==
  ASSUME TypeOK, PlaceInv, InCall, UNCHANGED <<file, fresh>>, status[cur] # "closed",
         \A fd \in Fds \ {cur} : /\ off'[fd] = off[fd] /\ rest'[fd] = rest[fd]
                                 /\ lines'[fd] = lines[fd] /\ status'[fd] = status[fd],
         LET seen == off'[cur] - Len(rest'[cur].text)
         IN Told(cur) => /\ ReadLast(file[cur], off'[cur], rest'[cur].text, seen)
                         /\ Pieces(lines'[cur], file[cur], seen)
  PROVE  PlaceInv'
<1> SUFFICES ASSUME NEW fd \in Fds, Told(fd)'
             PROVE  LET seen == off'[fd] - Len(rest'[fd].text)
                    IN /\ ReadLast(file[fd], off'[fd], rest'[fd].text, seen)
                       /\ Pieces(lines'[fd], file[fd], seen)
  BY DEF PlaceInv, Seen
<1>1. CASE fd = cur
  BY <1>1 DEF Told, Zero
<1>2. CASE fd # cur
  <2>1. Told(fd)
    BY <1>2 DEF Told, Zero
  <2> QED
    BY <1>2, <2>1 DEF PlaceInv, Seen
<1> QED
  BY <1>1, <1>2

\* What is known of the descriptor of the call.
LEMMA CurFacts ==
  ASSUME TypeOK, PlaceInv, Told(cur)
  PROVE  /\ file[cur] \in Seq(AnyChar) /\ off[cur] \in 0 .. Len(file[cur]) /\ Len(file[cur]) \in Nat
         /\ rest[cur].text \in Seq(Plain) /\ rest[cur].text \in Seq(AnyChar)
         /\ lines[cur] \in Seq(Handed)
         /\ ReadLast(file[cur], off[cur], rest[cur].text, Seen(cur))
         /\ Seen(cur) \in Nat /\ Seen(cur) <= off[cur]
         /\ Pieces(lines[cur], file[cur], Seen(cur))
         /\ \A k \in 1 .. Len(file[cur]) : file[cur][k] # NUL
<1>1. cur \in Fds /\ off[cur] \in Nat /\ off[cur] <= Len(file[cur]) /\ rest[cur].text \in Seq(Plain)
  BY DEF TypeOK
<1>2. file[cur] \in Seq(AnyChar)
  BY <1>1, FileText
<1>3. Seq(Plain) \subseteq Seq(AnyChar)
  BY DEF Plain, AnyChar
<1>4. \A k \in 1 .. Len(file[cur]) : file[cur][k] # NUL
  BY <1>2 DEF Told, Zero
<1>5. lines[cur] \in Seq(Handed)
  BY <1>1 DEF TypeOK
<1> QED
  BY <1>1, <1>2, <1>3, <1>4, <1>5, SMTT(30) DEF PlaceInv, ReadLast

\* Without a zero byte the whole of the buffer joins the rest.
LEMMA JoinedAll ==
  ASSUME NEW t, NEW f \in Seq(AnyChar), NEW o \in Nat, NEW n \in Nat, o + n <= Len(f),
         \A k \in 1 .. Len(f) : f[k] # NUL
  PROVE  Joined(t, SubSeq(f, o + 1, o + n)) = t \o SubSeq(f, o + 1, o + n)
<1> DEFINE buffer == SubSeq(f, o + 1, o + n)
<1>1. buffer \in Seq(AnyChar) /\ Len(buffer) = n /\ \A k \in 1 .. n : buffer[k] = f[o + k]
  OBVIOUS
<1> HIDE DEF buffer
<1>2. {k \in DOMAIN buffer : buffer[k] = NUL} = {}
  BY <1>1
<1> QED
  BY <1>2 DEF Joined, buffer

\* The text read next goes on where the rest ends.
LEMMA ReadOn ==
  ASSUME NEW f \in Seq(AnyChar), NEW t \in Seq(AnyChar), NEW o, NEW seen, ReadLast(f, o, t, seen),
         NEW n \in Nat, o + n <= Len(f)
  PROVE  ReadLast(f, o + n, t \o SubSeq(f, o + 1, o + n), seen)
<1> DEFINE chunk == SubSeq(f, o + 1, o + n)
<1>1. o \in Nat /\ seen \in Nat /\ seen + Len(t) = o /\ Len(t) \in Nat /\ Len(f) \in Nat
  BY DEF ReadLast
<1>2. chunk \in Seq(AnyChar) /\ Len(chunk) = n
  BY <1>1
<1>3. t \o chunk = SubSeq(f, seen + 1, o + n)
  <2>1. seen + 1 \in 1 .. Len(f) + 1 /\ o \in (seen + 1) - 1 .. Len(f) /\ o + n \in o .. Len(f)
    BY <1>1
  <2>2. SubSeq(f, seen + 1, o) \o SubSeq(f, o + 1, o + n) = SubSeq(f, seen + 1, o + n)
    BY <2>1, ConcatAdjacentSubSeq
  <2> QED
    BY <2>2 DEF ReadLast
<1> HIDE DEF chunk
<1>4. Len(t \o chunk) = Len(t) + n
  BY <1>2
<1>5. seen + Len(t \o chunk) = o + n /\ o + n \in 0 .. Len(f)
  BY <1>1, <1>4
<1> QED
  BY <1>1, <1>3, <1>5 DEF chunk, ReadLast

\* A piece of a piece of a file is a piece of the file.
LEMMA PartOfPart ==
  ASSUME NEW f \in Seq(AnyChar), NEW i \in 1 .. Len(f), NEW j \in 1 .. Len(f),
         NEW m \in 1 .. j - i + 1, NEW n \in 1 .. j - i + 1
  PROVE  SubSeq(SubSeq(f, i, j), m, n) = SubSeq(f, i + m - 1, i + n - 1)
BY SubSeqOfSubSeq

\* The first k characters of the rest, and those behind them, in the file.
LEMMA RestInTwo ==
  ASSUME NEW f \in Seq(AnyChar), NEW t \in Seq(AnyChar), NEW o, NEW seen, ReadLast(f, o, t, seen),
         NEW k \in 1 .. Len(t)
  PROVE  /\ SubSeq(f, seen + 1, seen + k) = SubSeq(t, 1, k) /\ Len(SubSeq(t, 1, k)) = k
         /\ ReadLast(f, o, SubSeq(t, k + 1, Len(t)), seen + k)
<1>1. o \in 0 .. Len(f) /\ seen \in Nat /\ seen + Len(t) = o /\ Len(t) \in Nat /\ Len(f) \in Nat
  BY DEF ReadLast
<1>2. SubSeq(f, seen + 1, seen + k) = SubSeq(t, 1, k)
  <2>1. SubSeq(SubSeq(f, seen + 1, o), 1, k) = SubSeq(f, (seen + 1) + 1 - 1, (seen + 1) + k - 1)
    <3>1. seen + 1 \in 1 .. Len(f) /\ o \in 1 .. Len(f)
          /\ 1 \in 1 .. o - (seen + 1) + 1 /\ k \in 1 .. o - (seen + 1) + 1
      BY <1>1
    <3> QED
      BY <3>1, PartOfPart
  <2>2. (seen + 1) + 1 - 1 = seen + 1 /\ (seen + 1) + k - 1 = seen + k
    BY <1>1
  <2> QED
    BY <2>1, <2>2 DEF ReadLast
<1>3. SubSeq(f, seen + k + 1, o) = SubSeq(t, k + 1, Len(t))
  <2>1. CASE k = Len(t)
    <3>1. SubSeq(f, seen + k + 1, o) = <<>> /\ SubSeq(t, k + 1, Len(t)) = <<>>
      BY <1>1, <2>1, SubSeqEmpty
    <3> QED
      BY <3>1
  <2>2. CASE k < Len(t)
    <3>1. SubSeq(SubSeq(f, seen + 1, o), k + 1, Len(t))
            = SubSeq(f, (seen + 1) + (k + 1) - 1, (seen + 1) + Len(t) - 1)
      <4>1. seen + 1 \in 1 .. Len(f) /\ o \in 1 .. Len(f)
            /\ k + 1 \in 1 .. o - (seen + 1) + 1 /\ Len(t) \in 1 .. o - (seen + 1) + 1
        BY <1>1, <2>2
      <4> QED
        BY <4>1, PartOfPart
    <3>2. (seen + 1) + (k + 1) - 1 = seen + k + 1 /\ (seen + 1) + Len(t) - 1 = o
      BY <1>1
    <3> QED
      BY <3>1, <3>2 DEF ReadLast
  <2> QED
    BY <1>1, <2>1, <2>2
<1>4. Len(SubSeq(t, 1, k)) = k /\ Len(SubSeq(t, k + 1, Len(t))) = Len(t) - k
  OBVIOUS
<1>5. seen + k \in Nat /\ (seen + k) + (Len(t) - k) = o
  BY <1>1
<1> QED
  BY <1>1, <1>2, <1>3, <1>4, <1>5 DEF ReadLast

\* A line that is handed out is a piece of the file; it may be empty instead, and
\* what was behind it may be gone.
LEMMA NextPiece ==
  ASSUME NEW f \in Seq(AnyChar), NEW t \in Seq(AnyChar), NEW o, NEW seen, ReadLast(f, o, t, seen),
         NEW k \in 1 .. Len(t),
         NEW ls \in Seq(Handed), Pieces(ls, f, seen),
         NEW l \in Handed, TextOf(l) = <<>> \/ TextOf(l) = SubSeq(t, 1, k),
         NEW left, left = <<>> \/ left = SubSeq(t, k + 1, Len(t))
  PROVE  LET now == o - Len(left)
         IN ReadLast(f, o, left, now) /\ Pieces(Append(ls, l), f, now)
<1> DEFINE after == SubSeq(t, k + 1, Len(t))
<1>1. /\ SubSeq(f, seen + 1, seen + k) = SubSeq(t, 1, k) /\ Len(SubSeq(t, 1, k)) = k
      /\ ReadLast(f, o, after, seen + k)
  BY RestInTwo
<1>2. /\ seen + k \in Nat /\ o \in Nat /\ o <= Len(f) /\ seen + k <= o /\ seen \in Nat
  BY DEF ReadLast
<1>3. Len(TextOf(l)) \in Nat /\ seen + Len(TextOf(l)) <= seen + k
      /\ SubSeq(f, seen + 1, seen + Len(TextOf(l))) = TextOf(l)
  <2>1. CASE TextOf(l) = <<>>
    <3>1. Len(TextOf(l)) = 0 /\ seen + 0 = seen /\ SubSeq(f, seen + 1, seen) = <<>>
      BY <1>2, <2>1, SubSeqEmpty
    <3> QED
      BY <1>2, <2>1, <3>1
  <2>2. CASE TextOf(l) = SubSeq(t, 1, k)
    BY <1>1, <1>2, <2>2
  <2> QED
    BY <2>1, <2>2
<1>4. CASE left = <<>>
  <2>1. Len(left) = 0 /\ o - 0 = o /\ SubSeq(f, o + 1, o) = <<>>
    BY <1>2, <1>4, SubSeqEmpty
  <2>2. Pieces(Append(ls, l), f, o)
    BY <1>2, <1>3, OnePieceMore
  <2>3. ReadLast(f, o, left, o)
    BY <1>2, <1>4, <2>1 DEF ReadLast
  <2> QED
    BY <2>1, <2>2, <2>3
<1>5. CASE left = after
  <2>1. Pieces(Append(ls, l), f, seen + k)
    BY <1>2, <1>3, OnePieceMore
  <2>2. o - Len(left) = seen + k
    <3> HIDE DEF after
    <3>1. Len(left) \in Nat /\ (seen + k) + Len(left) = o
      <4>1. Len(after) \in Nat
        BY DEF after
      <4> QED
        BY <1>1, <1>5, <4>1 DEF ReadLast
    <3> QED
      BY <1>2, <3>1
  <2> QED
    BY <1>1, <1>5, <2>1, <2>2
<1> QED
  BY <1>4, <1>5

\* Up to its line feed the rest is a line.
LEMMA LineOfRest ==
  ASSUME NEW t \in Seq(Plain), LineFeed(t) # 0
  PROVE  LET k    == LineFeed(t)
             line == [line |-> SubSeq(t, 1, k - 1), how |-> "feed"]
         IN k \in 1 .. Len(t) /\ line \in Handed /\ TextOf(line) = SubSeq(t, 1, k)
<1> DEFINE k    == LineFeed(t)
           line == [line |-> SubSeq(t, 1, k - 1), how |-> "feed"]
<1>1. k \in 1 .. Len(t) /\ t[k] = LF /\ SubSeq(t, 1, k - 1) \in Seq(Plain)
  BY FeedFacts, CutFacts
<1> HIDE DEF k
<1>2. line \in Handed /\ TextOf(line) = Append(SubSeq(t, 1, k - 1), LF)
  BY <1>1 DEF Handed, TextOf
<1>3. SubSeq(t, 1, k) = SubSeq(t, 1, k - 1) \o <<t[k]>>
  BY <1>1, SubSeqRecursiveSecond
<1>4. Append(SubSeq(t, 1, k - 1), LF) = SubSeq(t, 1, k - 1) \o <<LF>>
  BY <1>1, AppendIsConcat DEF Plain
<1> QED
  BY <1>1, <1>2, <1>3, <1>4 DEF k

-----------------------------------------------------------------------------
\* The steps of a call keep PlaceInv

\* A read moves the end of the rest, and leaves the places of the lines
\* alone.
LEMMA ReadPlaces ==
  ASSUME IInv, PlaceInv, OpenInv, ReadSome \/ ReadUnstored
  PROVE  PlaceInv'
<1>1. PICK n \in 1 .. BUFF_SIZE :
        /\ off[cur] + n <= Len(file[cur]) /\ off' = [off EXCEPT ![cur] = @ + n]
        /\ \/ rest' = [rest EXCEPT ![cur] = Pointing(
                         Joined(rest[cur].text, SubSeq(file[cur], off[cur] + 1, off[cur] + n)))]
           \/ rest' = [rest EXCEPT ![cur] = NoText]
  BY DEF ReadSome, ReadUnstored
<1>2. TypeOK /\ n \in Nat /\ cur \in Fds
  BY SizesAssumption DEF IInv, TypeOK
<1>3. InCall
  BY Zenon DEF InCall
<1>4. status[cur] # "closed" /\ UNCHANGED <<file, fresh, lines, status>>
  BY DEF OpenInv, ReadSome, ReadUnstored, caller
<1>5. \A fd \in Fds \ {cur} : /\ off'[fd] = off[fd] /\ rest'[fd] = rest[fd]
                              /\ lines'[fd] = lines[fd] /\ status'[fd] = status[fd]
  BY <1>1, <1>2, <1>4 DEF TypeOK
<1>6. ASSUME Told(cur)
      PROVE  LET seen == off'[cur] - Len(rest'[cur].text)
             IN /\ ReadLast(file[cur], off'[cur], rest'[cur].text, seen)
                /\ Pieces(lines'[cur], file[cur], seen)
  <2> DEFINE f     == file[cur]
             o     == off[cur]
             t     == rest[cur].text
             u     == Seen(cur)
             ls    == lines[cur]
             chunk == SubSeq(f, o + 1, o + n)
  <2>1. /\ f \in Seq(AnyChar) /\ o \in 0 .. Len(f) /\ Len(f) \in Nat /\ t \in Seq(AnyChar)
        /\ ls \in Seq(Handed) /\ u \in Nat /\ u <= o
        /\ ReadLast(f, o, t, u) /\ Pieces(ls, f, u)
        /\ \A k \in 1 .. Len(f) : f[k] # NUL
    BY <1>2, <1>6, CurFacts
  <2>2. off'[cur] = o + n /\ o + n <= Len(f) /\ lines'[cur] = ls
    BY <1>1, <1>2, <1>4 DEF TypeOK
  <2>3. rest'[cur].text = Joined(t, chunk) \/ rest'[cur].text = <<>>
    BY <1>1, <1>2 DEF TypeOK, Pointing, NoText
  <2> HIDE DEF f, o, t, u, ls
  <2>4. Joined(t, chunk) = t \o chunk
    <3>1. o \in Nat
      BY <2>1
    <3>2. \A rst : Joined(rst, SubSeq(f, o + 1, o + n)) = rst \o SubSeq(f, o + 1, o + n)
      BY <1>2, <2>1, <2>2, <3>1, JoinedAll, ZenonT(60)
    <3> QED
      BY <3>2
  <2>5. o + n \in Nat /\ u <= o + n
    BY <1>2, <2>1
  <2>6. CASE rest'[cur].text = t \o chunk
    <3>1. ReadLast(f, o + n, t \o chunk, u)
      BY <1>2, <2>1, <2>2, ReadOn
    <3>2. Len(t \o chunk) \in Nat
      BY <2>1, <2>2, <2>5
    <3> HIDE DEF chunk
    <3>3. (o + n) - Len(t \o chunk) = u
      BY <2>1, <2>5, <3>1, <3>2 DEF ReadLast
    <3> QED
      BY <2>1, <2>2, <2>6, <3>1, <3>3 DEF f
  <2>7. CASE rest'[cur].text = <<>>
    <3>1. Len(<<>>) = 0 /\ o + n - 0 = o + n /\ SubSeq(f, o + n + 1, o + n) = <<>>
      BY <2>5, SubSeqEmpty
    <3>2. Pieces(ls, f, o + n)
      BY <2>1, <2>5, PiecesLater
    <3>3. ReadLast(f, o + n, <<>>, o + n)
      BY <2>1, <2>2, <2>5, <3>1 DEF ReadLast
    <3>4. off'[cur] - Len(rest'[cur].text) = o + n
      BY <2>2, <2>5, <2>7, <3>1
    <3> QED
      BY <2>2, <2>7, <3>2, <3>3, <3>4 DEF f
  <2> QED
    BY <2>3, <2>4, <2>6, <2>7
<1> QED
  BY <1>2, <1>3, <1>4, <1>5, <1>6, PlacedInCall

\* A line that is a beginning of the rest gets the place where the rest
\* began.
LEMMA HandPlaces ==
  ASSUME IInv, PlaceInv, OpenInv, InCall, UNCHANGED <<caller, off>>,
         pc \in {"read", "manage"}, NEW how \in {"feed", "end", "part", "lost"},
         NEW line \in Seq(Plain), Hand(line, how),
         NEW left, rest' = [rest EXCEPT ![cur] = left],
         NEW k \in 1 .. Len(rest[cur].text),
         LET text == TextOf([line |-> line, how |-> how])
         IN text = <<>> \/ text = SubSeq(rest[cur].text, 1, k),
         left.text = <<>> \/ left.text = SubSeq(rest[cur].text, k + 1, Len(rest[cur].text))
  PROVE  PlaceInv'
<1> DEFINE l == [line |-> line, how |-> how]
<1>1. TypeOK /\ cur \in Fds /\ status[cur] # "closed" /\ UNCHANGED <<file, fresh, status, off>> /\ l \in Handed
  BY DEF IInv, TypeOK, OpenInv, caller, Handed
<1>2. lines' = [lines EXCEPT ![cur] = Append(lines[cur], l)]
  BY DEF Hand
<1>3. TextOf(l) = <<>> \/ TextOf(l) = SubSeq(rest[cur].text, 1, k)
  OBVIOUS
<1> HIDE DEF l
<1>4. \A fd \in Fds \ {cur} : /\ off'[fd] = off[fd] /\ rest'[fd] = rest[fd]
                              /\ lines'[fd] = lines[fd] /\ status'[fd] = status[fd]
  BY <1>1, <1>2 DEF TypeOK
<1>5. ASSUME Told(cur)
      PROVE  LET seen == off'[cur] - Len(rest'[cur].text)
             IN /\ ReadLast(file[cur], off'[cur], rest'[cur].text, seen)
                /\ Pieces(lines'[cur], file[cur], seen)
  <2> DEFINE f  == file[cur]
             o  == off[cur]
             t  == rest[cur].text
             u  == Seen(cur)
             ls == lines[cur]
  <2>1. /\ f \in Seq(AnyChar) /\ o \in 0 .. Len(f) /\ Len(f) \in Nat /\ t \in Seq(AnyChar)
        /\ ls \in Seq(Handed) /\ u \in Nat /\ u <= o
        /\ ReadLast(f, o, t, u) /\ Pieces(ls, f, u)
    BY <1>1, <1>5, CurFacts
  <2>2. off'[cur] = o /\ lines'[cur] = Append(ls, l) /\ rest'[cur].text = left.text
    BY <1>1, <1>2 DEF TypeOK
  <2>3. TextOf(l) = <<>> \/ TextOf(l) = SubSeq(t, 1, k)
    BY <1>3
  <2>4. left.text = <<>> \/ left.text = SubSeq(t, k + 1, Len(t))
    OBVIOUS
  <2>5. k \in 1 .. Len(t)
    OBVIOUS
  <2> HIDE DEF f, o, t, u, ls
  <2>6. LET now == o - Len(left.text)
        IN ReadLast(f, o, left.text, now) /\ Pieces(Append(ls, l), f, now)
    BY <1>1, <2>1, <2>3, <2>4, <2>5, NextPiece
  <2> QED
    BY <2>2, <2>6 DEF f
<1> QED
  BY <1>1, <1>4, <1>5, PlacedInCall

\* Every step that hands out a line keeps the pieces in order.
LEMMA LinePlaces ==
  ASSUME IInv, PlaceInv, OpenInv,
         EndWithRest \/ EndUnstored \/ CutLine \/ CutUnstored \/ PartLine \/ PartUnstored
  PROVE  PlaceInv'
<1> DEFINE t == rest[cur].text
           k == LineFeed(t)
<1>1. /\ InCall /\ UNCHANGED <<caller, off>> /\ pc \in {"read", "manage"} /\ t \in Seq(Plain)
      /\ t # <<>> /\ Len(t) \in 1 .. Len(t) /\ <<>> \in Seq(Plain)
  <2>1. cur \in Fds /\ t \in Seq(Plain)
    BY DEF IInv, TypeOK
  <2>2. t # <<>>
    <3>1. CASE CutLine \/ CutUnstored
      <4>1. LineFeed(t) \in 1 .. Len(t)
        BY <2>1, <3>1, FeedFacts DEF CutLine, CutUnstored
      <4> QED
        BY <2>1, <4>1
    <3> QED
      BY <3>1 DEF EndWithRest, EndUnstored, PartLine, PartUnstored
  <2>3. Len(t) \in 1 .. Len(t)
    BY <2>1, <2>2
  <2>4. InCall
    BY Zenon DEF InCall
  <2>5. UNCHANGED <<caller, off>> /\ pc \in {"read", "manage"}
    BY DEF EndWithRest, EndUnstored, CutLine, CutUnstored, PartLine, PartUnstored, AtEnd
  <2> QED
    BY <2>1, <2>2, <2>3, <2>4, <2>5
<1>2. TextOf([line |-> <<>>, how |-> "lost"]) = <<>> /\ NoText.text = <<>> /\ Freed.text = <<>>
  BY DEF TextOf, NoText, Freed
<1>3. CASE EndWithRest \/ PartLine
  <2>1. PICK how \in {"end", "part"} : Hand(t, how)
    BY <1>3 DEF EndWithRest, PartLine
  <2>2. TextOf([line |-> t, how |-> how]) = SubSeq(t, 1, Len(t))
    BY <1>1, SubSeqFull DEF TextOf
  <2>3. rest' = [rest EXCEPT ![cur] = NoText] \/ rest' = [rest EXCEPT ![cur] = Freed]
    BY <1>3 DEF EndWithRest, PartLine
  <2> QED
    BY <1>1, <1>2, <2>1, <2>2, <2>3, HandPlaces
<1>4. CASE EndUnstored \/ PartUnstored
  <2>1. Hand(<<>>, "lost")
    BY <1>4 DEF EndUnstored, PartUnstored
  <2>2. rest' = [rest EXCEPT ![cur] = NoText] \/ rest' = [rest EXCEPT ![cur] = Freed]
    BY <1>4 DEF EndUnstored, PartUnstored
  <2> QED
    BY <1>1, <1>2, <2>1, <2>2, HandPlaces
<1>5. CASE CutLine \/ CutUnstored
  <2>1. k # 0
    BY <1>5 DEF CutLine, CutUnstored
  <2> DEFINE line == SubSeq(t, 1, k - 1)
             left == Pointing(AfterFeed(t, k))
  <2>2. k \in 1 .. Len(t) /\ TextOf([line |-> line, how |-> "feed"]) = SubSeq(t, 1, k) /\ line \in Seq(Plain)
    BY <1>1, <2>1, LineOfRest, CutFacts
  <2>3. left.text = SubSeq(t, k + 1, Len(t))
    BY DEF Pointing, AfterFeed
  <2>4. /\ Hand(line, "feed") \/ Hand(<<>>, "lost")
        /\ rest' = [rest EXCEPT ![cur] = left] \/ rest' = [rest EXCEPT ![cur] = NoText]
    BY <1>5 DEF CutLine, CutUnstored, RestLost
  <2> HIDE DEF line, left, k
  <2>5. CASE Hand(line, "feed")
    BY <1>1, <1>2, <2>2, <2>3, <2>4, <2>5, HandPlaces
  <2>6. CASE Hand(<<>>, "lost")
    BY <1>1, <1>2, <2>2, <2>3, <2>4, <2>6, HandPlaces
  <2> QED
    BY <2>4, <2>5, <2>6
<1> QED
  BY <1>3, <1>4, <1>5

\* Every step of a call that hands out none keeps them too.
LEMMA QuietPlaces ==
  ASSUME IInv, PlaceInv, OpenInv, FaultOnRest \/ EndWithoutRest \/ ReadFails \/ NoLine
  PROVE  PlaceInv'
<1>1. TypeOK /\ cur \in Fds /\ status[cur] # "closed" /\ UNCHANGED <<file, fresh, off, lines>>
  BY DEF IInv, TypeOK, OpenInv, FaultOnRest, EndWithoutRest, AtEnd, ReadFails, NoLine, caller
<1>2. InCall
  BY Zenon DEF InCall
<1>3. rest'[cur].text = rest[cur].text /\ \A fd \in Fds \ {cur} : rest'[fd] = rest[fd] /\ status'[fd] = status[fd]
  BY <1>1 DEF TypeOK, FaultOnRest, EndWithoutRest, ReadFails, NoLine, caller, NoText
<1>4. Told(cur) => /\ ReadLast(file[cur], off[cur], rest[cur].text, off[cur] - Len(rest[cur].text))
                   /\ Pieces(lines[cur], file[cur], off[cur] - Len(rest[cur].text))
  BY <1>1 DEF PlaceInv, Seen
<1> QED
  BY <1>1, <1>2, <1>3, <1>4, PlacedInCall

-----------------------------------------------------------------------------
\* So do the steps of the caller.
LEMMA CallerPlaces ==
  ASSUME IInv, PlaceInv, NEW fd \in Fds,
         OpenFile(fd) \/ CloseFile(fd) \/ Call(fd) \/ CallRefused(fd) \/ CheckFails(fd)
  PROVE  PlaceInv'
<1>1. TypeOK
  BY DEF IInv
<1>2. CASE OpenFile(fd)
  <2> SUFFICES ASSUME NEW g \in Fds, Told(g)'
               PROVE  LET seen == off'[g] - Len(rest'[g].text)
                      IN ReadLast(file'[g], off'[g], rest'[g].text, seen) /\ Pieces(lines'[g], file'[g], seen)
    BY DEF PlaceInv, Seen
  <2>1. CASE g = fd
    <3>1. rest'[fd].text = <<>> /\ off'[fd] = 0 /\ lines'[fd] = <<>>
      <4>1. fresh'[fd]
        BY <2>1 DEF Told
      <4>2. fresh' = [fresh EXCEPT ![fd] = rest[fd] = NoText] /\ fresh \in [Fds -> BOOLEAN]
        BY <1>1, <1>2 DEF OpenFile, TypeOK
      <4>3. rest[fd] = NoText
        BY Zenon, <4>1, <4>2
      <4> QED
        BY <1>1, <1>2, <4>3 DEF OpenFile, TypeOK, NoText
    <3>2. file'[fd] \in Seq(AnyChar)
      BY <1>1, <1>2, TextsAssumption DEF OpenFile, TypeOK, AnyChar
    <3>3. ReadLast(file'[fd], 0, <<>>, 0)
      <4>1. Len(file'[fd]) \in Nat /\ SubSeq(file'[fd], 1, 0) = <<>> /\ Len(<<>>) = 0
        BY <3>2, SubSeqEmpty
      <4> QED
        BY <4>1 DEF ReadLast
    <3>4. Pieces(<<>>, file'[fd], 0)
      <4>1. [n \in {} |-> 0] \in [DOMAIN <<>> -> 0 .. 0]
        OBVIOUS
      <4> QED
        BY <4>1 DEF Pieces
    <3> QED
      BY <2>1, <3>1, <3>3, <3>4
  <2>2. CASE g # fd
    <3>1. /\ file'[g] = file[g] /\ off'[g] = off[g] /\ rest' = rest /\ lines'[g] = lines[g]
          /\ fresh'[g] = fresh[g] /\ status'[g] = status[g]
      BY <1>1, <1>2, <2>2 DEF OpenFile, TypeOK
    <3>2. Told(g)
      BY <3>1 DEF Told, Zero
    <3> QED
      BY <3>1, <3>2 DEF PlaceInv, Seen
  <2> QED
    BY <2>1, <2>2
<1>3. CASE CloseFile(fd) \/ Call(fd) \/ CallRefused(fd) \/ CheckFails(fd)
  <2>1. UNCHANGED <<file, off, rest, lines, fresh>>
    BY <1>3 DEF CloseFile, Call, CallRefused, CheckFails, caller
  <2>2. \A g \in Fds : status'[g] # "closed" => status[g] # "closed"
    BY <1>1, <1>3 DEF CloseFile, Call, CallRefused, CheckFails, caller, TypeOK
  <2>3. \A g \in Fds : Told(g)' => Told(g)
    BY <2>1, <2>2 DEF Told, Zero
  <2> QED
    BY <2>1, <2>3 DEF PlaceInv, Seen
<1> QED
  BY <1>2, <1>3

\* A call is for a descriptor whose caller waits for a line.
LEMMA OpenStep ==
  ASSUME TypeOK, OpenInv, [Next]_vars
  PROVE  OpenInv'
<1>1. ASSUME NEW fd \in Fds, OpenFile(fd) \/ CloseFile(fd) \/ Call(fd) \/ CallRefused(fd) \/ CheckFails(fd)
      PROVE  OpenInv'
  BY <1>1 DEF OpenInv, OpenFile, CloseFile, Call, CallRefused, CheckFails, caller
<1>2. CASE InCall
  <2>1. pc \in {"read", "manage"} /\ cur' = cur
    BY <1>2 DEF InCall, FaultOnRest, ReadSome, EndWithRest, EndWithoutRest, CutLine, PartLine, NoLine,
                ReadFails, ReadUnstored, EndUnstored, CutUnstored, PartUnstored, AtEnd
  <2>2. pc' \in {"read", "manage"} => status' = status
    BY <1>2 DEF InCall, FaultOnRest, ReadSome, EndWithRest, EndWithoutRest, CutLine, PartLine, NoLine,
                ReadFails, ReadUnstored, EndUnstored, CutUnstored, PartUnstored, caller
  <2> QED
    BY <2>1, <2>2 DEF OpenInv
<1>3. CASE UNCHANGED vars
  BY <1>3 DEF vars, OpenInv
<1> QED
  BY <1>1, <1>2, <1>3 DEF Next

\* The lines and the rest always have places in the file, one behind the
\* other.
LEMMA PlacesHold == Spec => [](PlaceInv /\ OpenInv)
<1>1. Init => PlaceInv /\ OpenInv
  BY DEF Init, PlaceInv, OpenInv, Told
<1>2. ASSUME IInv, PlaceInv, OpenInv, [Next]_vars
      PROVE  PlaceInv' /\ OpenInv'
  <2>1. OpenInv'
    BY <1>2, OpenStep DEF IInv
  <2>2. CASE \E fd \in Fds :
               OpenFile(fd) \/ CloseFile(fd) \/ Call(fd) \/ CallRefused(fd) \/ CheckFails(fd)
    BY <1>2, <2>1, <2>2, CallerPlaces
  <2>3. CASE InCall
    BY <1>2, <2>1, <2>3, ReadPlaces, LinePlaces, QuietPlaces DEF InCall
  <2>4. CASE UNCHANGED vars
    BY <1>2, <2>1, <2>4 DEF vars, PlaceInv, Told, Zero, Seen
  <2> QED
    BY <1>2, <2>2, <2>3, <2>4 DEF Next
<1> QED
  BY <1>1, <1>2, InvHolds, PTL DEF Spec

\* Failures lose text but invent none: whatever has failed, the lines handed out
\* since the opening are pieces of the file, one behind the other, each with its
\* line feed.
THEOREM PiecesAreInOrder == Spec => []PiecesInOrder
<1>1. IInv /\ PlaceInv => PiecesInOrder
  <2> SUFFICES ASSUME IInv, PlaceInv, NEW fd \in Fds, Told(fd)
               PROVE  Pieces(lines[fd], file[fd], off[fd])
    BY DEF PiecesInOrder, Told, Pieces
  <2>1. lines[fd] \in Seq(Handed) /\ rest[fd].text \in Seq(Plain)
    BY DEF IInv, TypeOK
  <2>2. Seen(fd) \in Nat /\ off[fd] \in Nat /\ Seen(fd) <= off[fd]
    BY <2>1 DEF PlaceInv, ReadLast
  <2> QED
    BY <2>1, <2>2, PiecesLater DEF PlaceInv
<1> QED
  BY <1>1, InvHolds, PlacesHold, PTL

-----------------------------------------------------------------------------
\* What was delivered, line by line.  Of a clean file without a zero byte it is,
\* with the rest, all that was read (WholeInv); a caller that got its 0 has seen
\* the end of the file unless something failed (EndedInv).
Joins(ls, d) == d = [n \in 0 .. Len(ls) |-> IF n = 0 THEN <<>> ELSE d[n - 1] \o TextOf(ls[n])]
JoinOf(ls) == CHOOSE d : Joins(ls, d)
AllOf(ls) == JoinOf(ls)[Len(ls)]

Sure(fd) == clean[fd] /\ status[fd] # "closed" /\ ~Zero(fd)
WholeInv ==
  \A fd \in Fds : Sure(fd) => AllOf(lines[fd]) \o rest[fd].text = SubSeq(file[fd], 1, off[fd])
AtItsEnd(fd) == off[fd] = Len(file[fd]) /\ rest[fd].text = <<>>
EndedInv ==
  failures = 0 =>
    /\ pc = "manage" /\ rest[cur].text = <<>> => AtItsEnd(cur)
    /\ \A fd \in Fds : status[fd] = "ended" /\ fd < TableSize => AtItsEnd(fd)

\* What has been handed out is the text of all lines, joined.
LEMMA DeliveredIsAll == \A fd : Delivered(fd) = AllOf(lines[fd])
BY DEF Delivered, AllOf, JoinOf, Joins

\* Joining n lines is joining the first n - 1 and appending the last.
LEMMA JoinFacts ==
  ASSUME NEW ls \in Seq(Handed)
  PROVE  /\ JoinOf(ls)[0] = <<>>
         /\ \A n \in 1 .. Len(ls) : JoinOf(ls)[n] = JoinOf(ls)[n - 1] \o TextOf(ls[n])
         /\ \A n \in 0 .. Len(ls) : JoinOf(ls)[n] \in Seq(Plain)
<1> DEFINE N == Len(ls)
           D == Seq(Plain)
           F == [x \in (1 .. N) \X D |-> x[2] \o TextOf(ls[x[1]])]
           before == [n \in 1 .. N |-> n - 1]
           d == JoinOf(ls)
<1>1. N \in Nat /\ <<>> \in D /\ (\A n \in 1 .. N : TextOf(ls[n]) \in D) /\ \A s, t \in D : s \o t \in D
  BY TextOfType
<1>2. \A f : Joins(ls, f) <=> f = [n \in 0 .. N |-> IF n = 0 THEN <<>> ELSE f[n - 1] \o TextOf(ls[n])]
  BY DEF Joins
<1> HIDE DEF N, D, before
<1>3. F \in [(1 .. N) \X D -> D]
  BY <1>1
<1>4. \A n \in 1 .. N, t \in D : F[<<n, t>>] = t \o TextOf(ls[n])
  OBVIOUS
<1> HIDE DEF F
<1>5. Recursive(D, <<>>, N, before, F)
  <2>1. before \in [1 .. N -> Nat] /\ \A n \in 1 .. N : before[n] < n
    BY <1>1 DEF before
  <2> QED
    BY <1>1, <1>3, <2>1, Recursion
<1>6. PICK f \in [0 .. N -> D] : f[0] = <<>> /\ \A n \in 1 .. N : f[n] = F[<<n, f[n - 1]>>]
  BY <1>5 DEF Recursive, Follows, before
<1>7. \A n \in 0 .. N : f[n] = IF n = 0 THEN <<>> ELSE f[n - 1] \o TextOf(ls[n])
  <2> SUFFICES ASSUME NEW n \in 0 .. N, n # 0
               PROVE  f[n] = f[n - 1] \o TextOf(ls[n])
    BY <1>6
  <2>1. n \in 1 .. N /\ n - 1 \in 0 .. N
    BY <1>1
  <2>2. f[n - 1] \in D
    BY <2>1
  <2> QED
    BY <1>4, <1>6, <2>1, <2>2
<1>8. Joins(ls, f)
  BY <1>2, <1>7
<1>9. Joins(ls, d)
  BY <1>8 DEF JoinOf
<1> HIDE DEF d
<1>10. \A n \in 0 .. N : d[n] = IF n = 0 THEN <<>> ELSE d[n - 1] \o TextOf(ls[n])
  BY <1>2, <1>9
<1>11. d[0] = <<>> /\ \A n \in 1 .. N : d[n] = d[n - 1] \o TextOf(ls[n])
  <2>1. 0 \in 0 .. N /\ \A n \in 1 .. N : n \in 0 .. N /\ n # 0
    BY <1>1
  <2> QED
    BY <1>10, <2>1
<1>12. \A n \in 0 .. N : d[n] \in D
  <2> DEFINE P == {n \in 0 .. N : d[n] \in D}
  <2>1. 0 \in P
    <3>1. 0 \in 0 .. N
      BY <1>1
    <3> QED
      BY <1>1, <1>11, <3>1
  <2>2. ASSUME NEW n \in 0 .. N - 1, n \in P
        PROVE  n + 1 \in P
    <3>1. n + 1 \in 1 .. N /\ n + 1 \in 0 .. N /\ (n + 1) - 1 = n
      BY <1>1
    <3>2. d[n + 1] = d[n] \o TextOf(ls[n + 1])
      BY <1>11, <3>1
    <3>3. d[n] \in D
      BY <2>2
    <3> QED
      BY <1>1, <3>1, <3>2, <3>3
  <2>3. \A n \in 0 .. N : n \in P
    <3> HIDE DEF P
    <3> QED
      BY <1>1, <2>1, <2>2, Induct
  <2> QED
    BY <2>3
<1> QED
  BY <1>11, <1>12 DEF d, N, D

\* One line more is one text more.
LEMMA AllOfAppend ==
  ASSUME NEW ls \in Seq(Handed), NEW l \in Handed
  PROVE  /\ AllOf(ls) \in Seq(Plain)
         /\ AllOf(Append(ls, l)) = AllOf(ls) \o TextOf(l)
<1> DEFINE N    == Len(ls)
           more == Append(ls, l)
           d    == JoinOf(ls)
           e    == JoinOf(more)
<1>1. N \in Nat /\ more \in Seq(Handed) /\ Len(more) = N + 1 /\ more[N + 1] = l
      /\ \A n \in 1 .. N : more[n] = ls[n]
  OBVIOUS
<1>2. /\ d[0] = <<>> /\ \A n \in 1 .. N : d[n] = d[n - 1] \o TextOf(ls[n])
      /\ \A n \in 0 .. N : d[n] \in Seq(Plain)
  BY JoinFacts
<1>3. /\ e[0] = <<>> /\ \A n \in 1 .. N + 1 : e[n] = e[n - 1] \o TextOf(more[n])
  BY <1>1, JoinFacts
<1> HIDE DEF d, e, more, N
<1>4. \A n \in 0 .. N : d[n] = e[n]
  <2> DEFINE P == {n \in 0 .. N : d[n] = e[n]}
  <2>1. 0 \in P
    BY <1>1, <1>2, <1>3
  <2>2. ASSUME NEW n \in 0 .. N - 1, n \in P
        PROVE  n + 1 \in P
    <3>1. n + 1 \in 1 .. N /\ n + 1 \in 1 .. N + 1 /\ n + 1 \in 0 .. N /\ (n + 1) - 1 = n
      BY <1>1
    <3>2. d[n + 1] = d[n] \o TextOf(ls[n + 1]) /\ e[n + 1] = e[n] \o TextOf(ls[n + 1])
      BY <1>1, <1>2, <1>3, <3>1
    <3>3. d[n] = e[n]
      BY <2>2
    <3> QED
      BY <3>1, <3>2, <3>3
  <2>3. \A n \in 0 .. N : n \in P
    <3> HIDE DEF P
    <3> QED
      BY <1>1, <2>1, <2>2, Induct
  <2> QED
    BY <2>3
<1>5. e[N + 1] = e[N] \o TextOf(l)
  <2>1. N + 1 \in 1 .. N + 1 /\ (N + 1) - 1 = N
    BY <1>1
  <2> QED
    BY <1>1, <1>3, <2>1
<1>6. e[N] = d[N] /\ d[N] \in Seq(Plain)
  BY <1>1, <1>2, <1>4
<1> QED
  BY <1>1, <1>5, <1>6 DEF AllOf, d, e, more, N

\* The call for cur keeps what holds of the others.
LEMMA WholeInCall ==
  ASSUME TypeOK, WholeInv, UNCHANGED file,
         \A fd \in Fds : clean'[fd] => clean[fd],
         \A fd \in Fds : status'[fd] # "closed" => status[fd] # "closed",
         \A fd \in Fds \ {cur} : off'[fd] = off[fd] /\ rest'[fd] = rest[fd] /\ lines'[fd] = lines[fd],
         Sure(cur) /\ clean'[cur] =>
           AllOf(lines'[cur]) \o rest'[cur].text = SubSeq(file[cur], 1, off'[cur])
  PROVE  WholeInv'
<1> SUFFICES ASSUME NEW fd \in Fds, Sure(fd)'
             PROVE  AllOf(lines'[fd]) \o rest'[fd].text = SubSeq(file[fd], 1, off'[fd])
  BY DEF WholeInv
<1>1. Sure(fd) /\ clean'[fd]
  BY DEF Sure, Zero
<1>2. CASE fd = cur
  BY <1>1, <1>2
<1>3. CASE fd # cur
  BY <1>1, <1>3 DEF WholeInv
<1> QED
  BY <1>2, <1>3

\* The text of all lines is a text.
LEMMA AllOfType ==
  ASSUME NEW ls \in Seq(Handed)
  PROVE  AllOf(ls) \in Seq(Plain)
<1>1. Len(ls) \in 0 .. Len(ls)
  OBVIOUS
<1> QED
  BY <1>1, JoinFacts DEF AllOf

\* A text in two parts is the parts, and they join behind any other.
LEMMA TwoParts ==
  ASSUME NEW S, NEW t \in Seq(S), NEW k \in 1 .. Len(t), NEW a \in Seq(S)
  PROVE  (a \o SubSeq(t, 1, k)) \o SubSeq(t, k + 1, Len(t)) = a \o t
<1> DEFINE b == SubSeq(t, 1, k)
           c == SubSeq(t, k + 1, Len(t))
<1>1. b \o c = t
  <2>1. 1 \in 1 .. Len(t) + 1 /\ k \in 1 - 1 .. Len(t) /\ Len(t) \in k .. Len(t)
    OBVIOUS
  <2>2. SubSeq(t, 1, k) \o SubSeq(t, k + 1, Len(t)) = SubSeq(t, 1, Len(t))
    BY <2>1, ConcatAdjacentSubSeq
  <2> QED
    BY <2>2, SubSeqFull
<1>2. b \in Seq(S) /\ c \in Seq(S)
  OBVIOUS
<1> HIDE DEF b, c
<1>3. (a \o b) \o c = a \o (b \o c)
  BY <1>2, SMT
<1> QED
  BY <1>1, <1>3 DEF b, c

\* What is read behind a text that was read is read with it.
LEMMA ReadBehind ==
  ASSUME NEW f \in Seq(AnyChar), NEW o \in Nat, NEW n \in Nat, o + n <= Len(f),
         NEW a \in Seq(AnyChar), NEW t \in Seq(AnyChar)
  PROVE  LET chunk == SubSeq(f, o + 1, o + n)
         IN a \o t = SubSeq(f, 1, o) => a \o (t \o chunk) = SubSeq(f, 1, o + n)
<1> DEFINE chunk == SubSeq(f, o + 1, o + n)
<1>1. chunk \in Seq(AnyChar)
  OBVIOUS
<1>2. SubSeq(f, 1, o) \o chunk = SubSeq(f, 1, o + n)
  <2>1. 1 \in 1 .. Len(f) + 1 /\ o \in 1 - 1 .. Len(f) /\ o + n \in o .. Len(f)
    OBVIOUS
  <2> QED
    BY <2>1, ConcatAdjacentSubSeq
<1> HIDE DEF chunk
<1>3. (a \o t) \o chunk = a \o (t \o chunk)
  BY <1>1, SMT
<1> QED
  BY <1>2, <1>3 DEF chunk

\* A read makes the rest longer by what is read.
LEMMA ReadWhole ==
  ASSUME IInv, WholeInv, OpenInv, ReadSome
  PROVE  WholeInv'
<1>1. PICK n \in 1 .. BUFF_SIZE :
        /\ off[cur] + n <= Len(file[cur]) /\ off' = [off EXCEPT ![cur] = @ + n]
        /\ rest' = [rest EXCEPT ![cur] = Pointing(
                      Joined(rest[cur].text, SubSeq(file[cur], off[cur] + 1, off[cur] + n)))]
  BY DEF ReadSome
<1>2. TypeOK /\ n \in Nat /\ cur \in Fds
  BY SizesAssumption DEF IInv, TypeOK
<1>3. UNCHANGED <<file, lines, status, clean>>
  BY DEF ReadSome, caller
<1>4. \A fd \in Fds \ {cur} : off'[fd] = off[fd] /\ rest'[fd] = rest[fd] /\ lines'[fd] = lines[fd]
  BY <1>1, <1>2, <1>3 DEF TypeOK
<1>5. ASSUME Sure(cur)
      PROVE  AllOf(lines'[cur]) \o rest'[cur].text = SubSeq(file[cur], 1, off'[cur])
  <2> DEFINE f == file[cur]
             o == off[cur]
             t == rest[cur].text
             a == AllOf(lines[cur])
  <2>1. /\ f \in Seq(AnyChar) /\ o \in Nat /\ t \in Seq(Plain) /\ lines[cur] \in Seq(Handed)
        /\ Seq(Plain) \subseteq Seq(AnyChar)
    BY <1>2, FileText DEF TypeOK, Plain, AnyChar
  <2>2. t \in Seq(AnyChar) /\ a \in Seq(AnyChar)
    BY <2>1, AllOfType
  <2>3. \A k \in 1 .. Len(f) : f[k] # NUL
    BY <1>5, <2>1 DEF Sure, Zero
  <2>4. a \o t = SubSeq(f, 1, o)
    BY <1>2, <1>5 DEF WholeInv
  <2>5. off'[cur] = o + n /\ o + n <= Len(f) /\ lines'[cur] = lines[cur]
    BY <1>1, <1>2, <1>3 DEF TypeOK
  <2>6. rest'[cur].text = Joined(t, SubSeq(f, o + 1, o + n))
    BY <1>1, <1>2 DEF TypeOK, Pointing
  <2> HIDE DEF f, o, t, a
  <2>7. \A rst : Joined(rst, SubSeq(f, o + 1, o + n)) = rst \o SubSeq(f, o + 1, o + n)
    BY <1>2, <2>1, <2>3, <2>5, JoinedAll
  <2>8. rest'[cur].text = t \o SubSeq(f, o + 1, o + n)
    BY <2>6, <2>7
  <2>9. a \o (t \o SubSeq(f, o + 1, o + n)) = SubSeq(f, 1, o + n)
    <3>1. \A x, y \in Seq(AnyChar) :
            x \o y = SubSeq(f, 1, o) => x \o (y \o SubSeq(f, o + 1, o + n)) = SubSeq(f, 1, o + n)
      BY <1>2, <2>1, <2>5, ReadBehind
    <3> QED
      BY <2>2, <2>4, <3>1
  <2> QED
    BY <2>5, <2>8, <2>9 DEF f, a
<1> QED
  BY <1>2, <1>3, <1>4, <1>5, WholeInCall

\* Handing out a line moves its text from the rest to the lines.
LEMMA LineWhole ==
  ASSUME IInv, WholeInv, OpenInv, EndWithRest \/ CutLine \/ PartLine
  PROVE  WholeInv'
<1> DEFINE t == rest[cur].text
           k == LineFeed(t)
<1>1. TypeOK /\ cur \in Fds /\ t \in Seq(Plain) /\ lines[cur] \in Seq(Handed)
  BY DEF IInv, TypeOK
<1>2. UNCHANGED <<file, status, off, clean>>
  BY DEF EndWithRest, CutLine, PartLine, caller
<1>3. PICK l \in Handed :
        /\ lines' = [lines EXCEPT ![cur] = Append(lines[cur], l)]
        /\ \E m \in 1 .. Len(t) :
             /\ TextOf(l) = SubSeq(t, 1, m)
             /\ \E left \in {NoText, Freed, Pointing(SubSeq(t, m + 1, Len(t)))} :
                  /\ left.text = SubSeq(t, m + 1, Len(t))
                  /\ rest' = [rest EXCEPT ![cur] = left]
  <2>1. CASE EndWithRest \/ PartLine
    <3>1. PICK how \in {"end", "part"} : Hand(t, how)
      BY <2>1 DEF EndWithRest, PartLine
    <3> DEFINE l == [line |-> t, how |-> how]
    <3>2. l \in Handed /\ TextOf(l) = t
      BY <1>1 DEF Handed, TextOf
    <3>3. lines' = [lines EXCEPT ![cur] = Append(lines[cur], l)]
      BY <3>1 DEF Hand
    <3>4. t # <<>>
      BY <2>1 DEF EndWithRest, PartLine
    <3>5. Len(t) \in 1 .. Len(t) /\ t = SubSeq(t, 1, Len(t)) /\ SubSeq(t, Len(t) + 1, Len(t)) = <<>>
      BY <1>1, <3>4, SubSeqFull, SubSeqEmpty
    <3>6. PICK left \in {NoText, Freed} : rest' = [rest EXCEPT ![cur] = left]
      BY <2>1 DEF EndWithRest, PartLine
    <3>7. left.text = <<>>
      BY DEF NoText, Freed
    <3> HIDE DEF l, t
    <3> QED
      BY <3>2, <3>3, <3>5, <3>6, <3>7
  <2>2. CASE CutLine
    <3> DEFINE l == [line |-> SubSeq(t, 1, k - 1), how |-> "feed"]
    <3>1. k \in 1 .. Len(t) /\ l \in Handed /\ TextOf(l) = SubSeq(t, 1, k)
      BY <1>1, <2>2, LineOfRest DEF CutLine
    <3>2. /\ lines' = [lines EXCEPT ![cur] = Append(lines[cur], l)]
          /\ rest' = [rest EXCEPT ![cur] = Pointing(SubSeq(t, k + 1, Len(t)))]
      BY <2>2 DEF CutLine, Hand, AfterFeed
    <3>3. Pointing(SubSeq(t, k + 1, Len(t))).text = SubSeq(t, k + 1, Len(t))
      BY DEF Pointing
    <3> HIDE DEF l, t, k
    <3> QED
      BY <3>1, <3>2, <3>3
  <2> QED
    BY <2>1, <2>2
<1>4. \A fd \in Fds \ {cur} : off'[fd] = off[fd] /\ rest'[fd] = rest[fd] /\ lines'[fd] = lines[fd]
  BY <1>1, <1>2, <1>3 DEF TypeOK
<1>5. ASSUME Sure(cur)
      PROVE  AllOf(lines'[cur]) \o rest'[cur].text = SubSeq(file[cur], 1, off'[cur])
  <2> DEFINE a == AllOf(lines[cur])
  <2>1. PICK m \in 1 .. Len(t) :
             /\ TextOf(l) = SubSeq(t, 1, m)
             /\ \E left \in {NoText, Freed, Pointing(SubSeq(t, m + 1, Len(t)))} :
                  /\ left.text = SubSeq(t, m + 1, Len(t))
                  /\ rest' = [rest EXCEPT ![cur] = left]
    BY <1>3
  <2>2. rest'[cur].text = SubSeq(t, m + 1, Len(t))
    BY <1>1, <2>1 DEF TypeOK
  <2>3. a \o t = SubSeq(file[cur], 1, off[cur])
    BY <1>1, <1>5 DEF WholeInv
  <2>4. off'[cur] = off[cur] /\ lines'[cur] = Append(lines[cur], l)
    BY <1>1, <1>2, <1>3 DEF TypeOK
  <2>5. a \in Seq(Plain) /\ AllOf(Append(lines[cur], l)) = a \o TextOf(l)
    BY <1>1, AllOfType, AllOfAppend
  <2> HIDE DEF a, t
  <2>6. (a \o SubSeq(t, 1, m)) \o SubSeq(t, m + 1, Len(t)) = a \o t
    BY <1>1, <2>5, TwoParts
  <2> QED
    BY <2>1, <2>2, <2>3, <2>4, <2>5, <2>6
<1> QED
  BY <1>1, <1>2, <1>4, <1>5, WholeInCall

\* A step that fails leaves nothing sure of its descriptor, and the others leave
\* the rest as it is.
LEMMA OtherWhole ==
  ASSUME IInv, WholeInv, OpenInv,
         \/ FaultOnRest \/ EndWithoutRest \/ ReadFails \/ NoLine
         \/ ReadUnstored \/ EndUnstored \/ CutUnstored \/ PartUnstored
  PROVE  WholeInv'
<1>1. TypeOK /\ cur \in Fds
  BY DEF IInv, TypeOK
<1>2. UNCHANGED file
  BY DEF FaultOnRest, EndWithoutRest, ReadFails, NoLine, ReadUnstored, EndUnstored, CutUnstored,
         PartUnstored, caller
<1>3. CASE FaultOnRest \/ EndWithoutRest \/ ReadFails \/ NoLine
  <2>1. UNCHANGED <<off, lines>> /\ rest'[cur].text = rest[cur].text
        /\ \A fd \in Fds \ {cur} : rest'[fd] = rest[fd]
    BY <1>1, <1>3 DEF FaultOnRest, EndWithoutRest, ReadFails, NoLine, TypeOK, NoText
  <2>2. \A fd \in Fds : status'[fd] # "closed" => status[fd] # "closed"
    BY <1>1, <1>3 DEF FaultOnRest, EndWithoutRest, ReadFails, NoLine, TypeOK, caller, OpenInv
  <2>3. \A fd \in Fds : clean'[fd] => clean[fd]
    BY <1>1, <1>3 DEF FaultOnRest, EndWithoutRest, ReadFails, NoLine, Fails, TypeOK
  <2>4. Sure(cur) => AllOf(lines'[cur]) \o rest'[cur].text = SubSeq(file[cur], 1, off'[cur])
    BY <1>1, <2>1 DEF WholeInv
  <2> QED
    BY <1>1, <1>2, <2>1, <2>2, <2>3, <2>4, WholeInCall
<1>4. CASE ReadUnstored \/ EndUnstored \/ CutUnstored \/ PartUnstored
  <2>1. clean' = [clean EXCEPT ![cur] = FALSE] /\ status' = status
    BY <1>4 DEF ReadUnstored, EndUnstored, CutUnstored, PartUnstored, Fails, caller
  <2>2. ~clean'[cur] /\ \A fd \in Fds \ {cur} : clean'[fd] = clean[fd]
    BY <1>1, <2>1, Zenon DEF TypeOK
  <2>3. \A fd \in Fds \ {cur} : off'[fd] = off[fd] /\ rest'[fd] = rest[fd] /\ lines'[fd] = lines[fd]
    BY <1>1, <1>4 DEF ReadUnstored, EndUnstored, CutUnstored, PartUnstored, Hand, TypeOK
  <2> QED
    BY <1>1, <1>2, <2>1, <2>2, <2>3, WholeInCall
<1> QED
  BY <1>3, <1>4

\* What the caller does with a descriptor loses no text.
LEMMA CallerWhole ==
  ASSUME IInv, WholeInv, NEW fd \in Fds,
         OpenFile(fd) \/ CloseFile(fd) \/ Call(fd) \/ CallRefused(fd) \/ CheckFails(fd)
  PROVE  WholeInv'
<1>1. TypeOK
  BY DEF IInv
<1>2. CASE OpenFile(fd)
  <2> SUFFICES ASSUME NEW g \in Fds, Sure(g)'
               PROVE  AllOf(lines'[g]) \o rest'[g].text = SubSeq(file'[g], 1, off'[g])
    BY DEF WholeInv
  <2>1. CASE g = fd
    <3>1. clean'[fd]
      BY <2>1 DEF Sure
    <3>2. clean' = [clean EXCEPT ![fd] = rest[fd] = NoText] /\ clean \in [Fds -> BOOLEAN]
      BY <1>1, <1>2 DEF OpenFile, TypeOK
    <3>3. rest[fd] = NoText
      BY Zenon, <3>1, <3>2
    <3>4. rest'[fd].text = <<>> /\ off'[fd] = 0 /\ lines'[fd] = <<>>
      BY <1>1, <1>2, <3>3 DEF OpenFile, TypeOK, NoText
    <3>5. AllOf(<<>>) = <<>>
      <4>1. <<>> \in Seq(Handed) /\ Len(<<>>) = 0
        OBVIOUS
      <4> QED
        BY <4>1, JoinFacts DEF AllOf
    <3>6. file'[fd] \in Seq(AnyChar)
      BY <1>1, <1>2, TextsAssumption DEF OpenFile, TypeOK, AnyChar
    <3>7. SubSeq(file'[fd], 1, 0) = <<>>
      BY <3>6, SubSeqEmpty
    <3>8. <<>> \o <<>> = <<>>
      OBVIOUS
    <3> QED
      BY <2>1, <3>4, <3>5, <3>7, <3>8
  <2>2. CASE g # fd
    <3>1. /\ file'[g] = file[g] /\ off'[g] = off[g] /\ rest' = rest /\ lines'[g] = lines[g]
          /\ clean'[g] = clean[g] /\ status'[g] = status[g]
      BY <1>1, <1>2, <2>2 DEF OpenFile, TypeOK
    <3>2. Sure(g)
      BY <3>1 DEF Sure, Zero
    <3> QED
      BY <3>1, <3>2 DEF WholeInv
  <2> QED
    BY <2>1, <2>2
<1>3. CASE CloseFile(fd) \/ Call(fd) \/ CallRefused(fd) \/ CheckFails(fd)
  <2>1. UNCHANGED <<file, off, rest, lines, clean>>
    BY <1>3 DEF CloseFile, Call, CallRefused, CheckFails, caller
  <2>2. \A g \in Fds : status'[g] # "closed" => status[g] # "closed"
    BY <1>1, <1>3 DEF CloseFile, Call, CallRefused, CheckFails, caller, TypeOK
  <2>3. \A g \in Fds : Sure(g)' => Sure(g)
    BY <2>1, <2>2 DEF Sure, Zero
  <2> QED
    BY <2>1, <2>3 DEF WholeInv
<1> QED
  BY <1>2, <1>3

-----------------------------------------------------------------------------
\* Where a call returns 0 and nothing has failed the file is read to its end.
LEMMA EndedInCall ==
  ASSUME IInv, EndedInv, OpenInv, InCall
  PROVE  EndedInv'
<1>1. /\ TypeOK /\ cur \in Fds /\ status[cur] = "open" /\ UNCHANGED <<file, cur>> /\ failures \in Nat
      /\ failures' \in {failures, failures + 1}
  <2>1. pc \in {"read", "manage"}
    BY DEF InCall, FaultOnRest, ReadSome, EndWithRest, EndWithoutRest, CutLine, PartLine, NoLine,
           ReadFails, ReadUnstored, EndUnstored, CutUnstored, PartUnstored, AtEnd
  <2>2. UNCHANGED <<file, cur>> /\ failures' \in {failures, failures + 1}
    BY DEF InCall, FaultOnRest, ReadSome, EndWithRest, EndWithoutRest, CutLine, PartLine, NoLine,
           ReadFails, ReadUnstored, EndUnstored, CutUnstored, PartUnstored, Fails, caller
  <2> QED
    BY <2>1, <2>2 DEF IInv, TypeOK, OpenInv
<1> SUFFICES ASSUME failures' = 0
             PROVE  /\ pc' = "manage" /\ rest'[cur].text = <<>> => off'[cur] = Len(file[cur])
                    /\ \A fd \in Fds : status'[fd] = "ended" /\ fd < TableSize =>
                         off'[fd] = Len(file[fd]) /\ rest'[fd].text = <<>>
  BY <1>1 DEF EndedInv, AtItsEnd
<1>2. failures = 0 /\ failures' = failures
  BY <1>1
<1>3. ~Fails
  BY <1>2 DEF Fails
<1>4. /\ pc = "manage" /\ rest[cur].text = <<>> => off[cur] = Len(file[cur])
      /\ \A fd \in Fds : status[fd] = "ended" /\ fd < TableSize =>
           off[fd] = Len(file[fd]) /\ rest[fd].text = <<>>
  BY <1>2 DEF EndedInv, AtItsEnd
<1>5. FaultOnRest \/ ReadSome \/ EndWithRest \/ EndWithoutRest \/ CutLine \/ PartLine \/ NoLine
  BY <1>3 DEF InCall, ReadFails, ReadUnstored, EndUnstored, CutUnstored, PartUnstored
<1>6. \A fd \in Fds \ {cur} : off'[fd] = off[fd] /\ rest'[fd] = rest[fd] /\ status'[fd] = status[fd]
  BY <1>1, <1>5 DEF FaultOnRest, ReadSome, EndWithRest, EndWithoutRest, CutLine, PartLine, NoLine,
                    caller, TypeOK
<1>7. pc' = "manage" /\ rest'[cur].text = <<>> => off'[cur] = Len(file[cur])
  <2>1. CASE ReadSome
    <3>1. PICK n \in 1 .. BUFF_SIZE :
            LET new == Joined(rest[cur].text, SubSeq(file[cur], off[cur] + 1, off[cur] + n))
            IN /\ rest' = [rest EXCEPT ![cur] = Pointing(new)]
               /\ pc' = IF LineFeed(new) # 0 THEN "manage" ELSE "read"
      BY <2>1 DEF ReadSome
    <3> DEFINE new == Joined(rest[cur].text, SubSeq(file[cur], off[cur] + 1, off[cur] + n))
    <3>2. rest'[cur].text = new /\ pc' = IF LineFeed(new) # 0 THEN "manage" ELSE "read"
      BY <1>1, <3>1 DEF TypeOK, Pointing
    <3> HIDE DEF new
    <3>3. new = <<>> => LineFeed(new) = 0
      BY DEF LineFeed
    <3> QED
      BY <3>2, <3>3
  <2>2. CASE EndWithoutRest
    BY <2>2 DEF EndWithoutRest, AtEnd
  <2>3. CASE ~ReadSome /\ ~EndWithoutRest
    BY <1>5, <2>3 DEF FaultOnRest, EndWithRest, CutLine, PartLine, NoLine
  <2> QED
    BY <2>1, <2>2, <2>3
<1>8. status'[cur] = "ended" => off'[cur] = Len(file[cur]) /\ rest'[cur].text = <<>>
  <2>1. CASE NoLine
    BY <1>1, <1>4, <2>1 DEF NoLine, NoText, TypeOK
  <2>2. CASE ~NoLine
    BY <1>1, <1>5, <2>2 DEF FaultOnRest, ReadSome, EndWithRest, EndWithoutRest, CutLine, PartLine, caller
  <2> QED
    BY <2>1, <2>2
<1> QED
  BY <1>4, <1>6, <1>7, <1>8

\* Nor does it bring text back to a descriptor at the end.
LEMMA EndedByCaller ==
  ASSUME IInv, EndedInv, NEW fd \in Fds,
         OpenFile(fd) \/ CloseFile(fd) \/ Call(fd) \/ CallRefused(fd) \/ CheckFails(fd)
  PROVE  EndedInv'
<1>1. TypeOK /\ failures \in Nat /\ fd \in Nat /\ TableSize \in Nat
  <2>1. TypeOK
    BY DEF IInv
  <2>2. failures \in Nat
    BY <2>1 DEF TypeOK
  <2> QED
    BY <2>1, <2>2, FdsAssumption
<1>2. CASE CheckFails(fd)
  <2>1. failures' # 0
    BY <1>1, <1>2 DEF CheckFails
  <2> QED
    BY <2>1 DEF EndedInv
<1>3. CASE ~CheckFails(fd)
  <2>1. failures' = failures /\ pc' # "manage"
    BY <1>3 DEF OpenFile, CloseFile, Call, CallRefused, caller
  <2>2. ASSUME NEW g \in Fds, status'[g] = "ended", g < TableSize
        PROVE  /\ status[g] = "ended" /\ file'[g] = file[g] /\ off'[g] = off[g] /\ rest'[g] = rest[g]
    BY <1>1, <1>3, <2>2, SMTT(30) DEF OpenFile, CloseFile, Call, CallRefused, Refused, caller, TypeOK
  <2> QED
    BY <2>1, <2>2 DEF EndedInv, AtItsEnd
<1> QED
  BY <1>2, <1>3

\* Lines and rest are the text read so far where no call has failed, and a
\* descriptor at the end has nothing left.
LEMMA WholeHolds == Spec => [](WholeInv /\ EndedInv)
<1>1. Init => WholeInv /\ EndedInv
  BY DEF Init, WholeInv, EndedInv, Sure
<1>2. ASSUME IInv, OpenInv, WholeInv, EndedInv, [Next]_vars
      PROVE  WholeInv' /\ EndedInv'
  <2>1. CASE \E fd \in Fds :
               OpenFile(fd) \/ CloseFile(fd) \/ Call(fd) \/ CallRefused(fd) \/ CheckFails(fd)
    BY <1>2, <2>1, CallerWhole, EndedByCaller
  <2>2. CASE InCall
    <3>1. WholeInv'
      BY <1>2, <2>2, ReadWhole, LineWhole, OtherWhole DEF InCall
    <3> QED
      BY <1>2, <2>2, <3>1, EndedInCall
  <2>3. CASE UNCHANGED vars
    BY <1>2, <2>3 DEF vars, WholeInv, EndedInv, AtItsEnd, Sure, Zero
  <2> QED
    BY <1>2, <2>1, <2>2, <2>3 DEF Next
<1> QED
  BY <1>1, <1>2, InvHolds, PlacesHold, PTL DEF Spec

\* Whatever the sizes of the reads and however the calls for several files
\* alternate, the lines handed out so far and the rest are the text read so far,
\* and with the 0 the caller has had all of the file: nothing is lost, doubled or
\* taken from another file.
THEOREM NothingLost == Spec => []Lossless
<1>1. IInv /\ WholeInv /\ EndedInv => Lossless
  <2> SUFFICES ASSUME IInv, WholeInv, EndedInv, NEW fd \in Fds, Sure(fd)
               PROVE  /\ AllOf(lines[fd]) \o rest[fd].text = SubSeq(file[fd], 1, off[fd])
                      /\ status[fd] = "ended" /\ failures = 0 /\ fd < TableSize =>
                           AllOf(lines[fd]) = file[fd]
    BY DeliveredIsAll DEF Lossless, Sure
  <2>1. AllOf(lines[fd]) \o rest[fd].text = SubSeq(file[fd], 1, off[fd])
    BY DEF WholeInv
  <2>2. ASSUME status[fd] = "ended", failures = 0, fd < TableSize
        PROVE  AllOf(lines[fd]) = file[fd]
    <3>1. off[fd] = Len(file[fd]) /\ rest[fd].text = <<>>
      BY <2>2 DEF EndedInv, AtItsEnd
    <3>2. AllOf(lines[fd]) \in Seq(Plain) /\ file[fd] \in Seq(AnyChar)
      BY AllOfType, FileText DEF IInv, TypeOK
    <3>3. AllOf(lines[fd]) \o <<>> = AllOf(lines[fd]) /\ SubSeq(file[fd], 1, Len(file[fd])) = file[fd]
      BY <3>2, SubSeqFull
    <3> QED
      BY <2>1, <3>1, <3>3
  <2> QED
    BY <2>1, <2>2
<1> QED
  BY <1>1, InvHolds, WholeHolds, PTL
=============================================================================
