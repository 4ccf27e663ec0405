---------------------------- MODULE GetNextLine -----------------------------
(***************************************************************************)
(* get_next_line and manage_lines (libft/get_next_line.c) under a caller   *)
(* that opens files, asks for their lines in any order, and closes them.   *)
(* One call is one read after the other, then what it hands out; the text  *)
(* that was read beyond the line stays in the static the_rest[fd] for the  *)
(* next call with that descriptor, whichever file it then stands for.      *)
(*                                                                         *)
(* A text is a sequence of characters.  read returns less than it was      *)
(* asked for whenever it likes, and may fail; memory may run out in a      *)
(* call, and then any of its allocations fails.                            *)
(***************************************************************************)
EXTENDS Integers, Sequences

CONSTANTS
  Chars,        \* characters other than the three below
  Texts,        \* the contents of files
  Fds,          \* the descriptors the caller uses
  TableSize,    \* entries of the_rest: 4864
  BUFF_SIZE,
  MaxOpens,     \* bound: files opened
  MaxFailures   \* bound: failing reads, and calls in which memory runs out

LF == "LF"
NUL == "NUL"

\* An entry of the_rest is a pointer: null, to a text, or freed.
NoText == [at |-> "null", text |-> <<>>]
Freed == [at |-> "freed", text |-> <<>>]
Pointing(t) == [at |-> "text", text |-> t]

ASSUME TextsAssumption == Texts \subseteq Seq(Chars \cup {LF, NUL})
ASSUME CharsAssumption == {LF, NUL} \cap Chars = {}
ASSUME FdsAssumption == Fds \subseteq Nat /\ Fds # {} /\ TableSize \in Nat
ASSUME SizesAssumption == BUFF_SIZE \in Nat \ {0} /\ {MaxOpens, MaxFailures} \subseteq Nat

VARIABLES
  file, off,    \* per descriptor: the text and how much of it was read
  status,       \* closed; open: the caller wants a line; ended: it got 0 or -1
  rest,         \* the_rest
  pc,           \* idle; read, manage: in a call; undefined: a freed or a null
                \* pointer, or an entry outside the table, was used
  cur,          \* fd of the call
  opens, failures,
  lines,        \* history, per descriptor: what it handed out since it was opened
  fresh,        \* history, per descriptor: there was no rest at the opening
  clean         \* history, per descriptor: fresh, and no failure since

vars == <<file, off, status, rest, pc, cur, opens, failures, lines, fresh, clean>>
caller == <<file, status, opens, fresh>>

Init ==
  /\ file = [fd \in Fds |-> <<>>] /\ off = [fd \in Fds |-> 0]
  /\ status = [fd \in Fds |-> "closed"] /\ rest = [fd \in Fds |-> NoText]
  /\ pc = "idle" /\ cur = (CHOOSE fd \in Fds : TRUE) /\ opens = 0 /\ failures = 0
  /\ lines = [fd \in Fds |-> <<>>]
  /\ fresh = [fd \in Fds |-> TRUE] /\ clean = [fd \in Fds |-> TRUE]

-----------------------------------------------------------------------------
\* The caller

OpenFile(fd) ==
  /\ pc = "idle" /\ status[fd] = "closed" /\ opens < MaxOpens
  /\ \E t \in Texts : file' = [file EXCEPT ![fd] = t]
  /\ off' = [off EXCEPT ![fd] = 0] /\ status' = [status EXCEPT ![fd] = "open"]
  /\ opens' = opens + 1
  /\ lines' = [lines EXCEPT ![fd] = <<>>]
  /\ fresh' = [fresh EXCEPT ![fd] = rest[fd] = NoText]
  /\ clean' = [clean EXCEPT ![fd] = rest[fd] = NoText]
  /\ UNCHANGED <<rest, pc, cur, failures>>

CloseFile(fd) ==
  /\ pc = "idle" /\ status[fd] # "closed"
  /\ status' = [status EXCEPT ![fd] = "closed"]
  /\ UNCHANGED <<file, off, rest, pc, cur, opens, failures, lines, fresh, clean>>

-----------------------------------------------------------------------------
\* get_next_line

Hand(line, how) == lines' = [lines EXCEPT ![cur] = Append(@, [line |-> line, how |-> how])]

\* The guard lets a descriptor equal to the size of the table through.
Refused(fd) == fd > TableSize
Call(fd) ==
  /\ pc = "idle" /\ status[fd] = "open" /\ ~Refused(fd)
  /\ cur' = fd /\ pc' = "read"
  /\ UNCHANGED <<caller, off, rest, failures, lines, clean>>

CallRefused(fd) ==
  /\ pc = "idle" /\ status[fd] = "open" /\ Refused(fd)
  /\ status' = [status EXCEPT ![fd] = "ended"]
  /\ UNCHANGED <<file, off, rest, pc, cur, opens, failures, lines, fresh, clean>>

\* The check that reads no bytes fails.
CheckFails(fd) ==
  /\ pc = "idle" /\ status[fd] = "open" /\ failures < MaxFailures
  /\ status' = [status EXCEPT ![fd] = "ended"]
  /\ failures' = failures + 1
  /\ UNCHANGED <<file, off, rest, pc, cur, opens, lines, fresh, clean>>

\* the_rest[fd] may be looked at.
Sound == cur < TableSize /\ rest[cur] # Freed

FaultOnRest ==
  /\ pc \in {"read", "manage"} /\ ~Sound
  /\ pc' = "undefined"
  /\ UNCHANGED <<caller, off, rest, cur, failures, lines, clean>>

\* get_index_of_line_feed, counted from 1; 0 when there is none.
LastFeed(t) ==   \* mutant
  LET feeds == {k \in DOMAIN t : t[k] = LF}
  IN IF feeds = {} THEN 0 ELSE CHOOSE k \in feeds : \A m \in feeds : m <= k
LineFeed(t) ==
  LET feeds == {k \in DOMAIN t : t[k] = LF}
  IN IF feeds = {} THEN 0 ELSE CHOOSE k \in feeds : \A m \in feeds : k <= m

\* ft_strjoin takes the buffer up to its first zero byte.
JoinedWhole(t, buffer) == t \o buffer   \* mutant
Joined(t, buffer) ==
  LET zeros == {k \in DOMAIN buffer : buffer[k] = NUL}
  IN IF zeros = {} THEN t \o buffer
     ELSE t \o SubSeq(buffer, 1, (CHOOSE k \in zeros : \A m \in zeros : k <= m) - 1)

\* One more failure, in the call for cur.
Fails ==
  /\ failures < MaxFailures
  /\ failures' = failures + 1 /\ clean' = [clean EXCEPT ![cur] = FALSE]

\* It reads on until there is a line feed in the rest, at least once.
ReadSome ==
  /\ pc = "read" /\ Sound
  /\ \E n \in 1 .. BUFF_SIZE :
       /\ off[cur] + n <= Len(file[cur])
       /\ LET new == Joined(rest[cur].text, SubSeq(file[cur], off[cur] + 1, off[cur] + n))
          IN /\ rest' = [rest EXCEPT ![cur] = Pointing(new)]
             /\ pc' = IF LineFeed(new) # 0 THEN "manage" ELSE "read"
       /\ off' = [off EXCEPT ![cur] = @ + n]
  /\ UNCHANGED <<caller, cur, failures, lines, clean>>

\* ft_strnew or ft_strjoin has no memory: get_index_of_line_feed gets null.
ReadUnstored ==
  /\ pc = "read" /\ Sound /\ Fails
  /\ \E n \in 1 .. BUFF_SIZE :
       off[cur] + n <= Len(file[cur]) /\ off' = [off EXCEPT ![cur] = @ + n]
  /\ rest' = [rest EXCEPT ![cur] = NoText]
  /\ pc' = "undefined"
  /\ UNCHANGED <<caller, cur, lines>>

\* At the end of the file all of the rest is the line.
AtEnd == pc = "read" /\ Sound /\ off[cur] = Len(file[cur])
EndReadsAgain ==   \* mutant: the loop goes on when read returns 0
  /\ AtEnd /\ rest[cur].text # <<>>
  /\ UNCHANGED vars
EndWithRest ==
  /\ AtEnd /\ rest[cur].text # <<>>
  /\ Hand(rest[cur].text, "end")
  /\ rest' = [rest EXCEPT ![cur] = NoText]
  /\ pc' = "idle"
  /\ UNCHANGED <<caller, off, cur, failures, clean>>

\* ft_strdup has no memory: the call returns 1, the line is null and the rest gone.
EndUnstored ==
  /\ AtEnd /\ rest[cur].text # <<>> /\ Fails
  /\ Hand(<<>>, "lost")
  /\ rest' = [rest EXCEPT ![cur] = NoText]
  /\ pc' = "idle"
  /\ UNCHANGED <<caller, off, cur>>

EndWithoutRest ==
  /\ AtEnd /\ rest[cur].text = <<>>
  /\ pc' = "manage"
  /\ UNCHANGED <<caller, off, rest, cur, failures, lines, clean>>

ReadFails ==
  /\ pc = "read" /\ Fails
  /\ pc' = "manage"
  /\ UNCHANGED <<caller, off, rest, cur, lines>>

-----------------------------------------------------------------------------
\* manage_lines

AfterFeedLate(t, k) == SubSeq(t, k + 2, Len(t))   \* mutant
AfterFeed(t, k) == SubSeq(t, k + 1, Len(t))
CutLine ==
  /\ pc = "manage" /\ Sound /\ LineFeed(rest[cur].text) # 0
  /\ LET k == LineFeed(rest[cur].text)
     IN /\ Hand(SubSeq(rest[cur].text, 1, k - 1), "feed")
        /\ rest' = [rest EXCEPT ![cur] = Pointing(AfterFeed(@.text, k))]
  /\ pc' = "idle"
  /\ UNCHANGED <<caller, off, cur, failures, clean>>

\* Without memory for the line the call hands out null; without memory for what
\* is behind it, that is lost and the next call goes on where read stopped.
RestKept(t) == Pointing(t)   \* mutant: the old rest stays
RestLost(t) == NoText
CutUnstored ==
  /\ pc = "manage" /\ Sound /\ LineFeed(rest[cur].text) # 0 /\ Fails
  /\ LET t == rest[cur].text
         k == LineFeed(t)
         line == SubSeq(t, 1, k - 1)
     IN \/ /\ Hand(<<>>, "lost")
           /\ \/ rest' = [rest EXCEPT ![cur] = Pointing(AfterFeed(t, k))]
              \/ rest' = [rest EXCEPT ![cur] = RestLost(t)]
        \/ Hand(line, "feed") /\ rest' = [rest EXCEPT ![cur] = RestLost(t)]
  /\ pc' = "idle"
  /\ UNCHANGED <<caller, off, cur>>

\* What a failed read leaves is handed out; its pointer stays in the table.
PartLine ==
  /\ pc = "manage" /\ Sound /\ rest[cur].text # <<>> /\ LineFeed(rest[cur].text) = 0
  /\ Hand(rest[cur].text, "part")
  /\ rest' = [rest EXCEPT ![cur] = Freed]
  /\ pc' = "idle"
  /\ UNCHANGED <<caller, off, cur, failures, clean>>

PartUnstored ==
  /\ pc = "manage" /\ Sound /\ rest[cur].text # <<>> /\ LineFeed(rest[cur].text) = 0 /\ Fails
  /\ Hand(<<>>, "lost")
  /\ rest' = [rest EXCEPT ![cur] = Freed]
  /\ pc' = "idle"
  /\ UNCHANGED <<caller, off, cur>>

NoLineDangling ==   \* mutant: the empty rest is freed and not cleared
  /\ pc = "manage" /\ Sound /\ rest[cur].text = <<>>
  /\ rest' = [rest EXCEPT ![cur] = IF @ = NoText THEN @ ELSE Freed]
  /\ status' = [status EXCEPT ![cur] = "ended"] /\ pc' = "idle"
  /\ UNCHANGED <<file, off, cur, opens, failures, lines, fresh, clean>>

\* 0: the same for an end and for a failure.
NoLine ==
  /\ pc = "manage" /\ Sound /\ rest[cur].text = <<>>
  /\ rest' = [rest EXCEPT ![cur] = NoText]
  /\ status' = [status EXCEPT ![cur] = "ended"] /\ pc' = "idle"
  /\ UNCHANGED <<file, off, cur, opens, failures, lines, fresh, clean>>

Stopped ==
  \/ pc = "undefined"
  \/ pc = "idle" /\ opens = MaxOpens /\ \A fd \in Fds : status[fd] = "closed"

InCall ==
  \/ FaultOnRest \/ ReadSome \/ EndWithRest \/ EndWithoutRest \/ CutLine \/ PartLine \/ NoLine
  \/ ReadFails \/ ReadUnstored \/ EndUnstored \/ CutUnstored \/ PartUnstored

Next ==
  \/ \E fd \in Fds :
       OpenFile(fd) \/ CloseFile(fd) \/ Call(fd) \/ CallRefused(fd) \/ CheckFails(fd)
  \/ InCall
  \/ (Stopped /\ UNCHANGED vars)

\* A call that has begun runs: read returns.  Of the caller nothing is assumed.
Spec == Init /\ [][Next]_vars /\ WF_vars(InCall)

-----------------------------------------------------------------------------
Plain == Chars \cup {LF}
Handed == [line : Seq(Plain), how : {"feed", "end", "part", "lost"}]

\* Types.  No zero byte gets into a rest, or from there into a line.
TypeOK ==
  /\ file \in [Fds -> Texts \cup {<<>>}]
  /\ off \in [Fds -> Nat] /\ \A fd \in Fds : off[fd] <= Len(file[fd])
  /\ status \in [Fds -> {"closed", "open", "ended"}]
  /\ rest \in [Fds -> [at : {"null", "text", "freed"}, text : Seq(Plain)]]
  /\ \A fd \in Fds : rest[fd].at # "text" => rest[fd].text = <<>>
  /\ pc \in {"idle", "read", "manage", "undefined"} /\ cur \in Fds
  /\ opens \in 0 .. MaxOpens /\ failures \in 0 .. MaxFailures
  /\ lines \in [Fds -> Seq(Handed)] /\ {fresh, clean} \subseteq [Fds -> BOOLEAN]

\* What a line and the end of it took from the file.
TextOf(l) == IF l.how = "feed" THEN Append(l.line, LF) ELSE l.line
Delivered(fd) ==
  LET d[n \in 0 .. Len(lines[fd])] == IF n = 0 THEN <<>> ELSE d[n - 1] \o TextOf(lines[fd][n])
  IN d[Len(lines[fd])]
Zero(fd) == \E k \in DOMAIN file[fd] : file[fd][k] = NUL

\* Whatever the sizes of the reads and however the calls for several files
\* alternate, the lines handed out so far and the rest are the text read so far:
\* nothing is lost, doubled or taken from another file, unless a read or a malloc
\* fails, the text has a zero byte, or the descriptor was closed before its last line.
Lossless ==
  \A fd \in Fds :
    clean[fd] /\ status[fd] # "closed" /\ ~Zero(fd) =>
      /\ Delivered(fd) \o rest[fd].text = SubSeq(file[fd], 1, off[fd])
      /\ status[fd] = "ended" /\ failures = 0 /\ fd < TableSize => Delivered(fd) = file[fd]

\* Only the last line, at the end of the file, may have line feeds in it (and
\* then be several lines); no line follows it.
LinesWhole ==
  \A fd \in Fds : clean[fd] =>
    \A n \in DOMAIN lines[fd] :
      \/ LineFeed(lines[fd][n].line) = 0 /\ lines[fd][n].how = "feed"
      \/ n = Len(lines[fd]) /\ lines[fd][n].how = "end" /\ off[fd] = Len(file[fd])

\* Failures lose text but invent none: whatever has failed, the lines handed out
\* since the opening are pieces of the file, one behind the other, each with its
\* line feed.
PiecesInOrder ==
  \A fd \in Fds :
    fresh[fd] /\ status[fd] # "closed" /\ ~Zero(fd) =>
      \E at \in [DOMAIN lines[fd] -> 0 .. off[fd]] :
        \A n \in DOMAIN lines[fd] :
          LET piece == TextOf(lines[fd][n])
          IN /\ at[n] + Len(piece) <= (IF n < Len(lines[fd]) THEN at[n + 1] ELSE off[fd])
             /\ SubSeq(file[fd], at[n] + 1, at[n] + Len(piece)) = piece

\* A freed pointer is left in the table, and used, only after a read has failed,
\* a null pointer is used only after a malloc has;
\* an entry outside of it only for the one descriptor too many.
MemorySafe ==
  /\ pc = "undefined" => cur = TableSize \/ failures > 0
  /\ \A fd \in Fds : rest[fd] = Freed => ~clean[fd]

\* Every call returns.
CallsReturn == (pc \in {"read", "manage"}) ~> (pc \in {"idle", "undefined"})
=============================================================================
