----------------------------- MODULE MergeSort ------------------------------
(***************************************************************************)
(* mergeSort and merge of srcs/printer.c: the recursion is a stack of      *)
(* frames, each call's array, left and right are buffers in mem, and every *)
(* iteration of the merge loops is a step.  DOMAIN mem is the set of       *)
(* buffers that are allocated: a buffer outside it cannot be read.         *)
(***************************************************************************)
EXTENDS SymbolOrder

VARIABLES
  name,     \* the table: the name of each symbol
  order,    \* the argument of mergeSort
  mem,      \* the allocated buffers: address -> array of symbols
  stack,    \* the active calls of mergeSort, innermost last
  crashed   \* ft_memcpy was handed the NULL of a failed malloc

sortVars == <<name, order, mem, stack, crashed>>

\* Buffer 0 is file->syms.symb; the call at depth d allocates these two.
Root == 0
LeftBuf(d) == 2 * d - 1
RightBuf(d) == 2 * d
Half(n) == n \div 2

\* A call of mergeSort.  base is a history field: the number of symbols that
\* precede, in the file, those the call sorts.
Frame(array, size, base) ==
  [array |-> array, size |-> size, base |-> base, pc |-> "entry",
   i |-> 0, j |-> 0, k |-> 0]

Depth == Len(stack)
Top == stack[Depth]
Running(pc) == ~crashed /\ stack # <<>> /\ Top.pc = pc
Pop == SubSeq(stack, 1, Depth - 1)
Replace(f) == [stack EXCEPT ![Depth] = f]
Goto(pc) == Replace([Top EXCEPT !.pc = pc])

\* The symbols base+1 .. base+n as the file has them.
Slice(base, n) == [p \in 1 .. n |-> base + p]

SortInit ==
  /\ name \in Tables
  /\ order \in Orders
  /\ mem = [a \in {Root} |-> FileOrder(name)]
  /\ stack = <<Frame(Root, Len(name), 0)>>
  /\ crashed = FALSE

\* size <= 1: nothing to do.
ReturnSmall ==
  /\ Running("entry") /\ Top.size <= 1
  /\ stack' = Pop
  /\ UNCHANGED <<name, order, mem, crashed>>

\* Allocate both halves, copy the array into them and sort the left one.
SplitAndSortLeft ==
  /\ Running("entry") /\ Top.size > 1
  /\ LET h == Half(Top.size)
         a == mem[Top.array]
     IN /\ mem' = [b \in DOMAIN mem \cup {LeftBuf(Depth), RightBuf(Depth)} |->
                     CASE b = LeftBuf(Depth)  -> [p \in 1 .. h |-> a[p]]
                       [] b = RightBuf(Depth) -> [p \in 1 .. Top.size - h |-> a[h + p]]
                       [] OTHER               -> mem[b]]
        /\ stack' = Append(Goto("right"), Frame(LeftBuf(Depth), h, Top.base))
  /\ UNCHANGED <<name, order, crashed>>

\* Neither malloc is checked: when one fails, a copy faults.  What the other one
\* returned is allocated by then; the left half is copied first.
OneAtMost(d) == {{}, {LeftBuf(d)}, {RightBuf(d)}}

FaultOnNull ==
  /\ Running("entry") /\ Top.size > 1
  /\ \E got \in OneAtMost(Depth) :
       mem' = [b \in DOMAIN mem \cup got |->
                 CASE b = LeftBuf(Depth)  -> [p \in 1 .. Half(Top.size) |-> mem[Top.array][p]]
                   [] b = RightBuf(Depth) -> <<>>
                   [] OTHER               -> mem[b]]
  /\ crashed' = TRUE
  /\ UNCHANGED <<name, order, stack>>

\* Mutant: the right half is taken to be as long as the left one.
SortRightShort ==
  /\ Running("right")
  /\ LET h == Half(Top.size)
     IN stack' = Append(Goto("merge"), Frame(RightBuf(Depth), h, Top.base + h))
  /\ UNCHANGED <<name, order, mem, crashed>>

SortRight ==
  /\ Running("right")
  /\ LET h == Half(Top.size)
     IN stack' = Append(Goto("merge"), Frame(RightBuf(Depth), Top.size - h, Top.base + h))
  /\ UNCHANGED <<name, order, mem, crashed>>

\* What merge reads: the next symbol of each half, and which one it copies.
LeftSize == Half(Top.size)
RightSize == Top.size - LeftSize
NextLeft == mem[LeftBuf(Depth)][Top.i + 1]
NextRight == mem[RightBuf(Depth)][Top.j + 1]
PrefersLeftStrict(x, y) == Cmp(order, name, x, y) < 0    \* mutant: < for <=
PrefersLeftAscending(x, y) == Cmp(1, name, x, y) <= 0     \* mutant: order is ignored
PrefersLeft(x, y) == Cmp(order, name, x, y) <= 0
Store(x) == mem' = [mem EXCEPT ![Top.array] = [@ EXCEPT ![Top.k + 1] = x]]

TakeLeft ==
  /\ Running("merge") /\ Top.i < LeftSize
  /\ Top.j < RightSize => PrefersLeft(NextLeft, NextRight)
  /\ Store(NextLeft)
  /\ stack' = Replace([Top EXCEPT !.i = @ + 1, !.k = @ + 1])
  /\ UNCHANGED <<name, order, crashed>>

\* Mutant: array[k] = right[j], neither counter moves.
TakeRightInPlace ==
  /\ Running("merge") /\ Top.j < RightSize
  /\ Top.i < LeftSize => ~PrefersLeft(NextLeft, NextRight)
  /\ Store(NextRight)
  /\ UNCHANGED <<name, order, stack, crashed>>

TakeRight ==
  /\ Running("merge") /\ Top.j < RightSize
  /\ Top.i < LeftSize => ~PrefersLeft(NextLeft, NextRight)
  /\ Store(NextRight)
  /\ stack' = Replace([Top EXCEPT !.j = @ + 1, !.k = @ + 1])
  /\ UNCHANGED <<name, order, crashed>>

\* Both halves are used up: free them and return.
FreeLeftOnly == mem' = [b \in DOMAIN mem \ {LeftBuf(Depth)} |-> mem[b]]   \* mutant
FreeTemps == mem' = [b \in DOMAIN mem \ {LeftBuf(Depth), RightBuf(Depth)} |-> mem[b]]

FreeAndReturn ==
  /\ Running("merge") /\ Top.i = LeftSize /\ Top.j = RightSize
  /\ FreeTemps
  /\ stack' = Pop
  /\ UNCHANGED <<name, order, crashed>>

Returned == stack = <<>>
SortStopped == (Returned \/ crashed) /\ UNCHANGED sortVars

SortNext ==
  \/ ReturnSmall \/ SplitAndSortLeft \/ FaultOnNull \/ SortRight
  \/ TakeLeft \/ TakeRight \/ FreeAndReturn
  \/ SortStopped

\* One thread runs the sort and nothing in it waits.
SortSpec == SortInit /\ [][SortNext]_sortVars /\ WF_sortVars(SortNext)

-----------------------------------------------------------------------------
Array(n) == [1 .. n -> 1 .. Len(name)]
Frames == [array : Nat, size : Nat, base : Nat, pc : {"entry", "right", "merge"},
           i : Nat, j : Nat, k : Nat]

\* Types: a frame holds loop counters of merge and the address of its array, a
\* buffer holds symbols of the table.
SortTypeOK ==
  /\ name \in Tables
  /\ order \in Orders
  /\ stack \in Seq(Frames)
  /\ \A b \in DOMAIN mem : \E n \in 0 .. Len(name) : mem[b] \in Array(n)
  /\ crashed \in BOOLEAN

\* The frames are a chain of calls: the caller of a frame waits in the call
\* that sorts its left or its right half, and merges nothing meanwhile.
Linked(d) ==
  LET f == stack[d]
      p == stack[d - 1]
      h == Half(p.size)
  IN /\ f.base + f.size <= Len(name)
     /\ f.pc # "entry" => f.size > 1
     /\ f.pc # "merge" => f.i = 0 /\ f.j = 0 /\ f.k = 0
     /\ d < Depth => f.pc # "entry"
     /\ d = 1 => f.array = Root /\ f.base = 0 /\ f.size = Len(name)
     /\ d > 1 =>
          \/ /\ p.pc = "right"
             /\ f.array = LeftBuf(d - 1) /\ f.size = h /\ f.base = p.base
          \/ /\ p.pc = "merge" /\ p.i = 0 /\ p.j = 0 /\ p.k = 0
             /\ f.array = RightBuf(d - 1) /\ f.size = p.size - h /\ f.base = p.base + h

SortedHalf(arr, b, n) == SortedRange(arr, b, n, order, name)

MergedPrefix(a, l, r, i, j, k) == MergedRange(a, l, r, i, j, k, order, name)

\* What the buffers of a frame hold at each point of its call.
Filled(d) ==
  LET f == stack[d]
      h == Half(f.size)
      l == mem[LeftBuf(d)]
      r == mem[RightBuf(d)]
  IN /\ mem[f.array] \in Array(f.size)
     /\ d < Depth \/ f.pc # "merge" => mem[f.array] = Slice(f.base, f.size)
     /\ f.pc = "right" =>
          /\ d = Depth => SortedHalf(l, f.base, h)
          /\ r = Slice(f.base + h, f.size - h)
     /\ f.pc = "merge" =>
          /\ SortedHalf(l, f.base, h)
          /\ d = Depth =>
               /\ SortedHalf(r, f.base + h, f.size - h)
               /\ f.i <= h /\ f.j <= f.size - h
               /\ MergedPrefix(mem[f.array], l, r, f.i, f.j, f.k)

\* The calls whose two buffers are allocated.
Splits == IF stack # <<>> /\ Top.pc = "entry" THEN Depth - 1 ELSE Depth

\* What a fault leaves allocated: the halves of the calls that wait, and at most
\* one half of the call whose malloc failed.
LeftByFault(d) == {0 .. 2 * (d - 1) \cup got : got \in OneAtMost(d)}

\* The recursion keeps to its halves: every live buffer belongs to an active
\* call, every call works on its own slice of the table, and no symbol is lost
\* or doubled between two halves and the array they are merged into.
SortInv ==
  /\ ~crashed => DOMAIN mem = 0 .. 2 * Splits
  /\ crashed => stack # <<>> /\ Top.pc = "entry" /\ DOMAIN mem \in LeftByFault(Depth)
  /\ \A d \in 1 .. Depth : Linked(d) /\ Filled(d)
  /\ Returned => SortedHalf(mem[Root], 0, Len(name))

\* When mergeSort returns, the table is the stable arrangement of the symbols
\* of the file in the direction asked for, and all of them are still there.
SortedWhenDone == Returned => StableSorted(mem[Root], order, name)

\* mergeSort returns with nothing allocated but its caller's array.  When a
\* malloc fails, the halves of the calls that wait are still allocated, but no
\* array above the call that faults has been merged into: the table the caller
\* handed over is then as the file has it, never half sorted.
BuffersHeld ==
  /\ Returned => DOMAIN mem = {Root}
  /\ crashed => DOMAIN mem \in LeftByFault(Depth) /\ mem[Root] = FileOrder(name)

\* mergeSort is one atomic stable sort of the caller's array: what the array
\* holds while the calls are active is nobody's business.
Abs == INSTANCE StableSort WITH
  listing <- IF Returned THEN mem[Root] ELSE FileOrder(name),
  sorted  <- Returned
SortsStably == Abs!Spec

\* The recursion ends, in a return or in the fault of an unchecked malloc.
Terminates == <>(Returned \/ crashed)
=============================================================================
