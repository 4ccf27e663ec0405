-------------------------- MODULE PrintMemoryProofs --------------------------
(***************************************************************************)
(* Proofs about PrintMemory, for every directive and every value and with  *)
(* malloc failing anywhere: the text comes out whole or not at all         *)
(* (AllOrNothing), blocks are used as they may be (BlocksRespected), and   *)
(* freed but for what is known (LeaksKnown).  What the digits of a number  *)
(* are made of is taken from PrintfProofs.                                 *)
(***************************************************************************)
EXTENDS PrintMemory, PrintfProofs

-----------------------------------------------------------------------------
(***************************************************************************)
(* The contracts of the functions speak of descriptions.  A description    *)
(* says of each pointer what is known of it:                               *)
(*   made  it owns a block that was allocated for it, with the text text   *)
(*   own   it owns a block with that text                                  *)
(*   blur  it owns a block                                                 *)
(*   see   it points to a block with that text that another pointer owns   *)
(*   null  it is NULL                                                      *)
(*   any   nothing                                                         *)
(* A block has one owner.  Instead of its block an owner may have NULL,    *)
(* once a malloc has failed.  lost are the pointers one of which a block   *)
(* may have been allocated for that has no owner, goal is what has been or *)
(* is to be printed.                                                       *)
(***************************************************************************)
MemChar == STRING \cup Letters \cup {"i", ".", "?"}
MemText == Seq(MemChar)
Modes == {"any", "null", "see", "own", "made", "blur"}
Description ==
  [mode : [Pointers -> Modes], text : [Pointers -> MemText], lost : SUBSET Pointers,
   goal : MemText, printed : BOOLEAN]
Owns(D, p) == D.mode[p] \in {"own", "made", "blur"}
Knows(D, p) == D.mode[p] \in {"own", "made", "see"}
Unseen(D) == \A p \in Pointers : D.mode[p] # "see"

PointerFits(D, p) ==
  /\ D.mode[p] # "any" => Live(p) \/ IsNull(p)
  /\ D.mode[p] = "null" => IsNull(p)
  /\ IsNull(p) /\ (Owns(D, p) \/ Knows(D, p)) => failed
  /\ ~IsNull(p) /\ Knows(D, p) => Text(p) = D.text[p]
  /\ ~IsNull(p) /\ D.mode[p] = "made" => heap[ptr[p]].for = p
Apart(D) == \A p, q \in Pointers : Owns(D, p) /\ Owns(D, q) /\ p # q /\ ptr[p] = ptr[q] => IsNull(p)
Owned(D, b) == \E p \in Pointers : Owns(D, p) /\ ptr[p] = b
Accounted(D) ==
  \E x : /\ \A b \in DOMAIN heap : b = x \/ Owned(D, b)
         /\ x \in DOMAIN heap => heap[x].for \in D.lost /\ ~Owned(D, x)
         /\ "result" \in D.lost => x \in DOMAIN heap
OutFits(D) ==
  /\ written = <<>> \/ (D.printed /\ written = D.goal)
  /\ D.printed /\ ~failed => written = D.goal
NullText == ft_print_s(directive, Null)
GoalFits(D) == D.goal = Promised \/ (failed /\ directive.spec = "s" /\ D.goal = NullText)
Fits(D) ==
  /\ \A p \in Pointers : PointerFits(D, p)
  /\ Apart(D) /\ (failed \/ Accounted(D))
  /\ OutFits(D) /\ GoalFits(D)

\* Blocks are numbered as they are allocated.
BlockSized(b) ==
  /\ b.used <= b.size + 1
  /\ b.used > b.size => (directive.spec = "u" /\ value # 0) \/ b.for = "mantiss"
Block == [text : MemText, size : Int, used : Int, for : Pointers]
MemoryTyped ==
  /\ \E c \in Conversion : directive = c[1] /\ value = c[2]
  /\ ptr \in [Pointers -> Int] /\ blocks \in Nat /\ failed \in BOOLEAN
  /\ DOMAIN heap \in SUBSET (1 .. blocks) /\ heap \in [DOMAIN heap -> Block]
  /\ \A b \in DOMAIN heap : BlockSized(heap[b])

\* A description may say less than is known.
Weaker(D, E) ==
  /\ \A p \in Pointers :
       \/ D.mode[p] = E.mode[p] /\ (Knows(E, p) => D.text[p] = E.text[p])
       \/ D.mode[p] = "made" /\ E.mode[p] = "own" /\ D.text[p] = E.text[p]
       \/ D.mode[p] \in {"made", "own"} /\ E.mode[p] = "blur"
       \/ ~Owns(D, p) /\ E.mode[p] = "any"
  /\ D.lost \subseteq E.lost /\ ("result" \in E.lost => "result" \in D.lost)
  /\ D.goal = E.goal /\ D.printed = E.printed

\* The pointers in gone lose their blocks; p gets a mode and a text.
Gone(D, gone) == [D EXCEPT !.mode = [q \in Pointers |-> IF q \in gone THEN "any" ELSE D.mode[q]]]
With(D, p, mode, text) ==
  [D EXCEPT !.mode = [D.mode EXCEPT ![p] = mode], !.text = [D.text EXCEPT ![p] = text]]
Renewed(D, gone, p, mode, text) == With(Gone(D, gone), p, mode, text)

\* A block without an owner.
Forgotten(D, p) == [With(D, p, "see", D.text[p]) EXCEPT !.lost = {p}]

-----------------------------------------------------------------------------
\* What With and Gone make of a description.
LEMMA WithFacts ==
  ASSUME NEW D \in Description, NEW p \in Pointers, NEW mode \in Modes, NEW text \in MemText
  PROVE  LET E == With(D, p, mode, text)
         IN /\ E \in Description /\ E.lost = D.lost /\ E.goal = D.goal /\ E.printed = D.printed
            /\ E.mode[p] = mode /\ E.text[p] = text
            /\ \A q \in Pointers : q # p => E.mode[q] = D.mode[q] /\ E.text[q] = D.text[q]
BY DEF With, Description

\* And Gone.
LEMMA GoneFacts ==
  ASSUME NEW D \in Description, NEW gone
  PROVE  LET E == Gone(D, gone)
         IN /\ E \in Description /\ E.lost = D.lost /\ E.goal = D.goal /\ E.printed = D.printed
            /\ E.text = D.text
            /\ \A q \in Pointers : E.mode[q] = IF q \in gone THEN "any" ELSE D.mode[q]
BY DEF Gone, Description, Modes

\* What a new description has where it differs from the old one, and where not.
Renews(D, E, gone, to, mode, note) ==
  /\ E \in Description /\ E.lost = D.lost /\ E.goal = D.goal /\ E.printed = D.printed
  /\ E.mode[to] = mode /\ E.text[to] = note
  /\ \A q \in Pointers \ {to} :
       E.text[q] = D.text[q] /\ E.mode[q] = IF q \in gone THEN "any" ELSE D.mode[q]

\* Renewed makes such a description.
LEMMA RenewedFacts ==
  ASSUME NEW D \in Description, NEW gone, NEW to \in Pointers, NEW mode \in Modes,
         NEW note \in MemText
  PROVE  Renews(D, Renewed(D, gone, to, mode, note), gone, to, mode, note)
<1> DEFINE G == Gone(D, gone)
           E == With(G, to, mode, note)
<1>1. /\ G \in Description /\ G.lost = D.lost /\ G.goal = D.goal /\ G.printed = D.printed
      /\ G.text = D.text
      /\ \A q \in Pointers : G.mode[q] = IF q \in gone THEN "any" ELSE D.mode[q]
  BY GoneFacts
<1> HIDE DEF G
<1>2. /\ E \in Description /\ E.lost = G.lost /\ E.goal = G.goal /\ E.printed = G.printed
      /\ E.mode[to] = mode /\ E.text[to] = note
      /\ \A q \in Pointers : q # to => E.mode[q] = G.mode[q] /\ E.text[q] = G.text[q]
  BY <1>1, WithFacts
<1>3. E = Renewed(D, gone, to, mode, note)
  BY DEF Renewed, G
<1> HIDE DEF E
<1> QED
  BY <1>1, <1>2, <1>3 DEF Renews

\* The types of the memory.
LEMMA TypedFacts ==
  ASSUME MemoryTyped
  PROVE  /\ ptr \in [Pointers -> Int] /\ blocks \in Nat /\ failed \in BOOLEAN /\ NULL \in Int
         /\ \A b \in DOMAIN heap : b \in 1 .. blocks /\ b \in Int /\ b # NULL /\ heap[b] \in Block
<1>1. NULL = 0 /\ NULL \in Int
  BY DEF NULL
<1> QED
  BY <1>1 DEF MemoryTyped

\* What a description says is right of the same memory when it says less.
LEMMA WeakerFits ==
  ASSUME NEW D \in Description, NEW E \in Description, Fits(D), Weaker(D, E)
  PROVE  Fits(E)
<1>1. ASSUME NEW p \in Pointers
      PROVE  PointerFits(E, p) /\ (Owns(E, p) <=> Owns(D, p))
  BY <1>1 DEF Fits, PointerFits, Weaker, Owns, Knows
<1>2. Apart(E)
  BY <1>1 DEF Fits, Apart
<1>3. \A b : Owned(E, b) <=> Owned(D, b)
  BY <1>1 DEF Owned
<1>4. Accounted(D) => Accounted(E)
  BY <1>3 DEF Accounted, Weaker
<1>5. OutFits(E) /\ GoalFits(E)
  BY DEF Fits, OutFits, GoalFits, Weaker
<1> QED
  BY <1>1, <1>2, <1>4, <1>5 DEF Fits

\* The block of a pointer may lose its owner; the pointer still sees it.
LEMMA ForgottenFits ==
  ASSUME MemoryTyped, NEW D \in Description, NEW p \in Pointers, Fits(D), D.mode[p] = "made",
         D.lost = {}
  PROVE  Forgotten(D, p) \in Description /\ Fits(Forgotten(D, p))
<1> DEFINE E == Forgotten(D, p)
<1>1. /\ E \in Description /\ E.lost = {p} /\ E.goal = D.goal /\ E.printed = D.printed
      /\ E.text = D.text
      /\ E.mode[p] = "see" /\ \A q \in Pointers \ {p} : E.mode[q] = D.mode[q]
  <2>1. D.text[p] \in MemText /\ D.text = [D.text EXCEPT ![p] = D.text[p]] /\ "see" \in Modes
    BY DEF Description, Modes
  <2> QED
    BY <2>1 DEF Forgotten, With, Description
<1> HIDE DEF E
<1>2. \A q \in Pointers : PointerFits(E, q)
  BY <1>1 DEF Fits, PointerFits, Owns, Knows
<1>3. \A q \in Pointers : Owns(E, q) <=> Owns(D, q) /\ q # p
  BY <1>1 DEF Owns
<1>4. Apart(E)
  BY <1>3 DEF Fits, Apart
<1>5. ~failed => Accounted(E)
  <2> SUFFICES ASSUME ~failed
               PROVE  Accounted(E)
    OBVIOUS
  <2>1. \A b \in DOMAIN heap : Owned(D, b)
    BY DEF Fits, Accounted
  <2>2. ptr[p] \in DOMAIN heap /\ heap[ptr[p]].for = p /\ ptr[p] # NULL
    BY DEF Fits, PointerFits, Owns, Live, IsNull
  <2>3. ~Owned(E, ptr[p])
    BY <1>3, <2>2 DEF Owned, Fits, Apart, Owns, IsNull
  <2>4. \A b \in DOMAIN heap : b = ptr[p] \/ Owned(E, b)
    BY <1>3, <2>1 DEF Owned
  <2> QED
    BY <1>1, <2>2, <2>3, <2>4 DEF Accounted
<1>6. OutFits(E) /\ GoalFits(E)
  BY <1>1 DEF Fits, OutFits, GoalFits
<1> QED
  BY <1>1, <1>2, <1>4, <1>5, <1>6 DEF Fits, E

\* A new block for a pointer without one, while other owners lose theirs.
LEMMA AllocateFits ==
  ASSUME MemoryTyped, NEW D \in Description, Fits(D), NEW gone \in SUBSET Pointers,
         NEW to \in Pointers,
         \A p \in gone : Owns(D, p) /\ ~IsNull(p), to \in gone \/ ~Owns(D, to),
         gone = {} \/ Unseen(D), NEW text \in MemText, NEW size \in Int, NEW used \in Int,
         NEW mode \in {"made", "blur"}, NEW note \in MemText, mode = "made" => note = text,
         BlockSized([text |-> text, size |-> size, used |-> used, for |-> to]),
         Allocate(to, text, size, used, {ptr[p] : p \in gone})
  PROVE  /\ MemoryTyped' /\ Renewed(D, gone, to, mode, note) \in Description
         /\ Fits(Renewed(D, gone, to, mode, note))'
<1> DEFINE E == Renewed(D, gone, to, mode, note)
           new == [text |-> text, size |-> size, used |-> used, for |-> to]
           kept == DOMAIN heap \ {ptr[p] : p \in gone}
<1>1. /\ E \in Description /\ E.lost = D.lost /\ E.goal = D.goal /\ E.printed = D.printed
      /\ E.mode[to] = mode /\ E.text[to] = note
      /\ \A q \in Pointers \ {to} :
           E.text[q] = D.text[q] /\ E.mode[q] = IF q \in gone THEN "any" ELSE D.mode[q]
  <2>1. mode \in Modes
    BY DEF Modes
  <2>2. Renews(D, E, gone, to, mode, note)
    BY <2>1, RenewedFacts, Zenon
  <2> QED
    BY <2>2, Zenon DEF Renews
<1>2. /\ blocks' = blocks + 1 /\ DOMAIN heap' = kept \cup {blocks + 1}
      /\ heap'[blocks + 1] = new /\ \A b \in kept : b # blocks + 1 /\ heap'[b] = heap[b]
      /\ ptr' = [ptr EXCEPT ![to] = blocks + 1]
      /\ UNCHANGED <<directive, value, written, end, failed>>
  BY DEF Allocate, MemoryTyped
<1>3. blocks \in Nat /\ \A b \in DOMAIN heap : b \in 1 .. blocks
  BY DEF MemoryTyped
<1>4. new \in Block /\ BlockSized(new)
  BY DEF Block
<1> HIDE DEF E, new, kept
<1>5. /\ ptr' \in [Pointers -> Int] /\ ptr'[to] = blocks + 1 /\ blocks + 1 # NULL
      /\ \A q \in Pointers \ {to} : ptr'[q] = ptr[q]
  BY <1>2, <1>3 DEF MemoryTyped, NULL
<1>6. MemoryTyped'
  <2>1. \A b \in DOMAIN heap' : b \in 1 .. blocks' /\ heap'[b] \in Block /\ BlockSized(heap[b])'
    BY <1>2, <1>3, <1>4 DEF MemoryTyped, BlockSized, kept
  <2>2. heap' = [b \in DOMAIN heap' |-> heap'[b]]
    BY DEF Allocate
  <2>3. heap' \in [DOMAIN heap' -> Block]
    BY <2>1, <2>2
  <2> QED
    BY <1>2, <1>3, <1>5, <2>1, <2>3 DEF MemoryTyped
<1>7. ASSUME NEW q \in Pointers \ {to}, E.mode[q] # "any"
      PROVE  /\ E.mode[q] = D.mode[q] /\ q \notin gone
             /\ ptr[q] = NULL \/ (ptr[q] \in kept /\ heap'[ptr[q]] = heap[ptr[q]])
  <2>1. q \notin gone /\ (gone = {} \/ D.mode[q] # "see") /\ E.mode[q] = D.mode[q]
    BY <1>1, <1>7 DEF Unseen
  <2>2. ptr[q] = NULL \/ ptr[q] \in DOMAIN heap
    BY <1>7, <2>1 DEF Fits, PointerFits, Live, IsNull
  <2>3. ASSUME ptr[q] # NULL, NEW p \in gone, ptr[p] = ptr[q]
        PROVE  FALSE
    <3>1. Owns(D, q)
      BY <1>7, <2>1, <2>3 DEF Fits, PointerFits, Owns, IsNull, Description, Modes
    <3> QED
      BY <2>1, <2>3, <3>1 DEF Fits, Apart, IsNull
  <2> QED
    BY <1>2, <2>1, <2>2, <2>3 DEF kept
<1>8. ASSUME NEW q \in Pointers
      PROVE  PointerFits(E, q)'
  <2>1. CASE q = to
    BY <1>1, <1>2, <1>5, <2>1 DEF PointerFits, Live, IsNull, Text, Owns, Knows, new
  <2>2. CASE q # to /\ E.mode[q] # "any"
    <3>1. ptr'[q] = ptr[q] /\ E.mode[q] = D.mode[q] /\ E.text[q] = D.text[q]
      BY <1>1, <1>5, <1>7, <2>2
    <3>2. CASE ptr[q] = NULL
      BY <1>2, <3>1, <3>2 DEF Fits, PointerFits, Live, IsNull, Text, Owns, Knows
    <3>3. CASE ptr[q] # NULL
      <4>1. ptr[q] \in DOMAIN heap' /\ heap'[ptr[q]] = heap[ptr[q]]
        BY <1>2, <1>7, <2>2, <3>3
      <4> QED
        BY <3>1, <3>3, <4>1 DEF Fits, PointerFits, Live, IsNull, Text, Owns, Knows
    <3> QED
      BY <3>2, <3>3
  <2>3. CASE q # to /\ E.mode[q] = "any"
    BY <2>3 DEF PointerFits, Owns, Knows
  <2> QED
    BY <2>1, <2>2, <2>3
<1>9. \A q \in Pointers : Owns(E, q) <=> q = to \/ (Owns(D, q) /\ q \notin gone)
  BY <1>1 DEF Owns
<1>10. \A q \in Pointers : Owns(E, q) /\ q # to => ptr'[q] = ptr[q] /\ (ptr[q] = NULL \/ ptr[q] \in 1 .. blocks)
  BY <1>3, <1>5, <1>7, <1>1 DEF Owns, kept
<1>11. Apart(E)'
  <2> SUFFICES ASSUME NEW p \in Pointers, NEW q \in Pointers, Owns(E, p), Owns(E, q), p # q,
                      ptr'[p] = ptr'[q]
               PROVE  ptr'[p] = NULL
    BY DEF Apart, Owns, IsNull
  <2>1. p # to /\ q # to
    BY <1>3, <1>5, <1>10 DEF NULL
  <2> QED
    BY <1>9, <1>10, <2>1 DEF Fits, Apart, IsNull
<1>12. ASSUME ~failed
       PROVE  Accounted(E)'
  <2>1. PICK x : /\ \A b \in DOMAIN heap : b = x \/ Owned(D, b)
                 /\ x \in DOMAIN heap => heap[x].for \in D.lost /\ ~Owned(D, x)
                 /\ "result" \in D.lost => x \in DOMAIN heap
    BY <1>12 DEF Fits, Accounted
  <2>2. \A b \in kept : Owned(E, b)' <=> Owned(D, b)
    <3> SUFFICES ASSUME NEW b \in kept
                 PROVE  Owned(E, b)' <=> Owned(D, b)
      OBVIOUS
    <3>1. b \in 1 .. blocks /\ b # blocks + 1 /\ \A p \in gone : ptr[p] # b
      BY <1>3 DEF kept
    <3>2. ASSUME Owned(D, b)
          PROVE  Owned(E, b)'
      <4>1. PICK p \in Pointers : Owns(D, p) /\ ptr[p] = b
        BY <3>2 DEF Owned
      <4>2. p \notin gone /\ p # to /\ Owns(E, p)
        BY <1>9, <3>1, <4>1
      <4> QED
        BY <1>5, <4>1, <4>2 DEF Owned, Owns
    <3>3. ASSUME Owned(E, b)'
          PROVE  Owned(D, b)
      <4>1. PICK p \in Pointers : Owns(E, p) /\ ptr'[p] = b
        BY <3>3 DEF Owned, Owns
      <4>2. p # to
        BY <1>5, <3>1, <4>1
      <4> QED
        BY <1>5, <1>9, <4>1, <4>2 DEF Owned
    <3> QED
      BY <3>2, <3>3
  <2>3. \A b : b = blocks + 1 => Owned(E, b)'
    BY <1>5, <1>9 DEF Owned, Owns
  <2>4. x \in DOMAIN heap => x \in kept
    BY <2>1 DEF kept, Owned
  <2>5. x # blocks + 1 => /\ x \in DOMAIN heap' => x \in DOMAIN heap
                          /\ x \in DOMAIN heap' => heap'[x].for \in D.lost /\ ~Owned(E, x)'
                          /\ "result" \in D.lost => x \in DOMAIN heap'
    BY <1>2, <2>1, <2>2, <2>4 DEF kept
  <2>6. \A b \in DOMAIN heap' : b = x \/ Owned(E, b)'
    <3> SUFFICES ASSUME NEW b \in DOMAIN heap', b # x
                 PROVE  Owned(E, b)'
      OBVIOUS
    <3>1. CASE b = blocks + 1
      BY <2>3, <3>1
    <3>2. CASE b \in kept
      BY <2>1, <2>2, <3>2 DEF kept
    <3> QED
      BY <1>2, <3>1, <3>2
  <2>7. CASE x # blocks + 1
    BY <1>1, <2>5, <2>6, <2>7 DEF Accounted
  <2>8. CASE x = blocks + 1
    <3>1. x \notin DOMAIN heap /\ "result" \notin D.lost
      BY <1>3, <2>1, <2>8
    <3>2. \A b \in DOMAIN heap' : Owned(E, b)'
      BY <2>3, <2>6, <2>8
    <3>3. -1 \notin DOMAIN heap'
      BY <1>2, <1>3 DEF kept
    <3> QED
      BY <1>1, <3>1, <3>2, <3>3 DEF Accounted
  <2> QED
    BY <2>7, <2>8
<1>13. OutFits(E)' /\ GoalFits(E)'
  BY <1>1, <1>2 DEF Fits, OutFits, GoalFits, Promised, NullText, FloatText
<1> QED
  BY <1>1, <1>2, <1>6, <1>8, <1>11, <1>12, <1>13 DEF Fits, E

\* A pointer becomes NULL, when a malloc has failed or its own block is freed.
LEMMA NullFits ==
  ASSUME MemoryTyped, NEW D \in Description, Fits(D), NEW gone \in SUBSET Pointers,
         NEW to \in Pointers,
         \A p \in gone : Owns(D, p), to \in gone \/ ~Owns(D, to), gone = {} \/ Unseen(D),
         NEW mode \in Modes, NEW note \in MemText, NEW freed, NEW why, GetNull(to, freed, why),
         freed = {} \/ freed = {ptr[p] : p \in gone},
         why = "no memory" \/ failed \/ (mode = "null" /\ freed = {ptr[p] : p \in gone})
  PROVE  /\ MemoryTyped' /\ Renewed(D, gone, to, mode, note) \in Description
         /\ Fits(Renewed(D, gone, to, mode, note))'
<1> DEFINE E == Renewed(D, gone, to, mode, note)
<1>1. /\ E \in Description /\ E.lost = D.lost /\ E.goal = D.goal /\ E.printed = D.printed
      /\ E.mode[to] = mode /\ E.text[to] = note
      /\ \A q \in Pointers \ {to} :
           E.text[q] = D.text[q] /\ E.mode[q] = IF q \in gone THEN "any" ELSE D.mode[q]
  <2>1. Renews(D, E, gone, to, mode, note)
    BY RenewedFacts, Zenon
  <2> QED
    BY <2>1, Zenon DEF Renews
<1>2. /\ DOMAIN heap' = DOMAIN heap \ freed /\ \A b \in DOMAIN heap' : heap'[b] = heap[b]
      /\ ptr' = [ptr EXCEPT ![to] = NULL] /\ failed' = (failed \/ why = "no memory")
      /\ UNCHANGED <<directive, value, blocks, written, end>>
  BY DEF GetNull, Without
<1>3. heap' = [b \in DOMAIN heap' |-> heap'[b]]
  BY DEF GetNull, Without
<1> HIDE DEF E
<1>4. ptr' \in [Pointers -> Int] /\ ptr'[to] = NULL /\ \A q \in Pointers \ {to} : ptr'[q] = ptr[q]
  <2>1. NULL \in Int /\ ptr \in [Pointers -> Int]
    BY TypedFacts, Zenon
  <2> QED
    BY <1>2, <2>1
<1>5. MemoryTyped'
  <2>1. \A b \in DOMAIN heap' : b \in 1 .. blocks /\ heap'[b] \in Block /\ BlockSized(heap[b])' /\ BlockSized(heap[b])
    BY <1>2 DEF MemoryTyped, BlockSized
  <2>2. heap' \in [DOMAIN heap' -> Block]
    BY <1>3, <2>1
  <2>3. failed' \in BOOLEAN
    BY <1>2 DEF MemoryTyped
  <2> QED
    BY <1>2, <1>4, <2>1, <2>2, <2>3 DEF MemoryTyped
<1>6. ASSUME NEW q \in Pointers \ {to}, E.mode[q] # "any"
      PROVE  /\ E.mode[q] = D.mode[q] /\ q \notin gone
             /\ ptr[q] = NULL \/ (ptr[q] \in DOMAIN heap' /\ heap'[ptr[q]] = heap[ptr[q]])
  <2>1. q \notin gone /\ (gone = {} \/ D.mode[q] # "see") /\ E.mode[q] = D.mode[q]
    BY <1>1, <1>6 DEF Unseen
  <2>2. ptr[q] = NULL \/ ptr[q] \in DOMAIN heap
    BY <1>6, <2>1 DEF Fits, PointerFits, Live, IsNull
  <2>3. ASSUME ptr[q] # NULL, NEW p \in gone, ptr[p] = ptr[q]
        PROVE  FALSE
    <3>1. Owns(D, q)
      BY <1>6, <2>1, <2>3 DEF Fits, PointerFits, Owns, IsNull, Description, Modes
    <3> QED
      BY <2>1, <2>3, <3>1 DEF Fits, Apart, IsNull
  <2> QED
    BY <1>2, <2>1, <2>2, <2>3
<1>7. ASSUME NEW q \in Pointers
      PROVE  PointerFits(E, q)'
  <2>1. CASE q = to
    BY <1>1, <1>2, <1>4, <2>1 DEF PointerFits, Live, IsNull, Text, Owns, Knows
  <2>2. CASE q # to /\ E.mode[q] # "any"
    <3>1. ptr'[q] = ptr[q] /\ E.mode[q] = D.mode[q] /\ E.text[q] = D.text[q]
      BY <1>1, <1>4, <1>6, <2>2
    <3>2. CASE ptr[q] = NULL
      BY <1>2, <3>1, <3>2 DEF Fits, PointerFits, Live, IsNull, Text, Owns, Knows
    <3>3. CASE ptr[q] # NULL
      <4>1. ptr[q] \in DOMAIN heap' /\ heap'[ptr[q]] = heap[ptr[q]]
        BY <1>2, <1>6, <2>2, <3>3
      <4> QED
        BY <3>1, <3>3, <4>1 DEF Fits, PointerFits, Live, IsNull, Text, Owns, Knows
    <3> QED
      BY <3>2, <3>3
  <2>3. CASE q # to /\ E.mode[q] = "any"
    BY <2>3 DEF PointerFits, Owns, Knows
  <2> QED
    BY <2>1, <2>2, <2>3
<1>8. \A q \in Pointers \ {to} : Owns(E, q) <=> Owns(D, q) /\ q \notin gone
  BY <1>1 DEF Owns
<1>9. Apart(E)'
  <2> SUFFICES ASSUME NEW p \in Pointers, NEW q \in Pointers, Owns(E, p), Owns(E, q), p # q,
                      ptr'[p] = ptr'[q]
               PROVE  ptr'[p] = NULL
    BY DEF Apart, Owns, IsNull
  <2> QED
    BY <1>4, <1>8 DEF Fits, Apart, IsNull
<1>10. ASSUME ~failed'
       PROVE  Accounted(E)'
  <2>1. ~failed /\ freed = {ptr[p] : p \in gone} /\ mode = "null"
    BY <1>2, <1>10
  <2>2. PICK x : /\ \A b \in DOMAIN heap : b = x \/ Owned(D, b)
                 /\ x \in DOMAIN heap => heap[x].for \in D.lost /\ ~Owned(D, x)
                 /\ "result" \in D.lost => x \in DOMAIN heap
    BY <2>1 DEF Fits, Accounted
  <2>3. \A b \in DOMAIN heap' : Owned(E, b)' <=> Owned(D, b)
    <3> SUFFICES ASSUME NEW b \in DOMAIN heap'
                 PROVE  Owned(E, b)' <=> Owned(D, b)
      OBVIOUS
    <3>1. b # NULL /\ \A p \in gone : ptr[p] # b
      BY <1>2, <2>1, TypedFacts, Zenon
    <3>2. ASSUME Owned(D, b)
          PROVE  Owned(E, b)'
      <4>1. PICK p \in Pointers : Owns(D, p) /\ ptr[p] = b
        BY <3>2 DEF Owned
      <4>2. p \notin gone /\ p # to /\ Owns(E, p)
        BY <1>8, <3>1, <4>1
      <4> QED
        BY <1>4, <4>1, <4>2 DEF Owned, Owns
    <3>3. ASSUME Owned(E, b)'
          PROVE  Owned(D, b)
      <4>1. PICK p \in Pointers : Owns(E, p) /\ ptr'[p] = b
        BY <3>3 DEF Owned, Owns
      <4>2. p # to
        BY <1>4, <3>1, <4>1
      <4> QED
        BY <1>4, <1>8, <4>1, <4>2 DEF Owned
    <3> QED
      BY <3>2, <3>3
  <2>4. x \in DOMAIN heap => x \in DOMAIN heap'
    BY <1>2, <2>1, <2>2 DEF Owned
  <2>5. \A b \in DOMAIN heap' : b = x \/ Owned(E, b)'
    BY <1>2, <2>2, <2>3
  <2>6. x \in DOMAIN heap' => heap'[x].for \in D.lost /\ ~Owned(E, x)'
    BY <1>2, <2>2, <2>3
  <2> QED
    BY <1>1, <2>2, <2>4, <2>5, <2>6 DEF Accounted
<1>11. OutFits(E)' /\ GoalFits(E)'
  BY <1>1, <1>2 DEF Fits, OutFits, GoalFits, Promised, NullText, FloatText
<1> QED
  BY <1>1, <1>5, <1>7, <1>9, <1>10, <1>11 DEF Fits, E

\* A block changes its owner, who only sees it now.
Moved(D, to, from) == With(With(D, to, "own", D.text[from]), from, "see", D.text[from])
Shifts(D, E, to, from) ==
  /\ E \in Description /\ E.lost = D.lost /\ E.goal = D.goal /\ E.printed = D.printed
  /\ E.mode[to] = "own" /\ E.mode[from] = "see" /\ E.text[to] = D.text[from]
  /\ E.text[from] = D.text[from]
  /\ \A q \in Pointers \ {to, from} : E.text[q] = D.text[q] /\ E.mode[q] = D.mode[q]

\* What such a description says.
LEMMA MovedFacts ==
  ASSUME NEW D \in Description, NEW to \in Pointers, NEW from \in Pointers, to # from
  PROVE  Shifts(D, Moved(D, to, from), to, from)
<1> DEFINE A == With(D, to, "own", D.text[from])
           E == Moved(D, to, from)
<1>1. D.text[from] \in MemText /\ {"own", "see"} \subseteq Modes
  BY DEF Description, Modes
<1>2. /\ A \in Description /\ A.lost = D.lost /\ A.goal = D.goal /\ A.printed = D.printed
      /\ A.mode[to] = "own" /\ A.text[to] = D.text[from]
      /\ \A q \in Pointers : q # to => A.mode[q] = D.mode[q] /\ A.text[q] = D.text[q]
  BY <1>1, WithFacts
<1> HIDE DEF A
<1>3. E = With(A, from, "see", D.text[from])
  BY DEF Moved, A
<1> HIDE DEF E
<1>4. /\ E \in Description /\ E.lost = A.lost /\ E.goal = A.goal /\ E.printed = A.printed
      /\ E.mode[from] = "see" /\ E.text[from] = D.text[from]
      /\ \A q \in Pointers : q # from => E.mode[q] = A.mode[q] /\ E.text[q] = A.text[q]
  BY <1>1, <1>2, <1>3, WithFacts
<1>5. Shifts(D, E, to, from)
  BY <1>2, <1>4 DEF Shifts
<1> QED
  BY <1>5 DEF E

\* It is right when the pointer has been handed on.
LEMMA MoveFits ==
  ASSUME MemoryTyped, NEW D \in Description, Fits(D), NEW to \in Pointers, NEW from \in Pointers,
         to # from,
         D.mode[from] \in {"own", "made"}, ~Owns(D, to), ptr' = [ptr EXCEPT ![to] = ptr[from]],
         UNCHANGED <<directive, value, heap, blocks, written, end, failed>>
  PROVE  /\ MemoryTyped' /\ Moved(D, to, from) \in Description /\ Fits(Moved(D, to, from))'
<1> DEFINE E == Moved(D, to, from)
<1>1. /\ E \in Description /\ E.lost = D.lost /\ E.goal = D.goal /\ E.printed = D.printed
      /\ E.mode[to] = "own" /\ E.mode[from] = "see" /\ E.text[to] = D.text[from]
      /\ E.text[from] = D.text[from]
      /\ \A q \in Pointers \ {to, from} : E.text[q] = D.text[q] /\ E.mode[q] = D.mode[q]
  <2>1. Shifts(D, E, to, from)
    BY MovedFacts, Zenon
  <2> QED
    BY <2>1, Zenon DEF Shifts
<1> HIDE DEF E
<1>2. /\ ptr' \in [Pointers -> Int] /\ ptr'[to] = ptr[from]
      /\ \A q \in Pointers \ {to} : ptr'[q] = ptr[q]
  BY TypedFacts
<1>3. MemoryTyped'
  BY <1>2 DEF MemoryTyped, BlockSized
<1>4. ASSUME NEW q \in Pointers
      PROVE  PointerFits(E, q)'
  <2>1. PointerFits(D, q) /\ PointerFits(D, from)
    BY DEF Fits
  <2>2. CASE q \in {to, from}
    BY <1>1, <1>2, <2>1, <2>2 DEF PointerFits, Live, IsNull, Text, Owns, Knows
  <2>3. CASE q \notin {to, from}
    <3>1. ptr'[q] = ptr[q] /\ E.mode[q] = D.mode[q] /\ E.text[q] = D.text[q]
      BY <1>1, <1>2, <2>3
    <3> QED
      BY <2>1, <3>1 DEF PointerFits, Live, IsNull, Text, Owns, Knows
  <2> QED
    BY <2>2, <2>3
<1>5. /\ \A q \in Pointers \ {to, from} : Owns(E, q) <=> Owns(D, q)
      /\ Owns(E, to) /\ ~Owns(E, from) /\ Owns(D, from)
  BY <1>1 DEF Owns
<1>6. Apart(E)'
  <2> SUFFICES ASSUME NEW p \in Pointers, NEW q \in Pointers, Owns(E, p), Owns(E, q), p # q,
                      ptr'[p] = ptr'[q]
               PROVE  ptr'[p] = NULL
    BY DEF Apart, Owns, IsNull
  <2>1. p # from /\ q # from
    BY <1>5
  <2>2. CASE p = to
    <3>1. Owns(D, q) /\ ptr[q] = ptr[from] /\ ptr'[p] = ptr[from]
      BY <1>2, <1>5, <2>1, <2>2
    <3> QED
      BY <1>5, <2>1, <3>1 DEF Fits, Apart, IsNull
  <2>3. CASE q = to
    <3>1. Owns(D, p) /\ ptr[p] = ptr[from] /\ ptr'[p] = ptr[from]
      BY <1>2, <1>5, <2>1, <2>3
    <3> QED
      BY <1>5, <2>1, <3>1 DEF Fits, Apart, IsNull
  <2>4. CASE p # to /\ q # to
    BY <1>2, <1>5, <2>1, <2>4 DEF Fits, Apart, IsNull
  <2> QED
    BY <2>2, <2>3, <2>4
<1>7. \A b : Owned(E, b)' <=> Owned(D, b)
  <2> SUFFICES ASSUME NEW b
               PROVE  Owned(E, b)' <=> Owned(D, b)
    OBVIOUS
  <2>1. ASSUME NEW p \in Pointers, Owns(D, p), ptr[p] = b
        PROVE  \E q \in Pointers : Owns(E, q) /\ ptr'[q] = b
    <3>1. CASE p = from
      BY <1>2, <1>5, <2>1, <3>1
    <3>2. CASE p # from
      BY <1>2, <1>5, <2>1, <3>2
    <3> QED
      BY <3>1, <3>2
  <2>2. ASSUME NEW q \in Pointers, Owns(E, q), ptr'[q] = b
        PROVE  \E p \in Pointers : Owns(D, p) /\ ptr[p] = b
    <3>1. CASE q = to
      BY <1>2, <1>5, <2>2, <3>1
    <3>2. CASE q # to
      BY <1>2, <1>5, <2>2, <3>2
    <3> QED
      BY <3>1, <3>2
  <2> QED
    BY <2>1, <2>2 DEF Owned, Owns
<1>8. failed \/ Accounted(E)'
  BY <1>1, <1>7 DEF Fits, Accounted
<1>9. OutFits(E)' /\ GoalFits(E)'
  BY <1>1 DEF Fits, OutFits, GoalFits, Promised, NullText, FloatText
<1> QED
  BY <1>1, <1>3, <1>4, <1>6, <1>8, <1>9 DEF Fits, E

\* A pointer to no block of its own may take any value, when nothing is said of it.
LEMMA AnyFits ==
  ASSUME MemoryTyped, NEW D \in Description, Fits(D), NEW to \in Pointers, NEW new \in Int,
         ~Owns(D, to),
         ptr' = [ptr EXCEPT ![to] = new], UNCHANGED <<directive, value, heap, blocks, written, end,
                                                      failed>>
  PROVE  /\ MemoryTyped' /\ With(D, to, "any", <<>>) \in Description
         /\ Fits(With(D, to, "any", <<>>))'
<1> DEFINE E == With(D, to, "any", <<>>)
<1>1. /\ E \in Description /\ E.lost = D.lost /\ E.goal = D.goal /\ E.printed = D.printed
      /\ E.mode[to] = "any"
      /\ \A q \in Pointers : q # to => E.mode[q] = D.mode[q] /\ E.text[q] = D.text[q]
  <2>1. "any" \in Modes /\ <<>> \in MemText
    BY DEF Modes, MemText
  <2> QED
    BY <2>1, WithFacts
<1> HIDE DEF E
<1>2. ptr' \in [Pointers -> Int] /\ \A q \in Pointers \ {to} : ptr'[q] = ptr[q]
  BY TypedFacts
<1>3. MemoryTyped'
  BY <1>2 DEF MemoryTyped, BlockSized
<1>4. ASSUME NEW q \in Pointers
      PROVE  PointerFits(E, q)'
  <2>1. CASE q = to
    BY <1>1, <2>1 DEF PointerFits, Owns, Knows
  <2>2. CASE q # to
    BY <1>1, <1>2, <2>2 DEF Fits, PointerFits, Live, IsNull, Text, Owns, Knows
  <2> QED
    BY <2>1, <2>2
<1>5. \A q \in Pointers : Owns(E, q) => Owns(D, q) /\ q # to /\ ptr'[q] = ptr[q]
  BY <1>1, <1>2 DEF Owns
<1>6. \A q \in Pointers : Owns(D, q) => Owns(E, q) /\ q # to /\ ptr'[q] = ptr[q]
  BY <1>1, <1>2 DEF Owns
<1>7. Apart(E)'
  <2> SUFFICES ASSUME NEW p \in Pointers, NEW q \in Pointers, Owns(E, p), Owns(E, q), p # q,
                      ptr'[p] = ptr'[q]
               PROVE  ptr'[p] = NULL
    BY DEF Apart, Owns, IsNull
  <2> QED
    BY <1>5 DEF Fits, Apart, IsNull
<1>8. \A b : Owned(E, b)' <=> Owned(D, b)
  BY <1>5, <1>6 DEF Owned, Owns
<1>9. failed \/ Accounted(E)'
  BY <1>1, <1>8 DEF Fits, Accounted
<1>10. OutFits(E)' /\ GoalFits(E)'
  BY <1>1 DEF Fits, OutFits, GoalFits, Promised, NullText, FloatText
<1> QED
  BY <1>1, <1>3, <1>4, <1>7, <1>9, <1>10 DEF Fits, E

\* Writing the text of a pointer.
LEMMA PutFits ==
  ASSUME MemoryTyped, NEW D \in Description, Fits(D), NEW p \in Pointers, Knows(D, p),
         D.text[p] = D.goal, ~D.printed,
         written' = IF IsNull(p) THEN written ELSE written \o Text(p),
         UNCHANGED <<directive, value, ptr, heap, blocks, end, failed>>
  PROVE  /\ MemoryTyped' /\ [D EXCEPT !.printed = TRUE] \in Description
         /\ Fits([D EXCEPT !.printed = TRUE])'
<1> DEFINE E == [D EXCEPT !.printed = TRUE]
<1>1. /\ E \in Description /\ E.lost = D.lost /\ E.goal = D.goal /\ E.printed /\ E.mode = D.mode
      /\ E.text = D.text
  BY DEF Description
<1> HIDE DEF E
<1>2. MemoryTyped'
  BY DEF MemoryTyped, BlockSized
<1>3. \A q \in Pointers : PointerFits(E, q)'
  BY <1>1 DEF Fits, PointerFits, Live, IsNull, Text, Owns, Knows
<1>4. Apart(E)' /\ (failed \/ Accounted(E)')
  <2>1. \A q : Owns(E, q) <=> Owns(D, q)
    BY <1>1 DEF Owns
  <2>2. \A b : Owned(E, b)' <=> Owned(D, b)
    BY <2>1 DEF Owned, Owns
  <2>3. Apart(E)'
    BY <2>1 DEF Fits, Apart, IsNull, Owns
  <2> QED
    BY <1>1, <2>2, <2>3 DEF Fits, Accounted
<1>5. OutFits(E)'
  <2>1. written = <<>> /\ D.goal \in MemText
    BY DEF Fits, OutFits, Description
  <2>2. IsNull(p) => failed
    BY DEF Fits, PointerFits
  <2>3. ~IsNull(p) => written' = D.goal
    <3>1. ~IsNull(p) => Text(p) = D.goal
      BY DEF Fits, PointerFits
    <3> QED
      BY <2>1, <3>1
  <2> QED
    BY <1>1, <2>1, <2>2, <2>3 DEF OutFits
<1>6. GoalFits(E)'
  BY <1>1 DEF Fits, GoalFits, Promised, NullText, FloatText
<1> QED
  BY <1>1, <1>2, <1>3, <1>4, <1>5, <1>6 DEF Fits, E

\* A description is right as long as nothing changes.
LEMMA SameFits ==
  ASSUME MemoryTyped, NEW D \in Description, Fits(D),
         UNCHANGED <<directive, value, ptr, heap, blocks, written, failed>>
  PROVE  MemoryTyped' /\ Fits(D)'
<1>1. MemoryTyped'
  BY DEF MemoryTyped, BlockSized
<1>2. \A q \in Pointers : PointerFits(D, q)'
  BY DEF Fits, PointerFits, Live, IsNull, Text, Owns, Knows
<1>3. \A b : Owned(D, b)' <=> Owned(D, b)
  BY DEF Owned, Owns
<1>4. Apart(D)' /\ (failed \/ Accounted(D)')
  BY <1>3 DEF Fits, Accounted, Apart, IsNull, Owns
<1>5. OutFits(D)' /\ GoalFits(D)'
  BY DEF Fits, OutFits, GoalFits, Promised, NullText, FloatText
<1> QED
  BY <1>1, <1>2, <1>4, <1>5 DEF Fits

-----------------------------------------------------------------------------
(***************************************************************************)
(* What a call makes of a description.  Effect is that of one call that    *)
(* finds memory; a function that is entered has a contract.  A sequence of *)
(* calls leads from one description to another (Triple) when there are     *)
(* descriptions in between.                                                *)
(***************************************************************************)
Nothing(lost, goal) ==
  [mode |-> [p \in Pointers |-> "any"], text |-> [p \in Pointers |-> <<>>], lost |-> lost, goal |-> goal,
   printed |-> FALSE]
Over(lost, goal) == [Nothing(lost, goal) EXCEPT !.printed = TRUE]
Only(p, mode, text, lost, goal) == With(Nothing(lost, goal), p, mode, text)

\* The string that is cut to nothing when it is empty is left.
CutLoses(t) == IF directive.spec = "s" /\ directive.precision = 0 /\ t = <<>> THEN {"result"} ELSE {}
\* No number that gets a field starts with a plus or a blank.
FieldText(t) == directive.spec \in {"d", "i", "u", "f"} /\ t # <<>> => t[1] \notin {"+", Blank}
NumberPadded(t) ==
  LET pad  == directive.width - Len(t)
      sign == IF t # <<>> /\ t[1] \in {"-", "+", Blank} THEN 1 ELSE 0
  IN IF "ZERO" \in directive.flag /\ t # NaN /\ t \notin Infs
       THEN SubSeq(t, 1, sign) \o padd(Drop(t, sign), pad, "0", "L")
     ELSE padd(t, pad, Blank, Side)
\* The parts of a float; what is left of them after they are rounded.
Parts(mantiss, mode, lost, goal) ==
  With(With(With(Nothing(lost, goal), "mantiss", mantiss, <<>>), "decimal", mode, value.decimal),
       "fract", mode, value.fract)
Leaves == {"s", "fract"}
Word(goal) ==
  With(With(Only("mantiss", "made", value.word, {}, goal), "decimal", "null", <<>>), "fract",
       "null", <<>>)

PrecisionContract(D, E) ==
  \E goal, t \in MemText :
    /\ directive.spec \in SpecsDI \cup SpecsPOUBX \cup {"s"}
    /\ D = Only("result", "made", t, {}, goal)
    /\ E = Only("result", "made", ft_precision(directive, t), CutLoses(t), goal)
    /\ ft_precision(directive, t) \in MemText
WidthContract(D, E) ==
  \E goal, t \in MemText, lost \in SUBSET Pointers :
    /\ directive.spec \in SpecsDI \cup SpecsPOUBX \cup {"s", "f"} /\ FieldText(t)
    /\ D = Only("result", "own", t, lost, goal)
    /\ E = Only("result", "own", ft_width(directive, t, value), lost, goal)
    /\ ft_width(directive, t, value) \in MemText
NumericContract(D, E) ==
  \E goal, t \in MemText, lost \in SUBSET Pointers :
    /\ D = Only("result", "own", t, lost, goal)
    /\ E = Only("result", "own", NumberPadded(t), lost, goal)
    /\ NumberPadded(t) \in MemText
AlternateContract(D, E) ==
  \E goal, t \in MemText, lost \in SUBSET Pointers :
    LET prefix == get_prefix(directive, t, value)
    IN /\ prefix \in MemText /\ directive.spec \in SpecsPOUBX \ {"u"}
       /\ D = With(Only("result", "own", t, lost, goal), "prefix", "made", prefix)
       /\ E = Only("result", "own", ft_alternate(directive, t, value), lost, goal)
       /\ ft_alternate(directive, t, value) \in MemText
JoinContract(D, E) ==
  \E goal \in MemText :
    \/ value.word = <<>> /\ D = Parts("null", "own", Leaves, goal)
         /\ E = Only("mantiss", "made", FloatText, Leaves, goal)
    \/ value.word # <<>> /\ D = Word(goal) /\ E = Only("mantiss", "made", FloatText, {}, goal)
FloatContract(f, D, E) ==
  \E goal \in MemText :
    \/ f = "get_mantissa" /\ D = Nothing({}, goal) /\ E = Only("mantiss", "blur", <<>>, {}, goal)
    \/ f = "save_parts" /\ D = Only("mantiss", "blur", <<>>, {}, goal) /\ E = Parts("blur", "made",
                                                                                    {}, goal)
    \/ f = "fract_length" /\ D = Parts("blur", "made", {}, goal) /\ E = D
    \/ f = "ft_fround" /\ D = Parts("null", "made", {}, goal) /\ E = Parts("null", "own", Leaves, goal)
    \/ f = "odd_half" /\ D = With(Parts("null", "made", {}, goal), "s", "made", value.fract)
         /\ E = Parts("null", "own", Leaves, goal)
    \/ f = "carry" /\ D = With(Parts("null", "made", {}, goal), "fsum", "made", value.fract)
         /\ E = Parts("null", "own", Leaves, goal)
    \/ f = "cut" /\ D = Parts("null", "own", Leaves, goal) /\ E = D

Contract(f, D, E) ==
  \/ f = "ft_precision" /\ PrecisionContract(D, E)
  \/ f = "ft_width" /\ WidthContract(D, E)
  \/ f = "pad_numeric" /\ NumericContract(D, E)
  \/ f = "pad_alternate" /\ AlternateContract(D, E)
  \/ directive.spec = "f" /\ f = "join_dot_to_decimal" /\ JoinContract(D, E)
  \/ directive.spec = "f" /\ value.word = <<>> /\ FloatContract(f, D, E)

MakeEffect(c, D, E) ==
  /\ c.op = "make" /\ c.to \in Pointers /\ ~Owns(D, c.to) /\ c.text \in MemText
  /\ {c.size, c.used} \subseteq Int
  /\ BlockSized([text |-> c.text, size |-> c.size, used |-> c.used, for |-> c.to])
  /\ c.lack \in {"null", "fault"} /\ E = Renewed(D, {}, c.to, "made", c.text)
CopyText(c, D) == c.front \o SubSeq(D.text[c.from], c.start + 1, c.start + c.len)
CopyEffect(c, D, E) ==
  /\ c.op = "copy" /\ {c.to, c.from} \subseteq Pointers /\ Knows(D, c.from) /\ ~Owns(D, c.to)
  /\ CopyText(c, D) \in MemText /\ E = Renewed(D, {}, c.to, "made", CopyText(c, D))
PaddText(c, D) == padd(SubSeq(D.text[c.from], c.skip + 1, Len(D.text[c.from])), c.n, c.c, c.side)
PaddEffect(c, D, E) ==
  /\ c.op = "padd" /\ {c.to, c.from} \subseteq Pointers /\ Knows(D, c.from) /\ ~Owns(D, c.to)
  /\ PaddText(c, D) \in MemText /\ E = Renewed(D, {}, c.to, "made", PaddText(c, D))
JoinEffect(c, D, E) ==
  /\ c.op = "join" /\ {c.to, c.a, c.b} \subseteq Pointers /\ c.a # c.b /\ Owns(D, c.a)
  /\ Owns(D, c.b)
  /\ c.to \in {c.a, c.b} \/ ~Owns(D, c.to)
  /\ Unseen(D)
  /\ E = Renewed(D, {c.a, c.b}, c.to, IF Knows(D, c.a) /\ Knows(D, c.b) THEN "made" ELSE "blur",
                 D.text[c.a] \o D.text[c.b])
DigitsEffect(c, D, E) ==
  /\ c.op = "digits" /\ c.to \in Pointers /\ c.from \subseteq Pointers
  /\ \A p \in c.from : Owns(D, p)
  /\ c.to \in c.from \/ ~Owns(D, c.to)
  /\ c.from = {} \/ Unseen(D)
  /\ c.text \in MemText /\ E = Renewed(D, c.from, c.to, "made", c.text)
DelEffect(c, D, E) ==
  /\ c.op = "del" /\ c.p \in Pointers /\ Owns(D, c.p) /\ Unseen(D)
  /\ E = Renewed(D, {c.p}, c.p, "null", <<>>)
MoveEffect(c, D, E) ==
  /\ c.op = "move" /\ {c.to, c.from} \subseteq Pointers /\ c.to # c.from /\ ~Owns(D, c.to)
  /\ \/ D.mode[c.from] \in {"own", "made"} /\ E = Moved(D, c.to, c.from)
     \/ E = With(D, c.to, "any", <<>>)
PutEffect(c, D, E) ==
  /\ c.op = "put" /\ c.p \in Pointers /\ Knows(D, c.p) /\ D.text[c.p] = D.goal /\ ~D.printed
  /\ E = [D EXCEPT !.printed = TRUE]
EnterEffect(c, D, E) ==
  /\ c.op = "enter" /\ \A p \in ReadsOf(c.f) : p \in Pointers /\ Owns(D, p)
  /\ Contract(c.f, D, E)

Effect(c, D, E) ==
  \/ MakeEffect(c, D, E) \/ CopyEffect(c, D, E) \/ PaddEffect(c, D, E) \/ JoinEffect(c, D, E)
  \/ DigitsEffect(c, D, E) \/ DelEffect(c, D, E) \/ MoveEffect(c, D, E) \/ PutEffect(c, D, E)
  \/ EnterEffect(c, D, E)
Moves(c, D, E) == \E M \in Description : Effect(c, D, M) /\ Weaker(M, E)
Leads(A, calls) ==
  A \in [0 .. Len(calls) -> Description] /\ \A k \in 1 .. Len(calls) : Moves(calls[k], A[k - 1], A[k])
Triple(D, calls, E) ==
  \E S : calls \in Seq(S) /\ \E A : Leads(A, calls) /\ Weaker(D, A[0]) /\ A[Len(calls)] = E

\* A description says no more than itself.
LEMMA WeakerSelf == \A D : Weaker(D, D)
BY DEF Weaker

\* And no more than one that says no more than it.
LEMMA WeakerStill ==
  ASSUME NEW D, NEW E, NEW F, Weaker(D, E), Weaker(E, F)
  PROVE  Weaker(D, F)
<1>1. ASSUME NEW p \in Pointers
      PROVE  \/ D.mode[p] = F.mode[p] /\ (Knows(F, p) => D.text[p] = F.text[p])
             \/ D.mode[p] = "made" /\ F.mode[p] = "own" /\ D.text[p] = F.text[p]
             \/ D.mode[p] \in {"made", "own"} /\ F.mode[p] = "blur"
             \/ ~Owns(D, p) /\ F.mode[p] = "any"
  BY <1>1 DEF Weaker, Owns, Knows
<1> QED
  BY <1>1 DEF Weaker

\* No calls change nothing.
LEMMA EmptyTriple ==
  ASSUME NEW D \in Description, NEW E \in Description, Weaker(D, E)
  PROVE  Triple(D, <<>>, E)
<1> DEFINE A == [k \in 0 .. 0 |-> E]
<1>1. <<>> \in Seq({}) /\ Len(<<>>) = 0
  OBVIOUS
<1>2. Leads(A, <<>>) /\ A[0] = E
  BY DEF Leads
<1> QED
  BY <1>1, <1>2 DEF Triple

\* One call.
LEMMA OneTriple ==
  ASSUME NEW D \in Description, NEW E \in Description, NEW c, Moves(c, D, E)
  PROVE  Triple(D, <<c>>, E)
<1> DEFINE A == [k \in 0 .. 1 |-> IF k = 0 THEN D ELSE E]
<1>1. <<c>> \in Seq({c}) /\ Len(<<c>>) = 1 /\ <<c>>[1] = c
  OBVIOUS
<1>2. A \in [0 .. 1 -> Description] /\ A[0] = D /\ A[1] = E
  OBVIOUS
<1> HIDE DEF A
<1>3. \A k \in 1 .. 1 : Moves(<<c>>[k], A[k - 1], A[k])
  <2> SUFFICES Moves(<<c>>[1], A[1 - 1], A[1])
    OBVIOUS
  <2>1. 1 - 1 = 0
    OBVIOUS
  <2> QED
    BY <1>1, <1>2, <2>1
<1>4. Leads(A, <<c>>)
  BY <1>1, <1>2, <1>3 DEF Leads
<1>5. Weaker(D, D)
  BY WeakerSelf
<1> QED
  BY <1>1, <1>2, <1>4, <1>5 DEF Triple

\* Some calls and others after them.
LEMMA JoinTriple ==
  ASSUME NEW D \in Description, NEW E \in Description, NEW F \in Description, NEW c, NEW d,
         Triple(D, c, E), Triple(E, d, F)
  PROVE  Triple(D, c \o d, F)
<1>1. PICK S : c \in Seq(S) /\ \E A : Leads(A, c) /\ Weaker(D, A[0]) /\ A[Len(c)] = E
  BY DEF Triple
<1>2. PICK A : Leads(A, c) /\ Weaker(D, A[0]) /\ A[Len(c)] = E
  BY <1>1
<1>3. PICK T : d \in Seq(T) /\ \E B : Leads(B, d) /\ Weaker(E, B[0]) /\ B[Len(d)] = F
  BY DEF Triple
<1>4. PICK B : Leads(B, d) /\ Weaker(E, B[0]) /\ B[Len(d)] = F
  BY <1>3
<1> DEFINE m == Len(c)
           n == Len(d)
           X == [k \in 0 .. m + n |-> IF k < m THEN A[k] ELSE B[k - m]]
<1>5. m \in Nat /\ n \in Nat
  BY <1>1, <1>3
<1>6. c \in Seq(S \cup T) /\ d \in Seq(S \cup T)
  BY <1>1, <1>3
<1>7. /\ c \o d \in Seq(S \cup T) /\ Len(c \o d) = m + n
      /\ \A k \in 1 .. m : (c \o d)[k] = c[k]
      /\ \A k \in m + 1 .. m + n : (c \o d)[k] = d[k - m]
  BY <1>6
<1>8. /\ A \in [0 .. m -> Description] /\ \A k \in 1 .. m : Moves(c[k], A[k - 1], A[k])
      /\ B \in [0 .. n -> Description] /\ \A k \in 1 .. n : Moves(d[k], B[k - 1], B[k])
  BY <1>2, <1>4 DEF Leads
<1>9. Weaker(A[m], B[0])
  BY <1>2, <1>4
<1> HIDE DEF m, n
<1>10. X \in [0 .. m + n -> Description]
  BY <1>5, <1>8
<1>11. (\A k \in 0 .. m - 1 : X[k] = A[k]) /\ (\A k \in m .. m + n : X[k] = B[k - m])
  BY <1>5
<1> HIDE DEF X
<1>12. ASSUME NEW k \in 1 .. m + n
       PROVE  Moves((c \o d)[k], X[k - 1], X[k])
  <2>1. CASE k < m
    <3>1. X[k - 1] = A[k - 1] /\ X[k] = A[k] /\ (c \o d)[k] = c[k]
      BY <1>5, <1>7, <1>11, <2>1
    <3> QED
      BY <1>5, <1>8, <2>1, <3>1
  <2>2. CASE k = m
    <3>1. X[k - 1] = A[k - 1] /\ X[k] = B[0] /\ (c \o d)[k] = c[k]
      BY <1>5, <1>7, <1>11, <2>2
    <3>2. Moves(c[k], A[k - 1], A[k]) /\ A[k] = A[m]
      BY <1>5, <1>8, <2>2
    <3>3. PICK M \in Description : Effect(c[k], A[k - 1], M) /\ Weaker(M, A[k])
      BY <3>2 DEF Moves
    <3>4. Weaker(M, B[0])
      BY <1>9, <3>2, <3>3, WeakerStill
    <3> QED
      BY <3>1, <3>3, <3>4 DEF Moves
  <2>3. CASE k > m
    <3>1. /\ X[k - 1] = B[k - 1 - m] /\ X[k] = B[k - m] /\ (c \o d)[k] = d[k - m]
          /\ k - 1 - m = (k - m) - 1
      BY <1>5, <1>7, <1>11, <2>3
    <3>2. k - m \in 1 .. n
      BY <1>5, <2>3
    <3> QED
      BY <1>8, <3>1, <3>2
  <2>4. k < m \/ k = m \/ k > m
    BY <1>5
  <2> QED
    BY <2>1, <2>2, <2>3, <2>4, Zenon
<1>13. Leads(X, c \o d)
  BY <1>7, <1>10, <1>12 DEF Leads
<1>14. Weaker(D, X[0])
  <2>1. CASE m = 0
    <3>1. X[0] = B[0]
      BY <1>5, <1>11, <2>1
    <3>2. Weaker(D, A[m]) /\ Weaker(A[m], B[0])
      BY <1>2, <1>9, <2>1
    <3> QED
      BY <3>1, <3>2, WeakerStill
  <2>2. CASE m > 0
    BY <1>2, <1>5, <1>11, <2>2
  <2> QED
    BY <1>5, <2>1, <2>2
<1>15. X[m + n] = F
  BY <1>4, <1>5, <1>11 DEF n
<1> QED
  BY <1>7, <1>13, <1>14, <1>15 DEF Triple, m, n

\* At the end of the calls nothing is left to do.
LEMMA EndTriple ==
  ASSUME NEW D, NEW E, Triple(D, <<>>, E)
  PROVE  Weaker(D, E)
BY DEF Triple

\* The first of the calls.
LEMMA HeadTriple ==
  ASSUME NEW D, NEW E, NEW c, Triple(D, c, E), c # <<>>
  PROVE  \E X, Y \in Description : Weaker(D, X) /\ Moves(Head(c), X, Y) /\ Triple(Y, Tail(c), E)
<1>1. PICK S : c \in Seq(S) /\ \E A : Leads(A, c) /\ Weaker(D, A[0]) /\ A[Len(c)] = E
  BY DEF Triple
<1>2. PICK A : Leads(A, c) /\ Weaker(D, A[0]) /\ A[Len(c)] = E
  BY <1>1
<1> DEFINE n == Len(c)
           B == [k \in 0 .. n - 1 |-> A[k + 1]]
<1>3. n \in Nat \ {0} /\ Tail(c) \in Seq(S) /\ Len(Tail(c)) = n - 1 /\ Head(c) = c[1]
  BY <1>1
<1>4. \A k \in 1 .. n - 1 : Tail(c)[k] = c[k + 1]
  BY <1>1
<1>5. A \in [0 .. n -> Description] /\ \A k \in 1 .. n : Moves(c[k], A[k - 1], A[k])
  BY <1>2 DEF Leads
<1> HIDE DEF n
<1>6. B \in [0 .. n - 1 -> Description] /\ \A k \in 0 .. n - 1 : B[k] = A[k + 1]
  BY <1>3, <1>5
<1> HIDE DEF B
<1>7. ASSUME NEW k \in 1 .. n - 1
      PROVE  Moves(Tail(c)[k], B[k - 1], B[k])
  <2>1. k + 1 \in 1 .. n /\ Tail(c)[k] = c[k + 1] /\ B[k - 1] = A[(k + 1) - 1] /\ B[k] = A[k + 1]
    BY <1>3, <1>4, <1>6
  <2> QED
    BY <1>5, <2>1
<1>8. Leads(B, Tail(c))
  BY <1>3, <1>6, <1>7 DEF Leads
<1>9. /\ B[0] = A[1] /\ B[n - 1] = E /\ A[0] \in Description /\ A[1] \in Description
      /\ Moves(Head(c), A[0], A[1])
  <2>1. B[0] = A[1] /\ B[n - 1] = A[n]
    BY <1>3, <1>6
  <2>2. Moves(c[1], A[1 - 1], A[1]) /\ 1 - 1 = 0
    BY <1>3, <1>5
  <2> QED
    BY <1>2, <1>3, <1>5, <2>1, <2>2 DEF n
<1>10. Weaker(A[1], B[0])
  BY <1>9, WeakerSelf
<1>11. Triple(A[1], Tail(c), E)
  BY <1>3, <1>8, <1>9, <1>10 DEF Triple
<1> QED
  BY <1>2, <1>9, <1>11

-----------------------------------------------------------------------------
\* After a call the description of its effect is right, or the program has
\* written to NULL for lack of memory.
Goes(E) ==
  /\ MemoryTyped' /\ E \in Description /\ Fits(E)'
  /\ todo' = Tail(todo) /\ end' = "" /\ (failed => failed') /\ UNCHANGED <<directive, value>>
Faults == end' = "fault" /\ failed' /\ UNCHANGED <<directive, value, todo, ptr, heap, blocks, written>>

\* Stopping for lack of memory.
LEMMA StopFaults == \A why : Stop("fault", why) /\ (failed \/ why = "no memory") => Faults
BY DEF Stop, Faults

\* A call that gets a new block.
LEMMA AllocateGoes ==
  ASSUME MemoryTyped, end = "", NEW D \in Description, Fits(D), NEW gone \in SUBSET Pointers,
         NEW to \in Pointers,
         \A p \in gone : Owns(D, p) /\ ~IsNull(p), to \in gone \/ ~Owns(D, to),
         gone = {} \/ Unseen(D), NEW text \in MemText, NEW size \in Int, NEW used \in Int,
         NEW mode \in {"made", "blur"}, NEW note \in MemText, mode = "made" => note = text,
         BlockSized([text |-> text, size |-> size, used |-> used, for |-> to]),
         NEW freed, freed = {ptr[p] : p \in gone}, Allocate(to, text, size, used, freed)
  PROVE  Goes(Renewed(D, gone, to, mode, note))
<1>1. Allocate(to, text, size, used, {ptr[p] : p \in gone})
  BY Zenon
<1>2. /\ MemoryTyped' /\ Renewed(D, gone, to, mode, note) \in Description
      /\ Fits(Renewed(D, gone, to, mode, note))'
  BY <1>1, AllocateFits
<1>3. todo' = Tail(todo) /\ UNCHANGED <<directive, value, end, failed>>
  BY DEF Allocate
<1> QED
  BY <1>2, <1>3 DEF Goes

\* A text fits into the block that is allocated for it.
LEMMA TextSized ==
  ASSUME NEW text \in MemText, NEW to
  PROVE  /\ BlockSized([text |-> text, size |-> Len(text) + 1, used |-> Len(text) + 1, for |-> to])
         /\ Len(text) + 1 \in Int
BY DEF BlockSized, MemText

\* A call that gets NULL.
LEMMA NullGoes ==
  ASSUME MemoryTyped, end = "", NEW D \in Description, Fits(D), NEW gone \in SUBSET Pointers,
         NEW to \in Pointers,
         \A p \in gone : Owns(D, p), to \in gone \/ ~Owns(D, to), gone = {} \/ Unseen(D),
         NEW mode \in Modes, NEW note \in MemText, NEW freed, NEW why, GetNull(to, freed, why),
         freed = {} \/ freed = {ptr[p] : p \in gone},
         why = "no memory" \/ failed \/ (mode = "null" /\ freed = {ptr[p] : p \in gone})
  PROVE  Goes(Renewed(D, gone, to, mode, note))
<1>1. /\ MemoryTyped' /\ Renewed(D, gone, to, mode, note) \in Description
      /\ Fits(Renewed(D, gone, to, mode, note))'
  BY NullFits
<1>2. todo' = Tail(todo) /\ (failed => failed') /\ UNCHANGED <<directive, value, end>>
  BY DEF GetNull
<1> QED
  BY <1>1, <1>2 DEF Goes

\* DoMake.
LEMMA MakeGoes ==
  ASSUME MemoryTyped, NEW D \in Description, Fits(D), NEW E, NEW c, c = call, MakeEffect(c, D, E),
         DoMake
  PROVE  Goes(E) \/ Faults
<1>1. /\ end = "" /\ c.to \in Pointers /\ ~Owns(D, c.to) /\ c.text \in MemText /\ c.size \in Int
      /\ c.used \in Int
      /\ BlockSized([text |-> c.text, size |-> c.size, used |-> c.used, for |-> c.to])
      /\ E = Renewed(D, {}, c.to, "made", c.text) /\ "made" \in Modes
  BY DEF MakeEffect, DoMake, Calls, Modes
<1>2. CASE Allocate(c.to, c.text, c.size, c.used, {})
  <2>1. {} = {ptr[p] : p \in {}} /\ {} \in SUBSET Pointers
    OBVIOUS
  <2>2. Goes(Renewed(D, {}, c.to, "made", c.text))
    BY <1>1, <1>2, <2>1, AllocateGoes
  <2> QED
    BY <1>1, <2>2
<1>3. CASE GetNull(c.to, {}, "no memory")
  <2>1. {} \in SUBSET Pointers
    OBVIOUS
  <2>2. Goes(Renewed(D, {}, c.to, "made", c.text))
    BY <1>1, <1>3, <2>1, NullGoes
  <2> QED
    BY <1>1, <2>2
<1>4. CASE Stop("fault", "no memory")
  BY <1>4, StopFaults
<1> QED
  BY <1>2, <1>3, <1>4 DEF DoMake

\* A new block with a text made of another one; or none.
LEMMA TextGoes ==
  ASSUME MemoryTyped, end = "", NEW D \in Description, Fits(D), NEW to \in Pointers,
         NEW from \in Pointers,
         Knows(D, from), ~Owns(D, to), NEW text \in MemText, NEW why,
         \/ ~IsNull(from) /\ AllocateText(to, text, {})
         \/ GetNull(to, {}, why) /\ (why = "no memory" \/ IsNull(from))
  PROVE  Goes(Renewed(D, {}, to, "made", text))
<1>1. {} = {ptr[p] : p \in {}} /\ {} \in SUBSET Pointers /\ "made" \in Modes
  BY DEF Modes
<1>2. CASE AllocateText(to, text, {})
  <2>1. Allocate(to, text, Len(text) + 1, Len(text) + 1, {})
    BY <1>2 DEF AllocateText
  <2>2. /\ BlockSized([text |-> text, size |-> Len(text) + 1, used |-> Len(text) + 1, for |-> to])
        /\ Len(text) + 1 \in Int
    BY TextSized
  <2> QED
    BY <1>1, <2>1, <2>2, AllocateGoes
<1>3. CASE GetNull(to, {}, why) /\ (why = "no memory" \/ IsNull(from))
  <2>1. why = "no memory" \/ failed
    BY <1>3 DEF Fits, PointerFits
  <2> QED
    BY <1>1, <1>3, <2>1, NullGoes
<1> QED
  BY <1>2, <1>3

\* DoCopy.
LEMMA CopyGoes ==
  ASSUME MemoryTyped, NEW D \in Description, Fits(D), NEW E, NEW c, c = call, CopyEffect(c, D, E),
         DoCopy
  PROVE  Goes(E)
<1>1. /\ end = "" /\ c.to \in Pointers /\ c.from \in Pointers /\ Knows(D, c.from) /\ ~Owns(D, c.to)
      /\ CopyText(c, D) \in MemText /\ E = Renewed(D, {}, c.to, "made", CopyText(c, D))
  BY DEF CopyEffect, DoCopy, Calls
<1>2. ~IsNull(c.from) => Text(c.from) = D.text[c.from]
  BY <1>1 DEF Fits, PointerFits
<1>3. \/ ~IsNull(c.from) /\ AllocateText(c.to, CopyText(c, D), {})
      \/ IsNull(c.from) /\ GetNull(c.to, {}, "null argument")
      \/ GetNull(c.to, {}, "no memory")
  BY <1>2 DEF DoCopy, CopyText
<1>4. Goes(Renewed(D, {}, c.to, "made", CopyText(c, D)))
  BY <1>1, <1>3, TextGoes
<1> QED
  BY <1>1, <1>4

\* DoPadd.
LEMMA PaddGoes ==
  ASSUME MemoryTyped, NEW D \in Description, Fits(D), NEW E, NEW c, c = call, PaddEffect(c, D, E),
         DoPadd
  PROVE  Goes(E) \/ Faults
<1>1. /\ end = "" /\ c.to \in Pointers /\ c.from \in Pointers /\ Knows(D, c.from) /\ ~Owns(D, c.to)
      /\ PaddText(c, D) \in MemText /\ E = Renewed(D, {}, c.to, "made", PaddText(c, D))
  BY DEF PaddEffect, DoPadd, Calls
<1>2. ~IsNull(c.from) => Text(c.from) = D.text[c.from]
  BY <1>1 DEF Fits, PointerFits
<1>3. \/ Stop("fault", "no memory")
      \/ ~IsNull(c.from) /\ AllocateText(c.to, PaddText(c, D), {})
      \/ IsNull(c.from) /\ GetNull(c.to, {}, "null argument")
      \/ GetNull(c.to, {}, "no memory")
  BY <1>2 DEF DoPadd, PaddText, PaddFails
<1>4. CASE Stop("fault", "no memory")
  BY <1>4, StopFaults
<1>5. CASE ~Stop("fault", "no memory")
  <2>1. Goes(Renewed(D, {}, c.to, "made", PaddText(c, D)))
    BY <1>1, <1>3, <1>5, TextGoes
  <2> QED
    BY <1>1, <2>1
<1> QED
  BY <1>4, <1>5

\* DoJoin.
LEMMA JoinGoes ==
  ASSUME MemoryTyped, NEW D \in Description, Fits(D), NEW E, NEW c, c = call, JoinEffect(c, D, E),
         DoJoin
  PROVE  Goes(E)
<1> DEFINE mode == IF Knows(D, c.a) /\ Knows(D, c.b) THEN "made" ELSE "blur"
           note == D.text[c.a] \o D.text[c.b]
           gone == {c.a, c.b}
<1>1. /\ end = "" /\ c.to \in Pointers /\ c.a \in Pointers /\ c.b \in Pointers /\ Owns(D, c.a)
      /\ Owns(D, c.b)
      /\ (c.to \in gone \/ ~Owns(D, c.to)) /\ Unseen(D)
      /\ E = Renewed(D, gone, c.to, mode, note)
  BY DEF JoinEffect, DoJoin, Calls
<1>2. D.text[c.a] \in MemText /\ D.text[c.b] \in MemText
  BY <1>1 DEF Description
<1>3. note \in MemText /\ mode \in Modes /\ mode \in {"made", "blur"}
  BY <1>2 DEF MemText, Modes
<1>4. gone \in SUBSET Pointers /\ \A p \in gone : Owns(D, p)
  BY <1>1
<1> DEFINE text == Text(c.a) \o Text(c.b)
<1>5. CASE /\ ~IsNull(c.a) /\ ~IsNull(c.b)
           /\ AllocateText(c.to, text, {ptr[c.a], ptr[c.b]})
  <2>1. ptr[c.a] \in DOMAIN heap /\ ptr[c.b] \in DOMAIN heap
    BY <1>1, <1>5 DEF Fits, PointerFits, Owns, Live
  <2>2. text \in MemText
    <3>1. heap[ptr[c.a]] \in Block /\ heap[ptr[c.b]] \in Block
      BY <2>1, TypedFacts
    <3> QED
      BY <3>1 DEF Block, Text, MemText
  <2>3. mode = "made" => note = text
    BY <1>1, <1>5 DEF Fits, PointerFits
  <2>4. {ptr[c.a], ptr[c.b]} = {ptr[p] : p \in gone} /\ \A p \in gone : ~IsNull(p)
    BY <1>5
  <2>5. BlockSized([text |-> text, size |-> Len(text) + 1, used |-> Len(text) + 1, for |-> c.to])
        /\ Len(text) + 1 \in Int
    BY <2>2, TextSized
  <2>6. Allocate(c.to, text, Len(text) + 1, Len(text) + 1, {ptr[c.a], ptr[c.b]})
    BY <1>5 DEF AllocateText
  <2> HIDE DEF text, note, mode, gone
  <2>7. Goes(Renewed(D, gone, c.to, mode, note))
    BY <1>1, <1>3, <1>4, <2>2, <2>3, <2>4, <2>5, <2>6, AllocateGoes
  <2> QED
    BY <1>1, <2>7
<1>6. ASSUME NEW why, GetNull(c.to, {}, why), why = "no memory" \/ IsNull(c.a) \/ IsNull(c.b)
      PROVE  Goes(E)
  <2>1. why = "no memory" \/ failed
    BY <1>1, <1>6 DEF Fits, PointerFits
  <2> HIDE DEF note, mode, gone
  <2>2. Goes(Renewed(D, gone, c.to, mode, note))
    BY <1>1, <1>3, <1>4, <1>6, <2>1, NullGoes
  <2> QED
    BY <1>1, <2>2
<1>7. \/ ~IsNull(c.a) /\ ~IsNull(c.b) /\ AllocateText(c.to, text, {ptr[c.a], ptr[c.b]})
      \/ (IsNull(c.a) \/ IsNull(c.b)) /\ GetNull(c.to, {}, "null argument")
      \/ GetNull(c.to, {}, "no memory")
  BY DEF DoJoin
<1> QED
  BY <1>5, <1>6, <1>7

\* DoDigits.
LEMMA DigitsGoes ==
  ASSUME MemoryTyped, NEW D \in Description, Fits(D), NEW E, NEW c, c = call,
         DigitsEffect(c, D, E), DoDigits
  PROVE  Goes(E) \/ Faults
<1> DEFINE freed == {ptr[p] : p \in c.from}
<1>1. /\ end = "" /\ c.to \in Pointers /\ c.from \in SUBSET Pointers
      /\ (\A p \in c.from : Owns(D, p))
      /\ (c.to \in c.from \/ ~Owns(D, c.to)) /\ (c.from = {} \/ Unseen(D)) /\ c.text \in MemText
      /\ E = Renewed(D, c.from, c.to, "made", c.text) /\ "made" \in Modes
      /\ "made" \in {"made", "blur"}
  BY DEF DigitsEffect, DoDigits, Calls, Modes
<1>2. \A p \in c.from : IsNull(p) => failed
  BY <1>1 DEF Fits, PointerFits
<1>3. \/ (\E p \in c.from : IsNull(p)) /\ Stop("fault", "null argument")
      \/ (\A p \in c.from : ~IsNull(p)) /\ AllocateText(c.to, c.text, freed)
      \/ GetNull(c.to, freed, "no memory")
      \/ Stop("fault", "no memory")
  BY DEF DoDigits
<1>4. CASE (\E p \in c.from : IsNull(p)) /\ Stop("fault", "null argument")
  BY <1>2, <1>4, StopFaults
<1>5. CASE (\A p \in c.from : ~IsNull(p)) /\ AllocateText(c.to, c.text, freed)
  <2>1. BlockSized([text |-> c.text, size |-> Len(c.text) + 1, used |-> Len(c.text) + 1, for |-> c.to])
        /\ Len(c.text) + 1 \in Int
    BY <1>1, TextSized
  <2>2. Allocate(c.to, c.text, Len(c.text) + 1, Len(c.text) + 1, freed)
    BY <1>5 DEF AllocateText
  <2>3. \A p \in c.from : Owns(D, p) /\ ~IsNull(p)
    BY <1>1, <1>5
  <2>4. Goes(Renewed(D, c.from, c.to, "made", c.text))
    BY <1>1, <2>1, <2>2, <2>3, AllocateGoes
  <2> QED
    BY <1>1, <2>4
<1>6. CASE GetNull(c.to, freed, "no memory")
  <2>1. Goes(Renewed(D, c.from, c.to, "made", c.text))
    BY <1>1, <1>6, NullGoes
  <2> QED
    BY <1>1, <2>1
<1>7. CASE Stop("fault", "no memory")
  BY <1>7, StopFaults
<1> QED
  BY <1>3, <1>4, <1>5, <1>6, <1>7

\* DoDel.
LEMMA DelGoes ==
  ASSUME MemoryTyped, NEW D \in Description, Fits(D), NEW E, NEW c, c = call, DelEffect(c, D, E),
         DoDel
  PROVE  Goes(E)
<1> DEFINE gone == {c.p}
<1>1. /\ end = "" /\ c.p \in Pointers /\ gone \in SUBSET Pointers /\ (\A p \in gone : Owns(D, p))
      /\ c.p \in gone
      /\ Unseen(D) /\ E = Renewed(D, gone, c.p, "null", <<>>)
  BY DEF DelEffect, DoDel, Calls
<1>2. "null" \in Modes /\ <<>> \in MemText
  BY DEF Modes, MemText
<1>3. GetNull(c.p, {ptr[c.p]}, "") /\ {ptr[c.p]} = {ptr[p] : p \in gone}
  BY DEF DoDel
<1> HIDE DEF gone
<1>4. Goes(Renewed(D, gone, c.p, "null", <<>>))
  BY <1>1, <1>2, <1>3, NullGoes
<1> QED
  BY <1>1, <1>4

\* DoMove.
LEMMA MoveGoes ==
  ASSUME MemoryTyped, NEW D \in Description, Fits(D), NEW E, NEW c, c = call, MoveEffect(c, D, E),
         DoMove
  PROVE  Goes(E)
<1>1. /\ end = "" /\ c.to \in Pointers /\ c.from \in Pointers /\ c.to # c.from /\ ~Owns(D, c.to)
      /\ ptr' = [ptr EXCEPT ![c.to] = ptr[c.from]] /\ todo' = Tail(todo)
      /\ UNCHANGED <<directive, value, heap, blocks, written, end, failed>>
  BY DEF MoveEffect, DoMove, Calls
<1>2. CASE D.mode[c.from] \in {"own", "made"} /\ E = Moved(D, c.to, c.from)
  <2>1. MemoryTyped' /\ Moved(D, c.to, c.from) \in Description /\ Fits(Moved(D, c.to, c.from))'
    BY <1>1, <1>2, MoveFits
  <2>2. Goes(Moved(D, c.to, c.from))
    BY <1>1, <2>1 DEF Goes
  <2> QED
    BY <1>2, <2>2
<1>3. CASE E = With(D, c.to, "any", <<>>)
  <2>1. ptr[c.from] \in Int
    BY <1>1, TypedFacts
  <2>2. /\ MemoryTyped' /\ With(D, c.to, "any", <<>>) \in Description
        /\ Fits(With(D, c.to, "any", <<>>))'
    BY <1>1, <2>1, AnyFits
  <2>3. Goes(With(D, c.to, "any", <<>>))
    BY <1>1, <2>2 DEF Goes
  <2> QED
    BY <1>3, <2>3
<1> QED
  BY <1>2, <1>3 DEF MoveEffect

\* DoPut.
LEMMA PutGoes ==
  ASSUME MemoryTyped, NEW D \in Description, Fits(D), NEW E, NEW c, c = call, PutEffect(c, D, E),
         DoPut
  PROVE  Goes(E)
<1>1. /\ end = "" /\ c.p \in Pointers /\ Knows(D, c.p) /\ D.text[c.p] = D.goal /\ ~D.printed
      /\ E = [D EXCEPT !.printed = TRUE] /\ todo' = Tail(todo)
      /\ written' = IF IsNull(c.p) THEN written ELSE written \o Text(c.p)
      /\ UNCHANGED <<directive, value, ptr, heap, blocks, end, failed>>
  BY DEF PutEffect, DoPut, Calls
<1>2. /\ MemoryTyped' /\ [D EXCEPT !.printed = TRUE] \in Description
      /\ Fits([D EXCEPT !.printed = TRUE])'
  BY <1>1, PutFits
<1>3. Goes([D EXCEPT !.printed = TRUE])
  BY <1>1, <1>2 DEF Goes
<1> QED
  BY <1>1, <1>3

-----------------------------------------------------------------------------
\* A call may say less.
LEMMA MovesWeaker ==
  ASSUME NEW c, NEW D, NEW E, NEW F, Moves(c, D, E), Weaker(E, F)
  PROVE  Moves(c, D, F)
BY WeakerStill DEF Moves

\* So may some of them.
LEMMA TripleWeaker ==
  ASSUME NEW c, NEW D \in Description, NEW E \in Description, NEW F \in Description,
         Triple(D, c, E), Weaker(E, F)
  PROVE  Triple(D, c, F)
<1>1. Triple(E, <<>>, F)
  BY EmptyTriple
<1>2. Triple(D, c \o <<>>, F)
  BY <1>1, JoinTriple
<1>3. PICK S : c \in Seq(S)
  BY DEF Triple
<1>4. c \o <<>> = c
  BY <1>3
<1> QED
  BY <1>2, <1>4

\* And some that start where more is known.
LEMMA TripleFrom ==
  ASSUME NEW c, NEW D, NEW E, NEW F, Weaker(D, E), Triple(E, c, F)
  PROVE  Triple(D, c, F)
<1>1. PICK S : c \in Seq(S) /\ \E A : Leads(A, c) /\ Weaker(E, A[0]) /\ A[Len(c)] = F
  BY DEF Triple
<1>2. PICK A : Leads(A, c) /\ Weaker(E, A[0]) /\ A[Len(c)] = F
  BY <1>1
<1>3. Weaker(D, A[0])
  BY <1>2, WeakerStill
<1> QED
  BY <1>1, <1>2, <1>3 DEF Triple

\* Short lists that are the same.
LEMMA SameList ==
  ASSUME NEW S, NEW s \in Seq(S), NEW t \in Seq(S), Len(s) = Len(t), Len(s) <= 4,
         Len(s) >= 1 => s[1] = t[1], Len(s) >= 2 => s[2] = t[2], Len(s) >= 3 => s[3] = t[3],
         Len(s) >= 4 => s[4] = t[4]
  PROVE  s = t
<1>1. ASSUME NEW k \in 1 .. Len(s)
      PROVE  s[k] = t[k]
  <2>1. Len(s) \in Nat /\ k \in {1, 2, 3, 4}
    BY SMT
  <2> QED
    BY <2>1, SMT
<1> QED
  BY <1>1, SeqEqual, SMT

\* A list of two calls is the first one and the rest.
LEMMA TwoCalls ==
  ASSUME NEW a, NEW b
  PROVE  <<a>> \o <<b>> = <<a, b>>
<1> DEFINE S == {a, b}
           s == <<a>> \o <<b>>
           t == <<a, b>>
<1>1. <<a>> \in Seq(S) /\ <<b>> \in Seq(S)
  OBVIOUS
<1>2. s \in Seq(S) /\ Len(s) = 2 /\ s[1] = a /\ s[2] = b
  BY <1>1
<1>3. t \in Seq(S) /\ Len(t) = 2 /\ t[1] = a /\ t[2] = b
  OBVIOUS
<1> HIDE DEF S, s, t
<1>4. s = t
  BY <1>2, <1>3, SameList
<1> QED
  BY <1>4 DEF s, t

\* And one of three.
LEMMA ThreeCalls ==
  ASSUME NEW a, NEW b, NEW c
  PROVE  <<a>> \o <<b, c>> = <<a, b, c>>
<1> DEFINE S == {a, b, c}
           s == <<a>> \o <<b, c>>
           t == <<a, b, c>>
<1>1. <<a>> \in Seq(S) /\ <<b, c>> \in Seq(S)
  OBVIOUS
<1>2. s \in Seq(S) /\ Len(s) = 3 /\ s[1] = a /\ s[2] = b /\ s[3] = c
  BY <1>1
<1>3. t \in Seq(S) /\ Len(t) = 3 /\ t[1] = a /\ t[2] = b /\ t[3] = c
  OBVIOUS
<1> HIDE DEF S, s, t
<1>4. s = t
  BY <1>2, <1>3, SameList
<1> QED
  BY <1>4 DEF s, t

\* And one of four.
LEMMA FourCalls ==
  ASSUME NEW a, NEW b, NEW c, NEW d
  PROVE  <<a>> \o <<b, c, d>> = <<a, b, c, d>>
<1> DEFINE S == {a, b, c, d}
           s == <<a>> \o <<b, c, d>>
           t == <<a, b, c, d>>
<1>1. <<a>> \in Seq(S) /\ <<b, c, d>> \in Seq(S)
  OBVIOUS
<1>2. s \in Seq(S) /\ Len(s) = 4 /\ s[1] = a /\ s[2] = b /\ s[3] = c /\ s[4] = d
  BY <1>1
<1>3. t \in Seq(S) /\ Len(t) = 4 /\ t[1] = a /\ t[2] = b /\ t[3] = c /\ t[4] = d
  OBVIOUS
<1> HIDE DEF S, s, t
<1>4. s = t
  BY <1>2, <1>3, SameList
<1> QED
  BY <1>4 DEF s, t

\* Two calls.
LEMMA TwoTriple ==
  ASSUME NEW D \in Description, NEW E \in Description, NEW F \in Description, NEW a, NEW b,
         Moves(a, D, E), Moves(b, E, F)
  PROVE  Triple(D, <<a, b>>, F)
<1>1. Triple(D, <<a>>, E) /\ Triple(E, <<b>>, F)
  BY OneTriple
<1>2. Triple(D, <<a>> \o <<b>>, F)
  BY <1>1, JoinTriple
<1>3. <<a>> \o <<b>> = <<a, b>>
  BY TwoCalls, Zenon
<1> QED
  BY <1>2, <1>3

\* A call and more of them.
LEMMA MoreTriple ==
  ASSUME NEW D \in Description, NEW E \in Description, NEW F \in Description, NEW a, NEW c,
         Moves(a, D, E), Triple(E, c, F)
  PROVE  Triple(D, <<a>> \o c, F)
<1>1. Triple(D, <<a>>, E)
  BY OneTriple
<1> QED
  BY <1>1, JoinTriple

\* Three calls.
LEMMA ThreeTriple ==
  ASSUME NEW D \in Description, NEW E \in Description, NEW F \in Description, NEW G \in Description,
         NEW a, NEW b, NEW c, Moves(a, D, E), Moves(b, E, F), Moves(c, F, G)
  PROVE  Triple(D, <<a, b, c>>, G)
<1>1. Triple(E, <<b, c>>, G)
  BY TwoTriple
<1>2. Triple(D, <<a>> \o <<b, c>>, G)
  BY <1>1, MoreTriple
<1>3. <<a>> \o <<b, c>> = <<a, b, c>>
  BY ThreeCalls, Zenon
<1> QED
  BY <1>2, <1>3

\* Four.
LEMMA FourTriple ==
  ASSUME NEW D \in Description, NEW E \in Description, NEW F \in Description, NEW G \in Description,
         NEW H \in Description, NEW a, NEW b, NEW c, NEW d,
         Moves(a, D, E), Moves(b, E, F), Moves(c, F, G), Moves(d, G, H)
  PROVE  Triple(D, <<a, b, c, d>>, H)
<1>1. Triple(E, <<b, c, d>>, H)
  BY ThreeTriple
<1>2. Triple(D, <<a>> \o <<b, c, d>>, H)
  BY <1>1, MoreTriple
<1>3. <<a>> \o <<b, c, d>> = <<a, b, c, d>>
  BY FourCalls, Zenon
<1> QED
  BY <1>2, <1>3

\* The effects of the single calls.
LEMMA EffectMoves ==
  ASSUME NEW c, NEW D, NEW E \in Description, Effect(c, D, E)
  PROVE  Moves(c, D, E)
BY WeakerSelf DEF Moves

\* ft_strdup.
LEMMA DupMoves ==
  ASSUME NEW D \in Description, NEW to \in Pointers, ~Owns(D, to), NEW text \in MemText
  PROVE  LET E == Renewed(D, {}, to, "made", text)
         IN /\ Moves(ft_strdup(to, text), D, E) /\ Moves(Filled(to, text), D, E)
            /\ Renews(D, E, {}, to, "made", text)
<1> DEFINE E == Renewed(D, {}, to, "made", text)
<1>1. "made" \in Modes
  BY DEF Modes
<1>2. Renews(D, E, {}, to, "made", text)
  BY <1>1, RenewedFacts, Zenon
<1>3. E \in Description
  BY <1>2, Zenon DEF Renews
<1>4. /\ BlockSized([text |-> text, size |-> Len(text) + 1, used |-> Len(text) + 1, for |-> to])
      /\ Len(text) + 1 \in Int
  BY TextSized
<1>5. MakeEffect(ft_strdup(to, text), D, E) /\ MakeEffect(Filled(to, text), D, E)
  BY <1>4 DEF MakeEffect, ft_strdup, Filled, Make
<1> HIDE DEF E
<1>6. Moves(ft_strdup(to, text), D, E) /\ Moves(Filled(to, text), D, E)
  BY <1>3, <1>5, EffectMoves, Zenon DEF Effect
<1> QED
  BY <1>2, <1>6 DEF E

\* Copies.
LEMMA CopyMoves ==
  ASSUME NEW D \in Description, NEW to \in Pointers, NEW from \in Pointers, Knows(D, from),
         ~Owns(D, to),
         NEW front, NEW start, NEW len, NEW text \in MemText,
         text = front \o SubSeq(D.text[from], start + 1, start + len)
  PROVE  LET E == Renewed(D, {}, to, "made", text)
         IN Moves(Copy(to, front, from, start, len), D, E) /\ Renews(D, E, {}, to, "made", text)
<1> DEFINE E == Renewed(D, {}, to, "made", text)
<1>1. "made" \in Modes
  BY DEF Modes
<1>2. Renews(D, E, {}, to, "made", text)
  BY <1>1, RenewedFacts, Zenon
<1>3. E \in Description
  BY <1>2, Zenon DEF Renews
<1> DEFINE c == Copy(to, front, from, start, len)
<1>4. /\ c.op = "copy" /\ c.to = to /\ c.from = from /\ c.front = front /\ c.start = start
      /\ c.len = len
  BY DEF Copy
<1> HIDE DEF c
<1>5. CopyText(c, D) = text
  BY <1>4, Zenon DEF CopyText
<1>6. CopyEffect(c, D, E)
  BY <1>4, <1>5 DEF CopyEffect
<1> HIDE DEF E
<1>7. Moves(c, D, E)
  BY <1>3, <1>6, EffectMoves, Zenon DEF Effect
<1> QED
  BY <1>2, <1>7 DEF E, c

\* Padding.
LEMMA PaddMoves ==
  ASSUME NEW D \in Description, NEW to \in Pointers, NEW from \in Pointers, Knows(D, from),
         ~Owns(D, to),
         NEW skip, NEW n, NEW ch, NEW side, NEW text \in MemText,
         text = padd(SubSeq(D.text[from], skip + 1, Len(D.text[from])), n, ch, side)
  PROVE  LET E == Renewed(D, {}, to, "made", text)
         IN Moves(Padded(to, from, skip, n, ch, side), D, E) /\ Renews(D, E, {}, to, "made", text)
<1> DEFINE E == Renewed(D, {}, to, "made", text)
<1>1. "made" \in Modes
  BY DEF Modes
<1>2. Renews(D, E, {}, to, "made", text)
  BY <1>1, RenewedFacts, Zenon
<1>3. E \in Description
  BY <1>2, Zenon DEF Renews
<1> DEFINE c == Padded(to, from, skip, n, ch, side)
<1>4. /\ c.op = "padd" /\ c.to = to /\ c.from = from /\ c.skip = skip /\ c.n = n /\ c.c = ch
      /\ c.side = side
  BY DEF Padded
<1> HIDE DEF c
<1>5. PaddText(c, D) = text
  BY <1>4, Zenon DEF PaddText
<1>6. PaddEffect(c, D, E)
  BY <1>4, <1>5 DEF PaddEffect
<1> HIDE DEF E
<1>7. Moves(c, D, E)
  BY <1>3, <1>6, EffectMoves, Zenon DEF Effect
<1> QED
  BY <1>2, <1>7 DEF E, c

\* Joining two strings.
LEMMA JoinMoves ==
  ASSUME NEW D \in Description, NEW to \in Pointers, NEW a \in Pointers, NEW b \in Pointers, a # b,
         Owns(D, a), Owns(D, b), to \in {a, b} \/ ~Owns(D, to), Unseen(D)
  PROVE  LET mode == IF Knows(D, a) /\ Knows(D, b) THEN "made" ELSE "blur"
             E    == Renewed(D, {a, b}, to, mode, D.text[a] \o D.text[b])
         IN /\ Moves(ft_strjoin_free(to, a, b), D, E)
            /\ Renews(D, E, {a, b}, to, mode, D.text[a] \o D.text[b])
<1> DEFINE mode == IF Knows(D, a) /\ Knows(D, b) THEN "made" ELSE "blur"
           note == D.text[a] \o D.text[b]
           E == Renewed(D, {a, b}, to, mode, note)
<1>1. mode \in Modes /\ note \in MemText
  BY DEF Modes, MemText, Description
<1>2. Renews(D, E, {a, b}, to, mode, note)
  BY <1>1, RenewedFacts, Zenon
<1>3. E \in Description
  BY <1>2, Zenon DEF Renews
<1> DEFINE c == ft_strjoin_free(to, a, b)
<1>4. c.op = "join" /\ c.to = to /\ c.a = a /\ c.b = b
  BY DEF ft_strjoin_free
<1> HIDE DEF c
<1>5. JoinEffect(c, D, E)
  BY <1>4 DEF JoinEffect
<1> HIDE DEF E
<1>6. Moves(c, D, E)
  BY <1>3, <1>5, EffectMoves, Zenon DEF Effect
<1> QED
  BY <1>2, <1>6 DEF E, c

\* Sums and products.
LEMMA DigitsMoves ==
  ASSUME NEW D \in Description, NEW to \in Pointers, NEW from \in SUBSET Pointers,
         \A p \in from : Owns(D, p),
         to \in from \/ ~Owns(D, to), from = {} \/ Unseen(D), NEW text \in MemText
  PROVE  LET E == Renewed(D, from, to, "made", text)
         IN Moves(Computed(to, from, text), D, E) /\ Renews(D, E, from, to, "made", text)
<1> DEFINE E == Renewed(D, from, to, "made", text)
<1>1. "made" \in Modes
  BY DEF Modes
<1>2. Renews(D, E, from, to, "made", text)
  BY <1>1, RenewedFacts, Zenon
<1>3. E \in Description
  BY <1>2, Zenon DEF Renews
<1> DEFINE c == Computed(to, from, text)
<1>4. c.op = "digits" /\ c.to = to /\ c.from = from /\ c.text = text
  BY DEF Computed
<1> HIDE DEF c
<1>5. DigitsEffect(c, D, E)
  BY <1>4 DEF DigitsEffect
<1> HIDE DEF E
<1>6. Moves(c, D, E)
  BY <1>3, <1>5, EffectMoves, Zenon DEF Effect
<1> QED
  BY <1>2, <1>6 DEF E, c

\* ft_strdel.
LEMMA DelMoves ==
  ASSUME NEW D \in Description, NEW p \in Pointers, Owns(D, p), Unseen(D)
  PROVE  LET E == Renewed(D, {p}, p, "null", <<>>)
         IN Moves(ft_strdel(p), D, E) /\ Renews(D, E, {p}, p, "null", <<>>)
<1> DEFINE E == Renewed(D, {p}, p, "null", <<>>)
<1>1. "null" \in Modes /\ <<>> \in MemText
  BY DEF Modes, MemText
<1>2. Renews(D, E, {p}, p, "null", <<>>)
  BY <1>1, RenewedFacts, Zenon
<1>3. E \in Description
  BY <1>2, Zenon DEF Renews
<1> DEFINE c == ft_strdel(p)
<1>4. c.op = "del" /\ c.p = p
  BY DEF ft_strdel
<1> HIDE DEF c
<1>5. DelEffect(c, D, E)
  BY <1>4 DEF DelEffect
<1> HIDE DEF E
<1>6. Moves(c, D, E)
  BY <1>3, <1>5, EffectMoves, Zenon DEF Effect
<1> QED
  BY <1>2, <1>6 DEF E, c

\* Handing a pointer on, with its block or without.
LEMMA MoveMoves ==
  ASSUME NEW D \in Description, NEW to \in Pointers, NEW from \in Pointers, to # from, ~Owns(D, to),
         D.mode[from] \in {"own", "made"}
  PROVE  LET E == Moved(D, to, from)
         IN Moves(Move(to, from), D, E) /\ Shifts(D, E, to, from)
<1> DEFINE E == Moved(D, to, from)
           c == Move(to, from)
<1>1. Shifts(D, E, to, from)
  BY MovedFacts, Zenon
<1>2. E \in Description
  BY <1>1, Zenon DEF Shifts
<1>3. c.op = "move" /\ c.to = to /\ c.from = from
  BY DEF Move
<1> HIDE DEF c
<1>4. MoveEffect(c, D, E)
  BY <1>3 DEF MoveEffect
<1> HIDE DEF E
<1>5. Moves(c, D, E)
  BY <1>2, <1>4, EffectMoves, Zenon DEF Effect
<1> QED
  BY <1>1, <1>5 DEF E, c

\* Without it.
LEMMA KeepMoves ==
  ASSUME NEW D \in Description, NEW to \in Pointers, NEW from \in Pointers, to # from, ~Owns(D, to)
  PROVE  LET E == With(D, to, "any", <<>>)
         IN Moves(Move(to, from), D, E) /\ Renews(D, E, {}, to, "any", <<>>)
<1> DEFINE E == With(D, to, "any", <<>>)
           c == Move(to, from)
<1>1. Renews(D, E, {}, to, "any", <<>>)
  <2>1. "any" \in Modes /\ <<>> \in MemText
    BY DEF Modes, MemText
  <2>2. /\ E \in Description /\ E.lost = D.lost /\ E.goal = D.goal /\ E.printed = D.printed
        /\ E.mode[to] = "any" /\ E.text[to] = <<>>
        /\ \A q \in Pointers : q # to => E.mode[q] = D.mode[q] /\ E.text[q] = D.text[q]
    BY <2>1, WithFacts
  <2> HIDE DEF E
  <2> QED
    BY <2>2 DEF Renews
<1>2. E \in Description
  BY <1>1, Zenon DEF Renews
<1>3. c.op = "move" /\ c.to = to /\ c.from = from
  BY DEF Move
<1> HIDE DEF c
<1>4. MoveEffect(c, D, E)
  BY <1>3 DEF MoveEffect
<1> HIDE DEF E
<1>5. Moves(c, D, E)
  BY <1>2, <1>4, EffectMoves, Zenon DEF Effect
<1> QED
  BY <1>1, <1>5 DEF E, c

\* ft_putstr.
LEMMA PutMoves ==
  ASSUME NEW D \in Description, NEW p \in Pointers, Knows(D, p), D.text[p] = D.goal, ~D.printed
  PROVE  LET E == [D EXCEPT !.printed = TRUE]
         IN Moves(ft_putstr(p), D, E) /\ E \in Description
<1> DEFINE E == [D EXCEPT !.printed = TRUE]
           c == ft_putstr(p)
<1>1. E \in Description
  BY DEF Description
<1>2. c.op = "put" /\ c.p = p
  BY DEF ft_putstr
<1> HIDE DEF c
<1>3. PutEffect(c, D, E)
  BY <1>2 DEF PutEffect
<1> HIDE DEF E
<1>4. Moves(c, D, E)
  BY <1>1, <1>3, EffectMoves, Zenon DEF Effect
<1> QED
  BY <1>1, <1>4 DEF E, c

\* Entering a function.
LEMMA EnterMoves ==
  ASSUME NEW D \in Description, NEW E \in Description, NEW f,
         \A p \in ReadsOf(f) : p \in Pointers /\ Owns(D, p),
         Contract(f, D, E)
  PROVE  Moves(Enter(f), D, E)
<1> DEFINE c == Enter(f)
<1>1. c.op = "enter" /\ c.f = f
  BY DEF Enter
<1> HIDE DEF c
<1>2. EnterEffect(c, D, E)
  BY <1>1 DEF EnterEffect
<1>3. Moves(c, D, E)
  BY <1>2, EffectMoves, Zenon DEF Effect
<1> QED
  BY <1>3 DEF c

-----------------------------------------------------------------------------
\* Texts

\* Padding makes texts.
LEMMA PaddedText ==
  ASSUME NEW t \in MemText, NEW n \in Int, NEW c \in MemChar, NEW side
  PROVE  /\ padd(t, n, c, side) \in MemText
         /\ Len(padd(t, n, c, side)) = Len(t) + (IF n <= 0 THEN 0 ELSE n)
         /\ n <= 0 => padd(t, n, c, side) = t
<1>1. CASE n <= 0
  BY <1>1 DEF padd, MemText
<1>2. CASE n > 0
  <2>1. Repeat(c, n) \in MemText /\ Len(Repeat(c, n)) = n
    BY <1>2 DEF Repeat, MemText
  <2>2. t \o Repeat(c, n) \in MemText /\ Repeat(c, n) \o t \in MemText
    BY <2>1 DEF MemText
  <2>3. Len(t \o Repeat(c, n)) = Len(t) + n /\ Len(Repeat(c, n) \o t) = Len(t) + n
    BY <2>1 DEF MemText
  <2> QED
    BY <1>2, <2>2, <2>3 DEF padd
<1> QED
  BY <1>1, <1>2

\* Parts of a text.
LEMMA TextParts ==
  ASSUME NEW t \in MemText
  PROVE  /\ Len(t) \in Nat
         /\ \A n \in 0 .. Len(t) : /\ SubSeq(t, 1, n) \in MemText /\ Len(SubSeq(t, 1, n)) = n
                                   /\ Drop(t, n) \in MemText /\ Len(Drop(t, n)) = Len(t) - n
                                   /\ SubSeq(t, 1, n) \o Drop(t, n) = t
         /\ SubSeq(t, 1, 0) = <<>> /\ SubSeq(t, 1, Len(t)) = t /\ Drop(t, 0) = t
         /\ t # <<>> => Len(t) >= 1 /\ SubSeq(t, 1, 1) = <<t[1]>> /\ t[1] \in MemChar
<1> USE DEF MemText
<1>1. Len(t) \in Nat
  OBVIOUS
<1>2. ASSUME NEW n \in 0 .. Len(t)
      PROVE  /\ SubSeq(t, 1, n) \in MemText /\ Len(SubSeq(t, 1, n)) = n
             /\ Drop(t, n) \in MemText /\ Len(Drop(t, n)) = Len(t) - n
             /\ SubSeq(t, 1, n) \o Drop(t, n) = t
  <2>1. /\ SubSeq(t, 1, n) \in Seq(MemChar) /\ Len(SubSeq(t, 1, n)) = n
        /\ \A k \in 1 .. n : SubSeq(t, 1, n)[k] = t[k]
    OBVIOUS
  <2>2. /\ Drop(t, n) \in Seq(MemChar) /\ Len(Drop(t, n)) = Len(t) - n
        /\ \A k \in 1 .. Len(t) - n : Drop(t, n)[k] = t[k + n]
    BY DEF Drop
  <2> DEFINE u == SubSeq(t, 1, n) \o Drop(t, n)
  <2>3. u \in Seq(MemChar) /\ Len(u) = Len(t) /\ \A k \in 1 .. Len(t) : u[k] = t[k]
    BY <2>1, <2>2
  <2> HIDE DEF u
  <2>4. u = t
    BY <2>3, SeqEqual
  <2> QED
    BY <2>1, <2>2, <2>4 DEF u
<1>3. SubSeq(t, 1, 0) = <<>> /\ SubSeq(t, 1, Len(t)) = t /\ Drop(t, 0) = t
  BY DEF Drop
<1>4. t # <<>> => Len(t) >= 1 /\ t[1] \in MemChar
  OBVIOUS
<1>5. ASSUME t # <<>>
      PROVE  SubSeq(t, 1, 1) = <<t[1]>>
  <2> DEFINE u == SubSeq(t, 1, 1)
             w == <<t[1]>>
  <2>1. u \in Seq(MemChar) /\ Len(u) = 1 /\ u[1] = t[1]
    BY <1>5
  <2>2. w \in Seq(MemChar) /\ Len(w) = 1 /\ w[1] = t[1]
    BY <1>4, <1>5
  <2> HIDE DEF u, w
  <2>3. u = w
    BY <2>1, <2>2, SameList
  <2> QED
    BY <2>3 DEF u, w
<1> QED
  BY <1>1, <1>2, <1>3, <1>4, <1>5

\* The characters that are put into texts.
LEMMA OwnMemChars ==
  {"0", " ", Blank, "-", "+", "x", "b", ".", "?", "1"} \subseteq MemChar
BY DEF MemChar, Letters, Blank

-----------------------------------------------------------------------------
\* Descriptions of one pointer.
IsOnly(E, p, mode, text, lost, goal) ==
  /\ E \in Description /\ E.mode[p] = mode /\ E.text[p] = text
  /\ \A q \in Pointers \ {p} : E.mode[q] = "any"
  /\ E.lost = lost /\ E.goal = goal /\ ~E.printed

\* Nothing is said.
LEMMA NothingFacts ==
  ASSUME NEW lost \in SUBSET Pointers, NEW goal \in MemText
  PROVE  LET E == Nothing(lost, goal)
         IN /\ E \in Description /\ E.lost = lost /\ E.goal = goal /\ ~E.printed
            /\ \A q \in Pointers : E.mode[q] = "any"
<1>1. "any" \in Modes /\ <<>> \in MemText
  BY DEF Modes, MemText
<1> QED
  BY <1>1 DEF Nothing, Description

\* But of one pointer.
LEMMA OnlyFacts ==
  ASSUME NEW p \in Pointers, NEW mode \in Modes, NEW text \in MemText,
         NEW lost \in SUBSET Pointers, NEW goal \in MemText
  PROVE  IsOnly(Only(p, mode, text, lost, goal), p, mode, text, lost, goal)
<1> DEFINE N == Nothing(lost, goal)
           E == With(N, p, mode, text)
<1>1. /\ N \in Description /\ N.lost = lost /\ N.goal = goal /\ ~N.printed
      /\ \A q \in Pointers : N.mode[q] = "any"
  BY NothingFacts
<1> HIDE DEF N
<1>2. /\ E \in Description /\ E.lost = N.lost /\ E.goal = N.goal /\ E.printed = N.printed
      /\ E.mode[p] = mode /\ E.text[p] = text
      /\ \A q \in Pointers : q # p => E.mode[q] = N.mode[q] /\ E.text[q] = N.text[q]
  BY <1>1, WithFacts
<1>3. E = Only(p, mode, text, lost, goal)
  BY DEF Only, N
<1> HIDE DEF E
<1>4. IsOnly(E, p, mode, text, lost, goal)
  BY <1>1, <1>2 DEF IsOnly
<1> QED
  BY <1>3, <1>4

\* With alone renews a description, too.
LEMMA WithRenews ==
  ASSUME NEW D \in Description, NEW p \in Pointers, NEW mode \in Modes, NEW text \in MemText
  PROVE  Renews(D, With(D, p, mode, text), {}, p, mode, text)
<1> DEFINE W == With(D, p, mode, text)
<1>1. /\ W \in Description /\ W.lost = D.lost /\ W.goal = D.goal /\ W.printed = D.printed
      /\ W.mode[p] = mode /\ W.text[p] = text
      /\ \A q \in Pointers : q # p => W.mode[q] = D.mode[q] /\ W.text[q] = D.text[q]
  BY WithFacts
<1> HIDE DEF W
<1>2. Renews(D, W, {}, p, mode, text)
  BY <1>1 DEF Renews
<1> QED
  BY <1>2 DEF W

\* Such a description says no more than what has the same pointer.
LEMMA WeakerOnly ==
  ASSUME NEW D \in Description, NEW E, NEW p \in Pointers, NEW mode, NEW text, NEW lost, NEW goal,
         IsOnly(E, p, mode, text, lost, goal), D.mode[p] = mode \/ (D.mode[p] = "made" /\ mode = "own"),
         mode \in {"own", "made"} => D.text[p] = text, mode # "see",
         \A q \in Pointers : q # p => ~Owns(D, q), D.lost = lost, D.goal = goal, ~D.printed
  PROVE  Weaker(D, E)
<1>1. D.printed = E.printed
  BY DEF IsOnly, Description
<1>2. ASSUME NEW q \in Pointers
      PROVE  \/ D.mode[q] = E.mode[q] /\ (Knows(E, q) => D.text[q] = E.text[q])
             \/ D.mode[q] = "made" /\ E.mode[q] = "own" /\ D.text[q] = E.text[q]
             \/ D.mode[q] \in {"made", "own"} /\ E.mode[q] = "blur"
             \/ ~Owns(D, q) /\ E.mode[q] = "any"
  <2>1. CASE q = p
    BY <2>1 DEF IsOnly, Knows
  <2>2. CASE q # p
    BY <2>2 DEF IsOnly
  <2> QED
    BY <2>1, <2>2
<1>3. D.lost = E.lost /\ D.goal = E.goal
  BY DEF IsOnly
<1> QED
  BY <1>1, <1>2, <1>3 DEF Weaker

\* Replacing the string of a pointer, whatever makes the new one.
LEMMA ReplaceTriple ==
  ASSUME NEW D \in Description, NEW p \in Pointers, p # "tmp", D.mode[p] \in {"own", "made"},
         D.mode["tmp"] = "any",
         NEW M \in Description, NEW calls, Triple(Moved(D, "tmp", p), calls,
                                                  M), M.mode["tmp"] = "own", Unseen(M)
  PROVE  LET E == Renewed(M, {"tmp"}, "tmp", "null", <<>>)
         IN Triple(D, Replace(p, calls), E) /\ Renews(M, E, {"tmp"}, "tmp", "null", <<>>)
<1> DEFINE A == Moved(D, "tmp", p)
           E == Renewed(M, {"tmp"}, "tmp", "null", <<>>)
<1>1. "tmp" \in Pointers /\ ~Owns(D, "tmp") /\ Owns(M, "tmp")
  BY DEF Pointers, Owns
<1>2. Moves(Move("tmp", p), D, A) /\ Shifts(D, A, "tmp", p)
  BY <1>1, MoveMoves, Zenon
<1>3. Moves(ft_strdel("tmp"), M, E) /\ Renews(M, E, {"tmp"}, "tmp", "null", <<>>)
  BY <1>1, DelMoves, Zenon
<1>4. A \in Description /\ E \in Description
  BY <1>2, <1>3, Zenon DEF Shifts, Renews
<1> HIDE DEF A
<1>5. Triple(D, <<Move("tmp", p)>>, A) /\ Triple(M, <<ft_strdel("tmp")>>, E)
  BY <1>2, <1>3, <1>4, OneTriple
<1>6. Triple(D, <<Move("tmp", p)>> \o calls, M)
  BY <1>4, <1>5, JoinTriple DEF A
<1>7. Triple(D, (<<Move("tmp", p)>> \o calls) \o <<ft_strdel("tmp")>>, E)
  BY <1>4, <1>5, <1>6, JoinTriple
<1> QED
  BY <1>3, <1>7 DEF Replace

\* Replacing it with one call.
LEMMA ReplaceOne ==
  ASSUME NEW D \in Description, NEW p \in Pointers, p # "tmp", D.mode[p] \in {"own", "made"},
         D.mode["tmp"] = "any",
         Unseen(D), NEW c, NEW text \in MemText,
         LET A == Moved(D, "tmp", p) IN Moves(c, A, Renewed(A, {}, p, "made", text))
  PROVE  LET E == Renewed(D, {}, p, "made", text)
         IN Triple(D, Replace(p, <<c>>), E) /\ Renews(D, E, {}, p, "made", text)
<1> DEFINE A == Moved(D, "tmp", p)
           M == Renewed(A, {}, p, "made", text)
           E == Renewed(D, {}, p, "made", text)
           F == Renewed(M, {"tmp"}, "tmp", "null", <<>>)
<1>1. "tmp" \in Pointers /\ "made" \in Modes
  BY DEF Pointers, Modes
<1>2. Shifts(D, A, "tmp", p)
  BY <1>1, MovedFacts, Zenon
<1>3. A \in Description
  BY <1>2, Zenon DEF Shifts
<1>4. Renews(A, M, {}, p, "made", text) /\ Renews(D, E, {}, p, "made", text)
  BY <1>1, <1>3, RenewedFacts, Zenon
<1>5. M \in Description /\ E \in Description
  BY <1>4, Zenon DEF Renews
<1>6. Triple(A, <<c>>, M)
  BY <1>3, <1>5, OneTriple
<1> HIDE DEF A, M, E
<1>7. M.mode["tmp"] = "own" /\ Unseen(M)
  BY <1>1, <1>2, <1>4 DEF Shifts, Renews, Unseen
<1>8. Triple(D, Replace(p, <<c>>), F) /\ Renews(M, F, {"tmp"}, "tmp", "null", <<>>)
  BY <1>5, <1>6, <1>7, ReplaceTriple DEF A
<1>9. F \in Description
  BY <1>8, Zenon DEF Renews
<1> HIDE DEF F
<1>10. Weaker(F, E)
  BY <1>1, <1>2, <1>4, <1>8 DEF Shifts, Renews, Weaker, Owns, Knows
<1>11. Triple(D, Replace(p, <<c>>), E)
  BY <1>5, <1>8, <1>9, <1>10, TripleWeaker
<1> QED
  BY <1>4, <1>11 DEF E

\* Replacing it by itself with some padding.
LEMMA ReplacePadd ==
  ASSUME NEW D \in Description, NEW p \in Pointers, p # "tmp", D.mode[p] \in {"own", "made"},
         D.mode["tmp"] = "any",
         Unseen(D), NEW skip, NEW n, NEW ch, NEW side, NEW text \in MemText,
         text = padd(SubSeq(D.text[p], skip + 1, Len(D.text[p])), n, ch, side)
  PROVE  LET E == Renewed(D, {}, p, "made", text)
         IN /\ Triple(D, Replace(p, <<Padded(p, p, skip, n, ch, side)>>), E)
            /\ Renews(D, E, {}, p, "made", text)
<1> DEFINE A == Moved(D, "tmp", p)
           E == Renewed(D, {}, p, "made", text)
           c == Padded(p, p, skip, n, ch, side)
<1>1. "tmp" \in Pointers
  BY DEF Pointers
<1>2. Shifts(D, A, "tmp", p)
  BY <1>1, MovedFacts, Zenon
<1>3. A \in Description /\ Knows(A, p) /\ ~Owns(A, p) /\ A.text[p] = D.text[p]
  BY <1>2 DEF Shifts, Knows, Owns
<1>4. Moves(c, A, Renewed(A, {}, p, "made", text))
  <2> HIDE DEF A
  <2> QED
    BY <1>3, PaddMoves
<1> HIDE DEF c
<1>5. Triple(D, Replace(p, <<c>>), E) /\ Renews(D, E, {}, p, "made", text)
  BY <1>4, ReplaceOne
<1> QED
  BY <1>5 DEF c

\* Replacing it by a copy of a part.
LEMMA ReplaceCopy ==
  ASSUME NEW D \in Description, NEW p \in Pointers, p # "tmp", D.mode[p] \in {"own", "made"},
         D.mode["tmp"] = "any",
         Unseen(D), NEW front, NEW start, NEW len, NEW text \in MemText,
         text = front \o SubSeq(D.text[p], start + 1, start + len)
  PROVE  LET E == Renewed(D, {}, p, "made", text)
         IN /\ Triple(D, Replace(p, <<Copy(p, front, p, start, len)>>), E)
            /\ Renews(D, E, {}, p, "made", text)
<1> DEFINE A == Moved(D, "tmp", p)
           E == Renewed(D, {}, p, "made", text)
           c == Copy(p, front, p, start, len)
<1>1. "tmp" \in Pointers
  BY DEF Pointers
<1>2. Shifts(D, A, "tmp", p)
  BY <1>1, MovedFacts, Zenon
<1>3. A \in Description /\ Knows(A, p) /\ ~Owns(A, p) /\ A.text[p] = D.text[p]
  BY <1>2 DEF Shifts, Knows, Owns
<1>4. Moves(c, A, Renewed(A, {}, p, "made", text))
  <2> HIDE DEF A
  <2> QED
    BY <1>3, CopyMoves
<1> HIDE DEF c
<1>5. Triple(D, Replace(p, <<c>>), E) /\ Renews(D, E, {}, p, "made", text)
  BY <1>4, ReplaceOne
<1> QED
  BY <1>5 DEF c

\* Replacing it by a string of its own.
LEMMA ReplaceDup ==
  ASSUME NEW D \in Description, NEW p \in Pointers, p # "tmp", D.mode[p] \in {"own", "made"},
         D.mode["tmp"] = "any",
         Unseen(D), NEW text \in MemText
  PROVE  LET E == Renewed(D, {}, p, "made", text)
         IN Triple(D, Replace(p, <<ft_strdup(p, text)>>), E) /\ Renews(D, E, {}, p, "made", text)
<1> DEFINE A == Moved(D, "tmp", p)
           E == Renewed(D, {}, p, "made", text)
           c == ft_strdup(p, text)
<1>1. "tmp" \in Pointers
  BY DEF Pointers
<1>2. Shifts(D, A, "tmp", p)
  BY <1>1, MovedFacts, Zenon
<1>3. A \in Description /\ ~Owns(A, p)
  BY <1>2 DEF Shifts, Owns
<1>4. Moves(c, A, Renewed(A, {}, p, "made", text))
  <2> HIDE DEF A
  <2> QED
    BY <1>3, DupMoves
<1> HIDE DEF c
<1>5. Triple(D, Replace(p, <<c>>), E) /\ Renews(D, E, {}, p, "made", text)
  BY <1>4, ReplaceOne
<1> QED
  BY <1>5 DEF c

-----------------------------------------------------------------------------
\* What is known of the directive and the value.
LEMMA ConversionFacts ==
  ASSUME MemoryTyped
  PROVE  /\ directive.spec \in STRING /\ directive.width \in Int /\ directive.precision \in Int
         /\ MantBits \in Nat \ {0}
         /\ directive.spec \in SpecsDI => value \in Int
         /\ directive.spec \in SpecsPOUBX => value \in Nat
         /\ directive.spec = "s" => value \in Seq(STRING)
         /\ directive.spec = "f" => value \in FloatRecord
<1>1. PICK c \in Conversion : directive = c[1] /\ value = c[2]
  BY DEF MemoryTyped
<1>2. /\ c[1].spec \in STRING /\ {c[1].width, c[1].precision} \subseteq Int
      /\ MantBits \in Nat \ {0}
      /\ c[1].spec \in SpecsDI => c[2] \in Int
      /\ c[1].spec \in SpecsPOUBX => c[2] \in Nat
      /\ c[1].spec = "s" => c[2] \in Seq(STRING)
      /\ c[1].spec = "f" => c[2] \in FloatRecord
  BY <1>1, ConversionAssumption, Zenon
<1> QED
  BY <1>1, <1>2

\* A pointer that is not NULL shows its text.
LEMMA SeenText ==
  ASSUME NEW D, Fits(D), NEW p \in Pointers, Knows(D, p), ~IsNull(p)
  PROVE  Text(p) = D.text[p]
BY DEF Fits, PointerFits

\* The specifiers of the integers.
LEMMA SpecSets ==
  /\ \A x : x \in SpecsDI => x \notin SpecsPOUBX /\ x # "s" /\ x # "f" /\ x # "u"
  /\ \A x : x \in SpecsPOUBX => x # "s" /\ x # "f" /\ x # "d" /\ x # "i"
BY DEF SpecsDI, SpecsPOUBX

\* ft_precision keeps what it was asked for.
LEMMA PrecisionBody ==
  ASSUME MemoryTyped, NEW D \in Description, NEW E \in Description, Fits(D),
         PrecisionContract(D, E), ~IsNull("result")
  PROVE  \E X \in Description : Fits(X) /\ Triple(X, Precision, E)
<1>1. PICK goal \in MemText, t \in MemText :
         /\ directive.spec \in SpecsDI \cup SpecsPOUBX \cup {"s"}
         /\ D = Only("result", "made", t, {}, goal)
         /\ E = Only("result", "made", ft_precision(directive, t), CutLoses(t), goal)
         /\ ft_precision(directive, t) \in MemText
  BY DEF PrecisionContract
<1> DEFINE u == ft_precision(directive, t)
<1>2. /\ {"result", "tmp"} \subseteq Pointers /\ "made" \in Modes /\ CutLoses(t) \in SUBSET Pointers
      /\ {} \in SUBSET Pointers
  BY DEF Pointers, Modes, CutLoses
<1>3. IsOnly(D, "result", "made", t, {}, goal) /\ IsOnly(E, "result", "made", u, CutLoses(t), goal)
  BY <1>1, <1>2, OnlyFacts, Zenon
<1>4. /\ D.mode["result"] = "made" /\ D.text["result"] = t /\ D.mode["tmp"] = "any" /\ Unseen(D)
      /\ D.lost = {}
      /\ \A q \in Pointers : q # "result" => D.mode[q] = "any"
  BY <1>2, <1>3 DEF IsOnly, Unseen
<1>5. result = t
  BY <1>2, <1>4, SeenText DEF result, Knows
<1>6. directive.precision \in Int
  BY ConversionFacts
<1>7. <<>> \in MemText
  BY DEF MemText
<1>20. Len(t) \in Nat /\ (t # <<>> => Len(t) >= 1) /\ (t = <<>> => Len(t) = 0)
  BY TextParts
<1>21. SubSeq(t, 1, 0) = <<>> /\ SubSeq(t, 1, Len(t)) = t
  BY TextParts
<1>22. CutLoses(t) = {} \/ (directive.spec = "s" /\ directive.precision = 0 /\ t = <<>>)
  BY DEF CutLoses
<1> HIDE DEF u
<1>8. ASSUME u = t, CutLoses(t) = {}, Precision = <<>>
      PROVE  \E X \in Description : Fits(X) /\ Triple(X, Precision, E)
  <2>1. E = D
    BY <1>1, <1>8 DEF u
  <2>2. Triple(D, <<>>, E)
    BY <2>1, EmptyTriple, WeakerSelf
  <2> QED
    BY <1>8, <2>2
<1>9. ASSUME NEW X \in Description, Renews(D, X, {}, "result", "made", u), CutLoses(t) = {}
      PROVE  Weaker(X, E)
  <2>1. /\ X.mode["result"] = "made" /\ X.text["result"] = u
        /\ \A q \in Pointers : q # "result" => ~Owns(X, q)
        /\ X.lost = {} /\ X.goal = D.goal /\ X.printed = D.printed
    BY <1>2, <1>4, <1>9 DEF Renews, Owns
  <2>2. D.goal = goal /\ ~D.printed
    BY <1>3 DEF IsOnly
  <2> QED
    BY <1>2, <1>3, <1>9, <2>1, <2>2, WeakerOnly
<1>10. CASE directive.spec = "s"
  <2>1. Precision = When(directive.precision >= 0, is_s)
    BY <1>10 DEF Precision
  <2>2. u = IF directive.precision \in 0 .. Len(t) THEN SubSeq(t, 1, directive.precision) ELSE t
    BY <1>10 DEF ft_precision, u
  <2>3. CASE directive.precision < 0
    <3>1. Precision = <<>> /\ u = t /\ CutLoses(t) = {}
      BY <1>6, <1>20, <1>22, <2>1, <2>2, <2>3 DEF When
    <3> QED
      BY <1>8, <3>1
  <2>4. CASE directive.precision = 0 /\ t = <<>>
    <3> DEFINE X == Forgotten(D, "result")
               A == With(X, "tmp", "any", <<>>)
               B == Renewed(A, {}, "result", "made", <<>>)
    <3>1. X \in Description /\ Fits(X)
      BY <1>2, <1>4, ForgottenFits
    <3>2. Renews(D, With(D, "result", "see", D.text["result"]), {}, "result", "see", D.text["result"])
      <4>1. D.text["result"] \in MemText /\ "see" \in Modes
        BY <1>4 DEF Modes
      <4> QED
        BY <1>2, <4>1, WithRenews, Zenon
    <3>3. /\ X.mode["result"] = "see" /\ X.lost = {"result"} /\ X.goal = D.goal
          /\ X.printed = D.printed
          /\ \A q \in Pointers : q # "result" => X.mode[q] = "any"
      <4> DEFINE W == With(D, "result", "see", D.text["result"])
      <4>1. /\ W \in Description /\ W.goal = D.goal /\ W.printed = D.printed
            /\ W.mode["result"] = "see"
            /\ \A q \in Pointers : q # "result" => W.mode[q] = "any"
        BY <1>4, <3>2 DEF Renews
      <4>2. X = [W EXCEPT !.lost = {"result"}]
        BY DEF Forgotten
      <4> HIDE DEF W, X
      <4> QED
        BY <4>1, <4>2 DEF Description
    <3> HIDE DEF X
    <3>4. ~Owns(X, "tmp")
      BY <1>2, <3>3 DEF Owns
    <3>5. Moves(Move("tmp", "result"), X, A) /\ Renews(X, A, {}, "tmp", "any", <<>>)
      BY <1>2, <3>1, <3>4, KeepMoves
    <3>6. A \in Description /\ ~Owns(A, "result")
      BY <1>2, <3>3, <3>5 DEF Renews, Owns
    <3> HIDE DEF A
    <3>7. Moves(ft_strdup("result", <<>>), A, B) /\ Renews(A, B, {}, "result", "made", <<>>)
      BY <1>2, <1>7, <3>6, DupMoves
    <3>8. B \in Description
      BY <3>7, Zenon DEF Renews
    <3> HIDE DEF B
    <3>9. u = <<>> /\ CutLoses(t) = {"result"}
      BY <1>10, <1>20, <1>21, <2>2, <2>4 DEF CutLoses
    <3>10. Weaker(B, E)
      <4>1. /\ B.mode["result"] = "made" /\ B.text["result"] = u
            /\ \A q \in Pointers : q # "result" => ~Owns(B, q)
            /\ B.lost = CutLoses(t) /\ B.goal = D.goal /\ B.printed = D.printed
        BY <1>2, <3>3, <3>5, <3>7, <3>9 DEF Renews, Owns
      <4>2. D.goal = goal /\ ~D.printed
        BY <1>3 DEF IsOnly
      <4> QED
        BY <1>2, <1>3, <3>8, <4>1, <4>2, WeakerOnly
    <3>11. Triple(X, <<Move("tmp", "result")>>, A) /\ Triple(A, <<ft_strdup("result", <<>>)>>, B)
      BY <3>1, <3>5, <3>6, <3>7, <3>8, OneTriple
    <3>12. Triple(X, <<Move("tmp", "result")>> \o <<ft_strdup("result", <<>>)>>, B)
      BY <3>1, <3>6, <3>8, <3>11, JoinTriple
    <3>13. Triple(B, <<>>, E)
      BY <3>8, <3>10, EmptyTriple
    <3>14. Triple(X, <<Move("tmp", "result")>> \o <<ft_strdup("result", <<>>)>> \o <<>>, E)
      BY <3>1, <3>8, <3>12, <3>13, JoinTriple
    <3>15. Precision = <<Move("tmp", "result")>> \o <<ft_strdup("result", <<>>)>> \o <<>>
      BY <1>5, <1>20, <2>1, <2>4 DEF is_s, When
    <3> QED
      BY <3>1, <3>14, <3>15
  <2>5. CASE directive.precision = 0 /\ t # <<>>
    <3>1. u = <<>> /\ CutLoses(t) = {}
      BY <1>20, <1>21, <1>22, <2>2, <2>5
    <3>2. Precision = Replace("result", <<ft_strdup("result", <<>>)>>)
      <4>1. 0 < Len(t) /\ 0 >= 0
        BY <1>20, <2>5
      <4> QED
        BY <1>5, <2>1, <2>5, <4>1, Zenon DEF is_s, When, Replace
    <3> DEFINE F == Renewed(D, {}, "result", "made", <<>>)
    <3>3. /\ Triple(D, Replace("result", <<ft_strdup("result", <<>>)>>), F)
          /\ Renews(D, F, {}, "result", "made", <<>>)
      BY <1>2, <1>4, <1>7, ReplaceDup
    <3>4. F \in Description
      BY <3>3, Zenon DEF Renews
    <3> HIDE DEF F
    <3>5. Weaker(F, E)
      BY <1>9, <3>1, <3>3, <3>4
    <3>6. Triple(D, Precision, E)
      BY <3>2, <3>3, <3>4, <3>5, TripleWeaker
    <3> QED
      BY <3>6
  <2>6. CASE directive.precision > 0 /\ directive.precision < Len(t)
    <3> DEFINE n == directive.precision
               F == Renewed(D, {}, "result", "made", u)
    <3>1. /\ u = SubSeq(t, 1, n) /\ u = <<>> \o SubSeq(t, 0 + 1, 0 + n) /\ CutLoses(t) = {}
          /\ u \in MemText
      <4>1. u = SubSeq(t, 1, n) /\ SubSeq(t, 1, n) \in MemText
        <5>1. n \in 0 .. Len(t)
          BY <1>6, <1>20, <2>6
        <5> QED
          BY <2>2, <5>1, TextParts
      <4>2. <<>> \o SubSeq(t, 1, n) = SubSeq(t, 1, n) /\ 0 + 1 = 1 /\ 0 + n = n
        BY <1>6, <4>1 DEF MemText
      <4> QED
        BY <1>6, <1>22, <2>6, <4>1, <4>2
    <3>2. Precision = Replace("result", <<Copy("result", <<>>, "result", 0, n)>>)
      <4>1. n < Len(t) /\ n >= 0 /\ n # 0
        BY <1>6, <2>6
      <4> QED
        BY <1>5, <2>1, <4>1, Zenon DEF is_s, When, Replace
    <3>3. /\ Triple(D, Replace("result", <<Copy("result", <<>>, "result", 0, n)>>), F)
          /\ Renews(D, F, {}, "result", "made", u)
      BY <1>2, <1>4, <3>1, ReplaceCopy
    <3>4. F \in Description
      BY <3>3, Zenon DEF Renews
    <3> HIDE DEF F, n
    <3>5. Weaker(F, E)
      BY <1>9, <3>1, <3>3, <3>4
    <3>6. Triple(D, Precision, E)
      BY <3>2, <3>3, <3>4, <3>5, TripleWeaker
    <3> QED
      BY <3>6
  <2>7. CASE directive.precision > 0 /\ directive.precision >= Len(t)
    <3> DEFINE A == With(D, "tmp", "any", <<>>)
    <3>1. u = t /\ CutLoses(t) = {}
      <4>1. directive.precision \in 0 .. Len(t) => directive.precision = Len(t)
        BY <1>6, <1>20, <2>7
      <4> QED
        BY <1>6, <1>21, <1>22, <2>2, <2>7, <4>1
    <3>2. ~Owns(D, "tmp")
      BY <1>4 DEF Owns
    <3>3. Moves(Move("tmp", "result"), D, A) /\ Renews(D, A, {}, "tmp", "any", <<>>)
      BY <1>2, <3>2, KeepMoves
    <3>4. A \in Description
      BY <3>3, Zenon DEF Renews
    <3> HIDE DEF A
    <3>5. Weaker(A, E)
      <4>1. /\ A.mode["result"] = "made" /\ A.text["result"] = u
            /\ \A q \in Pointers : q # "result" => ~Owns(A, q)
            /\ A.lost = {} /\ A.goal = D.goal /\ A.printed = D.printed
        BY <1>2, <1>4, <3>1, <3>3 DEF Renews, Owns
      <4>2. D.goal = goal /\ ~D.printed
        BY <1>3 DEF IsOnly
      <4> QED
        BY <1>2, <1>3, <3>1, <3>4, <4>1, <4>2, WeakerOnly
    <3>6. Triple(D, <<Move("tmp", "result")>>, A) /\ Triple(A, <<>>, E)
      BY <3>3, <3>4, <3>5, OneTriple, EmptyTriple
    <3>7. Triple(A, <<>>, A)
      BY <3>4, WeakerSelf, EmptyTriple
    <3>8. Triple(D, <<Move("tmp", "result")>> \o <<>>, A)
      BY <3>4, <3>6, <3>7, JoinTriple
    <3>9. Triple(D, <<Move("tmp", "result")>> \o <<>> \o <<>>, E)
      BY <3>4, <3>6, <3>8, JoinTriple
    <3>10. Precision = <<Move("tmp", "result")>> \o <<>> \o <<>>
      <4>1. ~(directive.precision < Len(t)) /\ directive.precision >= 0 /\ directive.precision # 0
        BY <1>6, <1>20, <2>7
      <4> QED
        BY <1>5, <2>1, <4>1, Zenon DEF is_s, When
    <3> QED
      BY <3>9, <3>10
  <2> QED
    <3>1. \/ directive.precision < 0 \/ directive.precision = 0
          \/ (directive.precision > 0 /\ directive.precision < Len(t))
          \/ (directive.precision > 0 /\ directive.precision >= Len(t))
      BY <1>6, <1>20
    <3> QED
      BY <2>3, <2>4, <2>5, <2>6, <2>7, <3>1, Zenon
<1>11. CASE directive.spec # "s"
  <2> DEFINE sign == IF directive.spec \in SpecsDI /\ Negative(t) THEN 1 ELSE 0
             zeros == directive.precision - (Len(t) - sign)
             padded == padd(Drop(t, sign), zeros, "0", "L")
             F == Renewed(D, {}, "result", "made", padded)
  <2>1. CutLoses(t) = {}
    BY <1>11 DEF CutLoses
  <2>2. sign \in {0, 1} /\ (sign = 1 => t # <<>> /\ t[1] = "-") /\ sign \in 0 .. Len(t)
    <3>1. Negative(t) => t # <<>> /\ t[1] = "-" /\ 1 \in 0 .. Len(t)
      BY <1>20 DEF Negative
    <3> QED
      BY <1>20, <3>1
  <2>3. u = IF sign = 1 THEN <<"-">> \o padded ELSE padded
    <3>1. CASE directive.spec \in SpecsPOUBX
      <4>1. sign = 0 /\ directive.spec \notin SpecsDI
        BY <3>1, SpecSets
      <4>2. Len(t) - 0 = Len(t) /\ Drop(t, 0) = t
        BY <1>20, TextParts
      <4> QED
        BY <1>11, <3>1, <4>1, <4>2 DEF ft_precision, u
    <3>2. CASE directive.spec \in SpecsDI /\ Negative(t)
      BY <1>11, <3>2, SpecSets DEF ft_precision, u
    <3>3. CASE directive.spec \in SpecsDI /\ ~Negative(t)
      <4>1. Len(t) - 0 = Len(t) /\ Drop(t, 0) = t
        BY <1>20, TextParts
      <4> QED
        BY <1>11, <3>3, <4>1, SpecSets DEF ft_precision, u
    <3> QED
      BY <1>1, <1>11, <3>1, <3>2, <3>3
  <2>4. Precision = When(zeros > 0, Replace("result",
                                            <<Padded("result", "result", sign, zeros, "0", "L")>>)
           \o When(sign = 1, Replace("result", <<Copy("result", <<"-">>, "result", 0,
                                                      Len(t) - 1 + zeros)>>)))
    BY <1>5, <1>11 DEF Precision
  <2>5. zeros \in Int
    BY <1>6, <1>20, <2>2
  <2>6. Drop(t, sign) \in MemText /\ Len(Drop(t, sign)) = Len(t) - sign
    BY <2>2, TextParts
  <2> HIDE DEF sign, zeros
  <2>7. padded \in MemText /\ Len(padded) = Len(t) - sign + (IF zeros <= 0 THEN 0 ELSE zeros)
        /\ (zeros <= 0 => padded = Drop(t, sign))
    <3>1. ASSUME NEW x \in MemText, NEW m \in Int
          PROVE  /\ padd(x, m, "0", "L") \in MemText
                 /\ Len(padd(x, m, "0", "L")) = Len(x) + (IF m <= 0 THEN 0 ELSE m)
                 /\ m <= 0 => padd(x, m, "0", "L") = x
      <4>1. "0" \in MemChar
        BY OwnMemChars
      <4> QED
        BY <4>1, PaddedText
    <3>2. /\ padded \in MemText
          /\ Len(padded) = Len(Drop(t, sign)) + (IF zeros <= 0 THEN 0 ELSE zeros)
          /\ zeros <= 0 => padded = Drop(t, sign)
      BY <2>5, <2>6, <3>1, Zenon
    <3> HIDE DEF padded
    <3> QED
      BY <2>6, <3>2
  <2>8. CASE zeros <= 0
    <3>1. padded = Drop(t, sign)
      BY <2>7, <2>8
    <3>2. u = t
      <4>1. CASE sign = 0
        <5>1. Drop(t, 0) = t
          BY TextParts
        <5> QED
          BY <2>3, <3>1, <4>1, <5>1
      <4>2. CASE sign = 1
        <5>1. 1 \in 0 .. Len(t)
          BY <2>2, <4>2
        <5>2. SubSeq(t, 1, 1) \o Drop(t, 1) = t /\ SubSeq(t, 1, 1) = <<"-">>
          BY <2>2, <4>2, <5>1, TextParts
        <5> QED
          BY <2>3, <3>1, <4>2, <5>2
      <4> QED
        BY <2>2, <4>1, <4>2
    <3>3. Precision = <<>>
      BY <2>4, <2>5, <2>8 DEF When
    <3> QED
      BY <1>8, <2>1, <3>2, <3>3
  <2>9. CASE zeros > 0
    <3>1. padded = padd(SubSeq(D.text["result"], sign + 1, Len(D.text["result"])), zeros, "0", "L")
      BY <1>4 DEF Drop
    <3> HIDE DEF padded
    <3> DEFINE first == Replace("result", <<Padded("result", "result", sign, zeros, "0", "L")>>)
    <3>2. Triple(D, first, F) /\ Renews(D, F, {}, "result", "made", padded)
      BY <1>2, <1>4, <2>7, <3>1, ReplacePadd
    <3>3. F \in Description
      BY <3>2, Zenon DEF Renews
    <3> HIDE DEF F, first
    <3>4. CASE sign = 0
      <4>1. Precision = first \o <<>>
        BY <2>4, <2>9, <3>4 DEF When, first
      <4>2. u = padded
        BY <2>3, <3>4
      <4>3. Weaker(F, E)
        BY <1>9, <2>1, <3>2, <3>3, <4>2
      <4>4. Triple(F, <<>>, E)
        BY <3>3, <4>3, EmptyTriple
      <4>5. Triple(D, Precision, E)
        BY <3>2, <3>3, <4>1, <4>4, JoinTriple
      <4> QED
        BY <4>5
    <3>5. CASE sign = 1
      <4> DEFINE n == Len(t) - 1 + zeros
                 second == Replace("result", <<Copy("result", <<"-">>, "result", 0, n)>>)
                 G == Renewed(F, {}, "result", "made", u)
      <4>1. Precision = first \o second
        BY <2>4, <2>9, <3>5 DEF When, first
      <4>2. n = Len(padded) /\ n \in Nat
        BY <1>20, <2>2, <2>5, <2>7, <2>9, <3>5
      <4>3. SubSeq(padded, 1, n) = padded
        BY <2>7, <4>2, TextParts
      <4>4. /\ F.mode["result"] = "made" /\ F.mode["tmp"] = "any" /\ Unseen(F)
            /\ F.text["result"] = padded
        BY <1>2, <1>4, <3>2 DEF Renews, Unseen
      <4>5. u = <<"-">> \o SubSeq(F.text["result"], 0 + 1, 0 + n) /\ u \in MemText
        <5>1. 0 + 1 = 1 /\ 0 + n = n
          BY <4>2
        <5> HIDE DEF n
        <5>2. u = <<"-">> \o padded
          BY <2>3, <3>5
        <5>3. u \in MemText
          BY <1>1 DEF u
        <5> QED
          BY <4>3, <4>4, <5>1, <5>2, <5>3
      <4> HIDE DEF n
      <4>6. Triple(F, second, G) /\ Renews(F, G, {}, "result", "made", u)
        BY <1>2, <3>3, <4>4, <4>5, ReplaceCopy
      <4>7. G \in Description
        BY <4>6, Zenon DEF Renews
      <4> HIDE DEF G, second
      <4>8. Weaker(G, E)
        <5>1. /\ G.mode["result"] = "made" /\ G.text["result"] = u
              /\ \A q \in Pointers : q # "result" => ~Owns(G, q)
              /\ G.lost = {} /\ G.goal = D.goal /\ G.printed = D.printed
          BY <1>2, <1>4, <3>2, <4>6 DEF Renews, Owns
        <5>2. D.goal = goal /\ ~D.printed
          BY <1>3 DEF IsOnly
        <5> QED
          BY <1>2, <1>3, <2>1, <4>7, <5>1, <5>2, WeakerOnly
      <4>9. Triple(F, second, E)
        BY <3>3, <4>6, <4>7, <4>8, TripleWeaker
      <4>10. Triple(D, Precision, E)
        BY <3>2, <3>3, <4>1, <4>9, JoinTriple
      <4> QED
        BY <4>10
    <3> QED
      BY <2>2, <3>4, <3>5
  <2> QED
    BY <2>5, <2>8, <2>9
<1> QED
  BY <1>10, <1>11

-----------------------------------------------------------------------------
\* Padding the string of the only pointer.
LEMMA OnlyPadd ==
  ASSUME NEW p \in Pointers, p # "tmp", NEW t \in MemText, NEW text \in MemText,
         NEW lost \in SUBSET Pointers,
         NEW goal \in MemText, NEW skip, NEW n, NEW ch, NEW side,
         text = padd(SubSeq(t, skip + 1, Len(t)), n, ch, side)
  PROVE  Triple(Only(p, "own", t, lost, goal), Replace(p, <<Padded(p, p, skip, n, ch, side)>>),
                Only(p, "own", text, lost, goal))
<1> DEFINE D == Only(p, "own", t, lost, goal)
           E == Only(p, "own", text, lost, goal)
           F == Renewed(D, {}, p, "made", text)
           calls == Replace(p, <<Padded(p, p, skip, n, ch, side)>>)
<1>1. "own" \in Modes /\ "tmp" \in Pointers
  BY DEF Modes, Pointers
<1>2. IsOnly(D, p, "own", t, lost, goal) /\ IsOnly(E, p, "own", text, lost, goal)
  BY <1>1, OnlyFacts, Zenon
<1>3. D \in Description /\ E \in Description
  BY <1>2, Zenon DEF IsOnly
<1> HIDE DEF D, E
<1>4. D.mode[p] = "own" /\ D.text[p] = t /\ D.mode["tmp"] = "any" /\ Unseen(D)
  BY <1>1, <1>2 DEF IsOnly, Unseen
<1>5. Triple(D, calls, F) /\ Renews(D, F, {}, p, "made", text)
  BY <1>3, <1>4, ReplacePadd
<1>6. F \in Description
  BY <1>5, Zenon DEF Renews
<1> HIDE DEF F, calls
<1>7. /\ F.mode[p] = "made" /\ F.text[p] = text /\ \A q \in Pointers : q # p => ~Owns(F, q)
      /\ F.lost = lost /\ F.goal = goal /\ ~F.printed
  BY <1>2, <1>5 DEF IsOnly, Renews, Owns
<1>8. Weaker(F, E)
  BY <1>2, <1>6, <1>7, WeakerOnly
<1>9. Triple(D, calls, E)
  BY <1>3, <1>5, <1>6, <1>8, TripleWeaker
<1> QED
  BY <1>9 DEF D, E, calls

\* Putting a text in front of it.
LEMMA OnlyFront ==
  ASSUME NEW p \in {"result", "mantiss"}, NEW mode \in {"own", "made"}, NEW t \in MemText,
         NEW s \in MemText,
         NEW lost \in SUBSET Pointers, NEW goal \in MemText
  PROVE  Triple(Only(p, mode, t, lost, goal), <<ft_strdup("new", s), ft_strjoin_free(p, "new", p)>>,
                Only(p, mode, s \o t, lost, goal))
<1> DEFINE D == Only(p, mode, t, lost, goal)
           E == Only(p, mode, s \o t, lost, goal)
           A == Renewed(D, {}, "new", "made", s)
           B == Renewed(A, {"new", p}, p, "made", A.text["new"] \o A.text[p])
<1>1. mode \in Modes /\ p \in Pointers /\ "new" \in Pointers /\ s \o t \in MemText
  BY DEF Modes, Pointers, MemText
<1>2. IsOnly(D, p, mode, t, lost, goal) /\ IsOnly(E, p, mode, s \o t, lost, goal)
  BY <1>1, OnlyFacts, Zenon
<1>3. D \in Description /\ E \in Description
  BY <1>2, Zenon DEF IsOnly
<1> HIDE DEF D, E
<1>4. D.mode[p] = mode /\ D.text[p] = t /\ \A q \in Pointers : q # p => D.mode[q] = "any"
  BY <1>1, <1>2 DEF IsOnly
<1>5. ~Owns(D, "new")
  BY <1>1, <1>4 DEF Owns
<1>6. Moves(ft_strdup("new", s), D, A) /\ Renews(D, A, {}, "new", "made", s)
  BY <1>1, <1>3, <1>5, DupMoves
<1>7. A \in Description
  BY <1>6, Zenon DEF Renews
<1> HIDE DEF A
<1>8. /\ A.mode["new"] = "made" /\ A.text["new"] = s /\ A.mode[p] = mode /\ A.text[p] = t
      /\ \A q \in Pointers : q \notin {"new", p} => A.mode[q] = "any"
      /\ A.lost = lost /\ A.goal = goal /\ ~A.printed
  BY <1>1, <1>2, <1>4, <1>6 DEF Renews, IsOnly
<1>9. Owns(A, "new") /\ Owns(A, p) /\ Unseen(A) /\ Knows(A, "new") /\ Knows(A, p)
  BY <1>8 DEF Owns, Unseen, Knows
<1>10. /\ Moves(ft_strjoin_free(p, "new", p), A, B)
       /\ Renews(A, B, {"new", p}, p, "made", A.text["new"] \o A.text[p])
  <2>1. p \in {"new", p} /\ "new" # p
    OBVIOUS
  <2> QED
    BY <1>1, <1>7, <1>9, <2>1, JoinMoves, SMTT(20)
<1>11. B \in Description
  BY <1>10, Zenon DEF Renews
<1> HIDE DEF B
<1>12. /\ B.mode[p] = "made" /\ B.text[p] = s \o t /\ \A q \in Pointers : q # p => ~Owns(B, q)
       /\ B.lost = lost /\ B.goal = goal /\ ~B.printed
  BY <1>1, <1>8, <1>10 DEF Renews, Owns
<1>13. Weaker(B, E)
  BY <1>1, <1>2, <1>11, <1>12, WeakerOnly
<1>14. Moves(ft_strjoin_free(p, "new", p), A, E)
  BY <1>10, <1>13, MovesWeaker
<1>15. Triple(D, <<ft_strdup("new", s), ft_strjoin_free(p, "new", p)>>, E)
  BY <1>3, <1>6, <1>7, <1>14, TwoTriple
<1> QED
  BY <1>15 DEF D, E

\* The sign and the zeros of a number.
LEMMA NumberPaddedIs ==
  ASSUME MemoryTyped, NEW t \in MemText, FieldText(t), directive.spec \in {"d", "i", "u", "f"}
  PROVE  /\ SignPut(directive, t) \in MemText /\ SignPut(directive, t) \o t \in MemText
         /\ NumberPadded(SignPut(directive, t) \o t) = ft_numeric(directive, t)
<1> DEFINE s == SignPut(directive, t)
           all == s \o t
<1>1. s \in {<<>>, <<"+">>, <<Blank>>}
  BY DEF SignPut
<1>2. <<>> \in MemText /\ <<"+">> \in MemText /\ <<Blank>> \in MemText
  <2>1. "+" \in MemChar /\ Blank \in MemChar
    BY OwnMemChars
  <2> QED
    BY <2>1 DEF MemText
<1>3. s \in MemText
  BY <1>1, <1>2
<1>4. all \in MemText
  BY <1>3 DEF MemText
<1>5. s # <<>> => Len(all) >= 1 /\ all[1] = s[1] /\ all # <<>> /\ s[1] \in {"+", Blank}
  BY <1>1, <1>3 DEF MemText
<1>6. s = <<>> => all = t
  BY DEF MemText
<1>7. (all # <<>> /\ all[1] \in {"-", "+", Blank}) <=> (Negative(t) \/ s # <<>>)
  <2>1. CASE s # <<>>
    BY <1>5, <2>1
  <2>2. CASE s = <<>>
    BY <1>6, <2>2 DEF Negative, FieldText
  <2> QED
    BY <2>1, <2>2
<1>8. ft_numeric(directive, t) = LET pad == directive.width - Len(all)
                                     sign == IF Negative(t) \/ s # <<>> THEN 1 ELSE 0
                                 IN IF "ZERO" \in directive.flag /\ all # NaN /\ all \notin Infs
                                      THEN SubSeq(all, 1, sign) \o padd(Drop(all, sign), pad, "0", "L")
                                    ELSE padd(all, pad, Blank, Side)
  BY DEF ft_numeric, Side
<1> HIDE DEF s, all
<1>9. NumberPadded(all) = ft_numeric(directive, t)
  BY <1>7, <1>8, Zenon DEF NumberPadded
<1> QED
  BY <1>3, <1>4, <1>9 DEF s, all

\* The text of a number in its field.
LEMMA NumberPaddedText ==
  ASSUME MemoryTyped, NEW t \in MemText
  PROVE  NumberPadded(t) \in MemText
<1> DEFINE pad  == directive.width - Len(t)
           sign == IF t # <<>> /\ t[1] \in {"-", "+", Blank} THEN 1 ELSE 0
<1>1. Len(t) \in Nat /\ (t # <<>> => Len(t) >= 1)
  BY TextParts
<1>2. pad \in Int /\ sign \in 0 .. Len(t)
  BY <1>1, ConversionFacts
<1> HIDE DEF pad, sign
<1>3. SubSeq(t, 1, sign) \in MemText /\ Drop(t, sign) \in MemText
  BY <1>2, TextParts
<1>4. padd(Drop(t, sign), pad, "0", "L") \in MemText /\ padd(t, pad, Blank, Side) \in MemText
  BY <1>2, <1>3, PaddedText, OwnMemChars
<1>5. SubSeq(t, 1, sign) \o padd(Drop(t, sign), pad, "0", "L") \in MemText
  BY <1>3, <1>4 DEF MemText
<1> QED
  BY <1>4, <1>5 DEF NumberPadded, pad, sign

\* What a string is padded with.
StringPad == IF "ZERO" \in directive.flag /\ "MINUS" \notin directive.flag THEN "0" ELSE " "

\* ft_width of a string.
LEMMA StringPadded ==
  ASSUME MemoryTyped, NEW t \in MemText
  PROVE  /\ ft_string(directive, t) \in MemText
         /\ ft_string(directive, t) = padd(t, directive.width - Len(t), StringPad, Side)
         /\ directive.width - Len(t) <= 0 => ft_string(directive, t) = t
<1> DEFINE pad == directive.width - Len(t)
<1>1. Len(t) \in Nat /\ directive.width \in Int
  BY TextParts, ConversionFacts
<1>2. pad \in Int
  BY <1>1
<1>3. StringPad \in MemChar
  <2>1. "0" \in MemChar /\ " " \in MemChar
    BY OwnMemChars
  <2> QED
    BY <2>1, Zenon DEF StringPad
<1>4. ft_string(directive, t) = padd(t, pad, StringPad, Side)
  <2>1. CASE "MINUS" \in directive.flag
    BY <2>1, Zenon DEF ft_string, Side, Blank, StringPad
  <2>2. CASE "MINUS" \notin directive.flag
    BY <2>2, Zenon DEF ft_string, Side, Blank, StringPad
  <2> QED
    BY <2>1, <2>2, Zenon
<1> HIDE DEF pad
<1>5. padd(t, pad, StringPad, Side) \in MemText /\ (pad <= 0 => padd(t, pad, StringPad, Side) = t)
  BY <1>2, <1>3, PaddedText
<1>6. ft_string(directive, t) \in MemText /\ (pad <= 0 => ft_string(directive, t) = t)
  BY <1>4, <1>5
<1> QED
  BY <1>4, <1>6 DEF pad

-----------------------------------------------------------------------------
\* Nothing in front and nothing behind.
LEMMA EmptyEnds == \A t \in MemText : <<>> \o t = t /\ t \o <<>> = t
BY DEF MemText

\* Joining two strings that are known.
LEMMA JoinMade ==
  ASSUME NEW D \in Description, NEW to \in Pointers, NEW a \in Pointers, NEW b \in Pointers, a # b,
         D.mode[a] \in {"own", "made"}, D.mode[b] \in {"own",
                                                       "made"}, to \in {a, b} \/ ~Owns(D, to), Unseen(D),
         NEW text, text = D.text[a] \o D.text[b]
  PROVE  LET E == Renewed(D, {a, b}, to, "made", text)
         IN /\ Moves(ft_strjoin_free(to, a, b), D, E) /\ Renews(D, E, {a, b}, to, "made", text)
            /\ E \in Description
<1> DEFINE mode == IF Knows(D, a) /\ Knows(D, b) THEN "made" ELSE "blur"
           E    == Renewed(D, {a, b}, to, mode, D.text[a] \o D.text[b])
<1>1. Owns(D, a) /\ Owns(D, b) /\ Knows(D, a) /\ Knows(D, b)
  BY DEF Owns, Knows
<1>2. /\ Moves(ft_strjoin_free(to, a, b), D, E)
      /\ Renews(D, E, {a, b}, to, mode, D.text[a] \o D.text[b])
  BY <1>1, JoinMoves
<1>3. E \in Description
  BY <1>2, Zenon DEF Renews
<1>4. mode = "made"
  BY <1>1
<1> HIDE DEF mode
<1> QED
  BY <1>2, <1>3, <1>4

\* The field of a number.
FieldPad(t) == directive.width - Len(t)
SignIn(t) == t # <<>> /\ t[1] \in {"-", "+", " "}
ZeroFilled(t) == "ZERO" \in directive.flag /\ t # NaN /\ t \notin Infs

\* What NumberPadded is.
LEMMA NumberPaddedCases ==
  ASSUME MemoryTyped, NEW t \in MemText
  PROVE  /\ FieldPad(t) <= 0 => NumberPadded(t) = t
         /\ ~ZeroFilled(t) => NumberPadded(t) = padd(t, FieldPad(t), " ", Side)
         /\ ZeroFilled(t) /\ ~SignIn(t) => NumberPadded(t) = padd(t, FieldPad(t), "0", "L")
         /\ ZeroFilled(t) /\ SignIn(t) =>
              NumberPadded(t) = <<t[1]>> \o padd(Drop(t, 1), FieldPad(t), "0", "L")
<1> DEFINE sign == IF t # <<>> /\ t[1] \in {"-", "+", Blank} THEN 1 ELSE 0
<1>1. NumberPadded(t) = IF ZeroFilled(t) THEN SubSeq(t, 1, sign) \o padd(Drop(t, sign), FieldPad(t),
                                                                         "0", "L")
                        ELSE padd(t, FieldPad(t), " ", Side)
  BY Zenon DEF NumberPadded, ZeroFilled, FieldPad, Blank
<1>2. sign = IF SignIn(t) THEN 1 ELSE 0
  BY DEF SignIn, Blank
<1>3. Len(t) \in Nat /\ (t # <<>> => Len(t) >= 1) /\ Drop(t, 0) = t /\ SubSeq(t, 1, 0) = <<>>
      /\ (t # <<>> => SubSeq(t, 1, 1) = <<t[1]>>)
  BY TextParts
<1>4. sign \in 0 .. Len(t) /\ FieldPad(t) \in Int
  BY <1>3, ConversionFacts DEF FieldPad
<1> HIDE DEF sign
<1>5. SubSeq(t, 1, sign) \o Drop(t, sign) = t /\ Drop(t, sign) \in MemText
  BY <1>4, TextParts
<1>6. "0" \in MemChar /\ " " \in MemChar
  BY OwnMemChars
<1>7. /\ padd(t, FieldPad(t), "0", "L") \in MemText
      /\ FieldPad(t) <= 0 => padd(t, FieldPad(t), " ", Side) = t /\ padd(Drop(t, sign), FieldPad(t),
                                                                         "0", "L") = Drop(t, sign)
  BY <1>4, <1>5, <1>6, PaddedText
<1>8. FieldPad(t) <= 0 => NumberPadded(t) = t
  BY <1>1, <1>5, <1>7, Zenon
<1>9. ZeroFilled(t) /\ ~SignIn(t) => NumberPadded(t) = padd(t, FieldPad(t), "0", "L")
  <2>1. <<>> \o padd(t, FieldPad(t), "0", "L") = padd(t, FieldPad(t), "0", "L")
    BY <1>7, EmptyEnds, Zenon
  <2> QED
    BY <1>1, <1>2, <1>3, <2>1, Zenon
<1>10. ZeroFilled(t) /\ SignIn(t) =>
         NumberPadded(t) = <<t[1]>> \o padd(Drop(t, 1), FieldPad(t), "0", "L")
  <2>1. SignIn(t) => t # <<>>
    BY DEF SignIn
  <2> QED
    BY <1>1, <1>2, <1>3, <2>1, Zenon
<1> QED
  BY <1>1, <1>8, <1>9, <1>10

\* ft_numeric behind the sign: the zeros go between the sign and the digits.
LEMMA SignedTriple ==
  ASSUME NEW t \in MemText, t # <<>>, NEW lost \in SUBSET Pointers, NEW goal \in MemText,
         NEW n \in Int
  PROVE  Triple(Only("result", "own", t, lost, goal),
                Replace("result", <<Padded("result", "result", 1, n, "0", "L")>>
                          \o <<Copy("new", <<>>, "tmp", 0, 1),
                               ft_strjoin_free("result", "new", "result")>>),
                Only("result", "own", <<t[1]>> \o padd(Drop(t, 1), n, "0", "L"), lost, goal))
<1> DEFINE tail == padd(Drop(t, 1), n, "0", "L")
           text == <<t[1]>> \o tail
           D == Only("result", "own", t, lost, goal)
           E == Only("result", "own", text, lost, goal)
           A == Moved(D, "tmp", "result")
           M1 == Renewed(A, {}, "result", "made", tail)
           M2 == Renewed(M1, {}, "new", "made", <<t[1]>>)
           M3 == Renewed(M2, {"new", "result"}, "result", "made", text)
           F == Renewed(M3, {"tmp"}, "tmp", "null", <<>>)
<1>1. {"result", "new", "tmp"} \subseteq Pointers /\ {"own", "made"} \subseteq Modes
  BY DEF Pointers, Modes
<1>2. t[1] \in MemChar /\ SubSeq(t, 1, 1) = <<t[1]>> /\ 1 \in 0 .. Len(t)
  BY TextParts
<1>3. tail \in MemText
  <2>1. Drop(t, 1) \in MemText /\ "0" \in MemChar
    BY <1>2, TextParts, OwnMemChars
  <2> QED
    BY <2>1, PaddedText
<1>4. <<t[1]>> \in MemText
  BY <1>2 DEF MemText
<1>5. text \in MemText
  BY <1>3, <1>4 DEF MemText
<1>6. IsOnly(D, "result", "own", t, lost, goal) /\ IsOnly(E, "result", "own", text, lost, goal)
  BY <1>1, <1>5, OnlyFacts, Zenon
<1>7. D \in Description /\ E \in Description
  BY <1>6, Zenon DEF IsOnly
<1> HIDE DEF D, E
<1>8. /\ D.mode["result"] = "own" /\ D.text["result"] = t
      /\ \A q \in Pointers : q # "result" => D.mode[q] = "any"
  BY <1>6 DEF IsOnly
<1>9. Shifts(D, A, "tmp", "result")
  BY <1>1, <1>7, MovedFacts, Zenon
<1>10. A \in Description
  BY <1>9, Zenon DEF Shifts
<1> HIDE DEF A
<1>11. /\ A.mode["tmp"] = "own" /\ A.text["tmp"] = t /\ A.mode["result"] = "see"
       /\ A.text["result"] = t
       /\ \A q \in Pointers : q \notin {"tmp", "result"} => A.mode[q] = "any"
       /\ A.lost = lost /\ A.goal = goal /\ ~A.printed
  BY <1>1, <1>6, <1>8, <1>9 DEF Shifts, IsOnly
<1>12. /\ Moves(Padded("result", "result", 1, n, "0", "L"), A, M1)
       /\ Renews(A, M1, {}, "result", "made", tail)
  <2>1. Knows(A, "result") /\ ~Owns(A, "result")
    BY <1>11 DEF Knows, Owns
  <2>2. tail = padd(SubSeq(A.text["result"], 1 + 1, Len(A.text["result"])), n, "0", "L")
    BY <1>11 DEF Drop
  <2> HIDE DEF tail
  <2> QED
    BY <1>1, <1>3, <1>10, <2>1, <2>2, PaddMoves
<1>13. M1 \in Description
  BY <1>12, Zenon DEF Renews
<1> HIDE DEF M1, tail
<1>14. /\ M1.mode["tmp"] = "own" /\ M1.text["tmp"] = t /\ M1.mode["result"] = "made"
       /\ M1.text["result"] = tail
       /\ \A q \in Pointers : q \notin {"tmp", "result"} => M1.mode[q] = "any"
       /\ M1.lost = lost /\ M1.goal = goal /\ ~M1.printed
  BY <1>1, <1>11, <1>12 DEF Renews
<1>15. Moves(Copy("new", <<>>, "tmp", 0, 1), M1, M2) /\ Renews(M1, M2, {}, "new", "made", <<t[1]>>)
  <2>1. Knows(M1, "tmp") /\ ~Owns(M1, "new")
    BY <1>1, <1>14 DEF Knows, Owns
  <2>2. <<t[1]>> = <<>> \o SubSeq(M1.text["tmp"], 0 + 1, 0 + 1)
    <3>1. SubSeq(M1.text["tmp"], 0 + 1, 0 + 1) = <<t[1]>>
      BY <1>2, <1>14
    <3>2. <<>> \o <<t[1]>> = <<t[1]>>
      BY <1>4 DEF MemText
    <3> QED
      BY <3>1, <3>2
  <2> QED
    BY <1>1, <1>4, <1>13, <2>1, <2>2, CopyMoves
<1>16. M2 \in Description
  BY <1>15, Zenon DEF Renews
<1> HIDE DEF M2
<1>17. /\ M2.mode["tmp"] = "own" /\ M2.mode["result"] = "made" /\ M2.text["result"] = tail
       /\ M2.mode["new"] = "made" /\ M2.text["new"] = <<t[1]>>
       /\ \A q \in Pointers : q \notin {"tmp", "result", "new"} => M2.mode[q] = "any"
       /\ M2.lost = lost /\ M2.goal = goal /\ ~M2.printed
  BY <1>1, <1>14, <1>15 DEF Renews
<1>18. /\ Moves(ft_strjoin_free("result", "new", "result"), M2, M3) /\ M3 \in Description
       /\ Renews(M2, M3, {"new", "result"}, "result", "made", text)
  <2>1. "result" \in {"new", "result"} /\ "new" # "result"
    OBVIOUS
  <2>2. M2.mode["new"] \in {"own", "made"} /\ M2.mode["result"] \in {"own", "made"} /\ Unseen(M2)
        /\ text = M2.text["new"] \o M2.text["result"]
    BY <1>17 DEF Unseen
  <2>3. "result" \in Pointers /\ "new" \in Pointers
    BY <1>1
  <2> HIDE DEF text
  <2> QED
    BY <1>16, <2>1, <2>2, <2>3, JoinMade, Zenon
<1> HIDE DEF M3
<1>20. /\ M3.mode["tmp"] = "own" /\ M3.mode["result"] = "made" /\ M3.text["result"] = text
       /\ \A q \in Pointers : q \notin {"tmp", "result"} => M3.mode[q] = "any"
       /\ M3.lost = lost /\ M3.goal = goal /\ ~M3.printed
  BY <1>1, <1>17, <1>18 DEF Renews
<1> DEFINE calls == <<Padded("result", "result", 1, n, "0", "L")>>
                      \o <<Copy("new", <<>>, "tmp", 0, 1), ft_strjoin_free("result", "new", "result")>>
<1>21. Triple(A, calls, M3)
  <2>1. Triple(M1, <<Copy("new", <<>>, "tmp", 0, 1), ft_strjoin_free("result", "new", "result")>>, M3)
    BY <1>13, <1>15, <1>16, <1>18, TwoTriple
  <2> QED
    BY <1>10, <1>12, <1>13, <1>18, <2>1, MoreTriple
<1> HIDE DEF calls, text
<1>22. Triple(D, Replace("result", calls), F) /\ Renews(M3, F, {"tmp"}, "tmp", "null", <<>>)
  <2>1. M3.mode["tmp"] = "own" /\ Unseen(M3)
    BY <1>20 DEF Unseen
  <2>2. D.mode["tmp"] = "any" /\ D.mode["result"] \in {"own", "made"} /\ "result" # "tmp"
    BY <1>1, <1>8
  <2>3. Triple(Moved(D, "tmp", "result"), calls, M3)
    BY <1>21 DEF A
  <2> QED
    BY <1>1, <1>7, <1>18, <2>1, <2>2, <2>3, ReplaceTriple
<1>23. F \in Description
  BY <1>22, Zenon DEF Renews
<1> HIDE DEF F
<1>24. /\ F.mode["result"] = "made" /\ F.text["result"] = text
       /\ \A q \in Pointers : q # "result" => ~Owns(F, q)
       /\ F.lost = lost /\ F.goal = goal /\ ~F.printed
  BY <1>1, <1>20, <1>22 DEF Renews, Owns
<1>25. Weaker(F, E)
  BY <1>1, <1>6, <1>23, <1>24, WeakerOnly
<1>26. Triple(D, Replace("result", calls), E)
  BY <1>7, <1>22, <1>23, <1>25, TripleWeaker
<1> QED
  BY <1>26 DEF D, E, calls, text, tail

\* Nothing is done.
LEMMA IdleTriple ==
  ASSUME NEW D \in Description
  PROVE  Triple(D, <<>>, D)
BY WeakerSelf, EmptyTriple

\* The text of the only pointer.
LEMMA OnlyText ==
  ASSUME NEW mode \in {"own", "made"}, NEW t \in MemText, NEW lost \in SUBSET Pointers,
         NEW goal \in MemText,
         Fits(Only("result", mode, t, lost, goal)), ~IsNull("result")
  PROVE  result = t
<1> DEFINE D == Only("result", mode, t, lost, goal)
<1>1. mode \in Modes /\ "result" \in Pointers
  BY DEF Modes, Pointers
<1>2. IsOnly(D, "result", mode, t, lost, goal)
  BY <1>1, OnlyFacts, Zenon
<1> HIDE DEF D
<1>3. Knows(D, "result") /\ D.text["result"] = t
  BY <1>2 DEF IsOnly, Knows
<1>4. Fits(D)
  BY DEF D
<1> QED
  BY <1>1, <1>3, <1>4, SeenText DEF result

\* ft_numeric puts the number into its field.
LEMMA PadNumericBody ==
  ASSUME MemoryTyped, NEW D \in Description, NEW E \in Description, Fits(D), NumericContract(D, E),
         ~IsNull("result")
  PROVE  Triple(D, PadNumeric, E)
<1>1. PICK goal \in MemText, t \in MemText, lost \in SUBSET Pointers :
         /\ D = Only("result", "own", t, lost, goal)
         /\ E = Only("result", "own", NumberPadded(t), lost, goal)
         /\ NumberPadded(t) \in MemText
  BY DEF NumericContract
<1>2. result = t
  BY <1>1, OnlyText
<1> DEFINE pad == FieldPad(t)
<1>3. PadNumeric = When(pad > 0, Replace("result",
        IF ZeroFilled(t) THEN <<Padded("result", "result", IF SignIn(t) THEN 1 ELSE 0, pad, "0", "L")>>
              \o When(SignIn(t), <<Copy("new", <<>>, "tmp", 0, 1),
                                   ft_strjoin_free("result", "new", "result")>>)
        ELSE <<Padded("result", "result", 0, pad, " ", Side)>>))
  BY <1>2, Zenon DEF PadNumeric, FieldPad, ZeroFilled, SignIn
<1>4. pad \in Int /\ Drop(t, 0) = t /\ "result" \in Pointers /\ "result" # "tmp"
  BY TextParts, ConversionFacts DEF FieldPad, Pointers
<1>5. SubSeq(t, 0 + 1, Len(t)) = t
  BY <1>4 DEF Drop
<1> HIDE DEF pad
<1>6. CASE pad <= 0
  <2>1. E = D
    BY <1>1, <1>6, NumberPaddedCases DEF pad
  <2>2. PadNumeric = <<>>
    <3>1. ~(pad > 0)
      BY <1>4, <1>6
    <3> QED
      BY <1>3, <3>1, Zenon DEF When
  <2> QED
    BY <2>1, <2>2, IdleTriple
<1>7. CASE pad > 0 /\ ~ZeroFilled(t)
  <2>1. PadNumeric = Replace("result", <<Padded("result", "result", 0, pad, " ", Side)>>)
    BY <1>3, <1>7, Zenon DEF When
  <2>2. NumberPadded(t) = padd(SubSeq(t, 0 + 1, Len(t)), pad, " ", Side)
    BY <1>5, <1>7, NumberPaddedCases DEF pad
  <2> QED
    BY <1>1, <1>4, <2>1, <2>2, OnlyPadd
<1>8. CASE pad > 0 /\ ZeroFilled(t) /\ ~SignIn(t)
  <2>1. PadNumeric = Replace("result", <<Padded("result", "result", 0, pad, "0", "L")>>)
    <3>1. <<Padded("result", "result", 0, pad, "0", "L")>> \o <<>> = <<Padded("result", "result", 0,
                                                                              pad, "0", "L")>>
      OBVIOUS
    <3> QED
      BY <1>3, <1>8, <3>1, Zenon DEF When
  <2>2. NumberPadded(t) = padd(SubSeq(t, 0 + 1, Len(t)), pad, "0", "L")
    BY <1>5, <1>8, NumberPaddedCases DEF pad
  <2> QED
    BY <1>1, <1>4, <2>1, <2>2, OnlyPadd
<1>9. CASE pad > 0 /\ ZeroFilled(t) /\ SignIn(t)
  <2>1. PadNumeric = Replace("result", <<Padded("result", "result", 1, pad, "0", "L")>>
                          \o <<Copy("new", <<>>, "tmp", 0, 1),
                               ft_strjoin_free("result", "new", "result")>>)
    BY <1>3, <1>9, Zenon DEF When
  <2>2. NumberPadded(t) = <<t[1]>> \o padd(Drop(t, 1), pad, "0", "L") /\ t # <<>>
    BY <1>9, NumberPaddedCases DEF pad, SignIn
  <2> QED
    BY <1>1, <1>4, <2>1, <2>2, SignedTriple
<1> QED
  BY <1>4, <1>6, <1>7, <1>8, <1>9

\* ft_numeric: first the sign.
LEMMA NumericBody ==
  ASSUME MemoryTyped, NEW t \in MemText, NEW lost \in SUBSET Pointers, NEW goal \in MemText,
         FieldText(t),
         directive.spec \in {"d", "i", "u", "f"}, result = t
  PROVE  Triple(Only("result", "own", t, lost, goal), Numeric,
                Only("result", "own", ft_width(directive, t, value), lost, goal))
<1> DEFINE s == SignPut(directive, t)
           all == s \o t
           D == Only("result", "own", t, lost, goal)
           A == Only("result", "own", all, lost, goal)
           E == Only("result", "own", ft_width(directive, t, value), lost, goal)
<1>1. s \in MemText /\ all \in MemText /\ NumberPadded(all) = ft_width(directive, t, value)
  BY NumberPaddedIs DEF ft_width
<1>2. NumberPadded(all) \in MemText
  BY <1>1, NumberPaddedText
<1>3. "own" \in Modes /\ "result" \in Pointers
  BY DEF Modes, Pointers
<1>4. IsOnly(D, "result", "own", t, lost, goal) /\ IsOnly(A, "result", "own", all, lost, goal)
      /\ IsOnly(E, "result", "own", ft_width(directive, t, value), lost, goal)
  BY <1>1, <1>2, <1>3, OnlyFacts, Zenon
<1>5. D \in Description /\ A \in Description /\ E \in Description
  BY <1>4, Zenon DEF IsOnly
<1>6. NumericContract(A, E)
  BY <1>1, <1>2 DEF NumericContract
<1> HIDE DEF D, A, E
<1>7. Moves(Enter("pad_numeric"), A, E)
  <2>1. \A p \in ReadsOf("pad_numeric") : p \in Pointers /\ Owns(A, p)
    BY <1>3, <1>4 DEF ReadsOf, IsOnly, Owns
  <2>2. Contract("pad_numeric", A, E)
    BY <1>6 DEF Contract
  <2> QED
    BY <1>5, <2>1, <2>2, EnterMoves
<1>8. Triple(A, <<Enter("pad_numeric")>>, E)
  BY <1>5, <1>7, OneTriple
<1>9. Numeric = When(s # <<>>, <<ft_strdup("new", s), ft_strjoin_free("result", "new", "result")>>)
                  \o <<Enter("pad_numeric")>>
  BY Zenon DEF Numeric
<1>10. Triple(D, When(s # <<>>, <<ft_strdup("new", s), ft_strjoin_free("result", "new", "result")>>), A)
  <2>1. CASE s # <<>>
    <3>1. Triple(D, <<ft_strdup("new", s), ft_strjoin_free("result", "new", "result")>>, A)
      BY <1>1, OnlyFront DEF D, A
    <3> QED
      BY <2>1, <3>1, Zenon DEF When
  <2>2. CASE s = <<>>
    <3>1. D = A
      BY <2>2 DEF D, A, MemText
    <3> QED
      BY <1>5, <2>2, <3>1, IdleTriple DEF When
  <2> QED
    BY <2>1, <2>2
<1>11. Triple(D, Numeric, E)
  BY <1>5, <1>8, <1>9, <1>10, JoinTriple
<1> QED
  BY <1>11 DEF D, E

\* ft_string.
LEMMA StringBody ==
  ASSUME MemoryTyped, NEW t \in MemText, NEW lost \in SUBSET Pointers, NEW goal \in MemText,
         directive.spec = "s",
         result = t
  PROVE  Triple(Only("result", "own", t, lost, goal), String,
                Only("result", "own", ft_width(directive, t, value), lost, goal))
<1> DEFINE pad == FieldPad(t)
           text == ft_string(directive, t)
           D == Only("result", "own", t, lost, goal)
           E == Only("result", "own", text, lost, goal)
<1>1. text \in MemText /\ text = padd(t, pad, StringPad, Side) /\ (pad <= 0 => text = t)
  BY StringPadded DEF FieldPad
<1>2. String = When(pad > 0, Replace("result", <<Padded("result", "result", 0, pad, StringPad, Side)>>))
  BY Zenon DEF String, FieldPad, StringPad
<1>3. pad \in Int /\ Drop(t, 0) = t /\ "result" \in Pointers /\ "result" # "tmp" /\ "own" \in Modes
  BY TextParts, ConversionFacts DEF FieldPad, Pointers, Modes
<1>4. ft_width(directive, t, value) = text
  BY DEF ft_width
<1>5. SubSeq(t, 0 + 1, Len(t)) = t
  BY <1>3 DEF Drop
<1> HIDE DEF pad, text
<1>6. Triple(D, String, E)
  <2>1. CASE pad > 0
    <3>1. text = padd(SubSeq(t, 0 + 1, Len(t)), pad, StringPad, Side)
      BY <1>1, <1>5
    <3>2. Triple(D, Replace("result", <<Padded("result", "result", 0, pad, StringPad, Side)>>), E)
      BY <1>1, <1>3, <3>1, OnlyPadd
    <3> QED
      BY <1>2, <2>1, <3>2, Zenon DEF When
  <2>2. CASE pad <= 0
    <3>1. IsOnly(D, "result", "own", t, lost, goal)
      BY <1>3, OnlyFacts, Zenon
    <3>2. D \in Description
      BY <3>1, Zenon DEF IsOnly
    <3>3. E = D
      BY <1>1, <2>2
    <3>4. ~(pad > 0)
      BY <1>3, <2>2
    <3>5. String = <<>>
      BY <1>2, <3>4, Zenon DEF When
    <3> QED
      BY <3>2, <3>3, <3>5, IdleTriple
  <2> QED
    BY <1>3, <2>1, <2>2
<1> QED
  BY <1>4, <1>6

-----------------------------------------------------------------------------
\* The result and the prefix that is to come in front of it.
IsPair(D, t, prefix, lost, goal) ==
  /\ D \in Description /\ D.lost = lost /\ D.goal = goal /\ ~D.printed
  /\ D.mode["result"] \in {"own", "made"} /\ D.text["result"] = t
  /\ D.mode["prefix"] = "made" /\ D.text["prefix"] = prefix
  /\ \A q \in Pointers \ {"result", "prefix"} : D.mode[q] = "any"

\* Padding the result.
LEMMA PairPadd ==
  ASSUME NEW D, NEW t \in MemText, NEW prefix, NEW lost, NEW goal, IsPair(D, t, prefix, lost, goal),
         NEW n, NEW c, NEW side, padd(t, n, c, side) \in MemText
  PROVE  \E F : Triple(D, Replace("result", <<Padded("result", "result", 0, n, c, side)>>), F)
                  /\ IsPair(F, padd(t, n, c, side), prefix, lost, goal)
<1> DEFINE text == padd(t, n, c, side)
           F == Renewed(D, {}, "result", "made", text)
<1>1. {"result", "prefix", "tmp"} \subseteq Pointers
  BY DEF Pointers
<1>2. /\ D \in Description /\ D.mode["result"] \in {"own", "made"} /\ D.mode["tmp"] = "any"
      /\ Unseen(D)
  BY <1>1 DEF IsPair, Unseen
<1>3. text = padd(SubSeq(D.text["result"], 0 + 1, Len(D.text["result"])), n, c, side)
  <2>1. SubSeq(t, 0 + 1, Len(t)) = t
    BY TextParts DEF Drop
  <2> QED
    BY <2>1 DEF IsPair
<1>4. text \in MemText
  OBVIOUS
<1> HIDE DEF text
<1>5. Triple(D, Replace("result", <<Padded("result", "result", 0, n, c, side)>>), F)
        /\ Renews(D, F, {}, "result", "made", text)
  BY <1>1, <1>2, <1>3, <1>4, ReplacePadd
<1> HIDE DEF F
<1>6. IsPair(F, text, prefix, lost, goal)
  BY <1>1, <1>5 DEF IsPair, Renews
<1> QED
  BY <1>5, <1>6 DEF text

\* Joining both.
LEMMA PairJoin ==
  ASSUME NEW D, NEW t \in MemText, NEW prefix \in MemText, NEW lost \in SUBSET Pointers,
         NEW goal \in MemText,
         IsPair(D, t, prefix, lost, goal)
  PROVE  Triple(D, <<ft_strjoin_free("result", "prefix", "result")>>,
                Only("result", "own", prefix \o t, lost, goal))
<1> DEFINE text == prefix \o t
           E == Only("result", "own", text, lost, goal)
           F == Renewed(D, {"prefix", "result"}, "result", "made", text)
<1>1. {"result", "prefix"} \subseteq Pointers /\ "own" \in Modes /\ text \in MemText
      /\ "result" \in {"prefix", "result"}
      /\ "prefix" # "result" /\ "result" \in Pointers /\ "prefix" \in Pointers
  BY DEF Pointers, Modes, MemText
<1>2. IsOnly(E, "result", "own", text, lost, goal)
  BY <1>1, OnlyFacts, Zenon
<1>3. E \in Description
  BY <1>2, Zenon DEF IsOnly
<1>4. D \in Description /\ D.mode["prefix"] \in {"own", "made"}
      /\ D.mode["result"] \in {"own", "made"} /\ Unseen(D)
      /\ text = D.text["prefix"] \o D.text["result"]
  BY <1>1 DEF IsPair, Unseen
<1> HIDE DEF E, text
<1>5. Moves(ft_strjoin_free("result", "prefix", "result"), D, F) /\ F \in Description
        /\ Renews(D, F, {"prefix", "result"}, "result", "made", text)
  BY <1>1, <1>4, JoinMade, Zenon
<1> HIDE DEF F
<1>6. /\ F.mode["result"] = "made" /\ F.text["result"] = text
      /\ \A q \in Pointers : q # "result" => ~Owns(F, q)
      /\ F.lost = lost /\ F.goal = goal /\ ~F.printed
  BY <1>1, <1>5 DEF IsPair, Renews, Owns
<1>7. Weaker(F, E)
  BY <1>1, <1>2, <1>5, <1>6, WeakerOnly
<1>8. Moves(ft_strjoin_free("result", "prefix", "result"), D, E)
  BY <1>5, <1>7, MovesWeaker
<1>9. Triple(D, <<ft_strjoin_free("result", "prefix", "result")>>, E)
  BY <1>3, <1>4, <1>8, OneTriple
<1> QED
  BY <1>9 DEF E, text

\* Freeing the prefix.
LEMMA PairDel ==
  ASSUME NEW D, NEW t \in MemText, NEW prefix, NEW lost \in SUBSET Pointers, NEW goal \in MemText,
         IsPair(D, t, prefix, lost, goal)
  PROVE  Triple(D, <<ft_strdel("prefix")>>, Only("result", "own", t, lost, goal))
<1> DEFINE E == Only("result", "own", t, lost, goal)
           F == Renewed(D, {"prefix"}, "prefix", "null", <<>>)
<1>1. /\ {"result", "prefix"} \subseteq Pointers /\ "own" \in Modes /\ "result" \in Pointers
      /\ "prefix" \in Pointers
  BY DEF Pointers, Modes
<1>2. IsOnly(E, "result", "own", t, lost, goal)
  BY <1>1, OnlyFacts, Zenon
<1>3. E \in Description
  BY <1>2, Zenon DEF IsOnly
<1>4. D \in Description /\ Owns(D, "prefix") /\ Unseen(D)
  BY <1>1 DEF IsPair, Unseen, Owns
<1> HIDE DEF E
<1>5. Moves(ft_strdel("prefix"), D, F) /\ Renews(D, F, {"prefix"}, "prefix", "null", <<>>)
  BY <1>1, <1>4, DelMoves, Zenon
<1>6. F \in Description
  BY <1>5, Zenon DEF Renews
<1> HIDE DEF F
<1>7. /\ F.mode["result"] \in {"own", "made"} /\ F.text["result"] = t
      /\ \A q \in Pointers : q # "result" => ~Owns(F, q)
      /\ F.lost = lost /\ F.goal = goal /\ ~F.printed
  BY <1>1, <1>5 DEF IsPair, Renews, Owns
<1>8. Weaker(F, E)
  BY <1>1, <1>2, <1>6, <1>7, WeakerOnly
<1>9. Moves(ft_strdel("prefix"), D, E)
  BY <1>5, <1>8, MovesWeaker
<1>10. Triple(D, <<ft_strdel("prefix")>>, E)
  BY <1>3, <1>4, <1>9, OneTriple
<1> QED
  BY <1>10 DEF E

\* The pair is one that the contract of pad_alternate speaks of.
LEMMA PairIs ==
  ASSUME NEW t \in MemText, NEW prefix \in MemText, NEW lost \in SUBSET Pointers,
         NEW goal \in MemText
  PROVE  IsPair(With(Only("result", "own", t, lost, goal), "prefix", "made", prefix), t, prefix,
                lost, goal)
<1> DEFINE O == Only("result", "own", t, lost, goal)
           D == With(O, "prefix", "made", prefix)
<1>1. {"own", "made"} \subseteq Modes /\ "result" \in Pointers /\ "prefix" \in Pointers
  BY DEF Pointers, Modes
<1>2. IsOnly(O, "result", "own", t, lost, goal)
  BY <1>1, OnlyFacts
<1>3. O \in Description
  BY <1>2, Zenon DEF IsOnly
<1>4. Renews(O, D, {}, "prefix", "made", prefix)
  BY <1>1, <1>3, WithRenews
<1> HIDE DEF O, D
<1>5. IsPair(D, t, prefix, lost, goal)
  BY <1>1, <1>2, <1>4 DEF IsOnly, Renews, IsPair
<1> QED
  BY <1>5 DEF O, D

\* The prefixes.
LEMMA PrefixText ==
  ASSUME NEW t
  PROVE  /\ get_prefix(directive, t, value) \in MemText
         /\ "HASH" \in directive.flag \/ directive.spec = "p" \/ get_prefix(directive, t, value) = <<>>
<1>1. {"0", "x", "X", "b"} \subseteq MemChar
  BY DEF MemChar, Letters
<1>2. get_prefix(directive, t, value) \in {<<>>, <<"0", "x">>, <<"0", "X">>, <<"0">>, <<"0", "b">>}
  BY DEF get_prefix
<1>3. {<<>>, <<"0", "x">>, <<"0", "X">>, <<"0">>, <<"0", "b">>} \subseteq MemText
  BY <1>1 DEF MemText
<1>4. "HASH" \in directive.flag \/ directive.spec = "p" \/ get_prefix(directive, t, value) = <<>>
  BY DEF get_prefix
<1> QED
  BY <1>2, <1>3, <1>4

\* The text in its field, by whether there are zeros in it.
LEMMA AlternateCases ==
  ASSUME MemoryTyped, NEW t \in MemText
  PROVE  LET prefix == get_prefix(directive, t, value)
             n == directive.width - (Len(t) + Len(prefix))
         IN /\ n \in Int /\ padd(t, n, "0", Side) \in MemText /\ prefix \o t \in MemText
            /\ padd(t, n, " ", Side) \in MemText /\ padd(prefix \o t, n, " ", Side) \in MemText
            /\ "ZERO" \in directive.flag => ft_alternate(directive, t, value) = prefix \o padd(t, n,
                                                                                               "0", Side)
            /\ "ZERO" \notin directive.flag => ft_alternate(directive, t, value) = padd(prefix \o t,
                                                                                        n, " ", Side)
            /\ ft_alternate(directive, t, value) \in MemText
<1> DEFINE prefix == get_prefix(directive, t, value)
           n == directive.width - (Len(t) + Len(prefix))
<1>1. prefix \in MemText
  BY PrefixText
<1>2. ft_alternate(directive, t, value) =
        IF "ZERO" \in directive.flag THEN prefix \o padd(t, n, "0", Side) ELSE padd(prefix \o t, n,
                                                                                    " ", Side)
  BY Zenon DEF ft_alternate, Side, Blank
<1> HIDE DEF prefix
<1>3. Len(t) \in Nat /\ Len(prefix) \in Nat /\ directive.width \in Int
  BY <1>1, TextParts, ConversionFacts
<1>4. n \in Int
  BY <1>3
<1> HIDE DEF n
<1>5. prefix \o t \in MemText
  BY <1>1 DEF MemText
<1>6. "0" \in MemChar /\ " " \in MemChar
  BY OwnMemChars
<1>7. /\ padd(t, n, "0", Side) \in MemText /\ padd(prefix \o t, n, " ", Side) \in MemText
      /\ padd(t, n, " ", Side) \in MemText
  BY <1>4, <1>5, <1>6, PaddedText
<1>8. prefix \o padd(t, n, "0", Side) \in MemText
  <2> DEFINE u == padd(t, n, "0", Side)
  <2>1. u \in MemText
    BY <1>7
  <2> HIDE DEF u
  <2>2. prefix \o u \in MemText
    BY <1>1, <2>1 DEF MemText
  <2> QED
    BY <2>2 DEF u
<1> QED
  BY <1>2, <1>4, <1>5, <1>7, <1>8 DEF prefix, n

\* ft_alternate behind the prefix.
LEMMA PadAlternateBody ==
  ASSUME MemoryTyped, NEW D \in Description, NEW E \in Description, Fits(D),
         AlternateContract(D, E),
         ~IsNull("result"), ~IsNull("prefix")
  PROVE  Triple(D, PadAlternate, E)
<1>1. PICK goal \in MemText, t \in MemText, lost \in SUBSET Pointers :
         /\ D = With(Only("result", "own", t, lost, goal), "prefix", "made",
                     get_prefix(directive, t, value))
         /\ E = Only("result", "own", ft_alternate(directive, t, value), lost, goal)
  BY Zenon DEF AlternateContract
<1> DEFINE prefix == get_prefix(directive, t, value)
           n == directive.width - (Len(t) + Len(prefix))
           flg == "HASH" \in directive.flag \/ directive.spec = "p"
           text == ft_alternate(directive, t, value)
           Pad(c) == Replace("result", <<Padded("result", "result", 0, n, c, Side)>>)
           Join == <<ft_strjoin_free("result", "prefix", "result")>>
           Del == <<ft_strdel("prefix")>>
<1>2. prefix \in MemText /\ (flg \/ prefix = <<>>)
  BY PrefixText
<1>3. IsPair(D, t, prefix, lost, goal)
  BY <1>1, <1>2, PairIs
<1>4. result = t /\ Text("prefix") = prefix
  <2>1. "result" \in Pointers /\ "prefix" \in Pointers
    BY DEF Pointers
  <2>2. /\ Knows(D, "result") /\ Knows(D, "prefix") /\ D.text["result"] = t
        /\ D.text["prefix"] = prefix
    BY <1>3 DEF IsPair, Knows
  <2> QED
    BY <2>1, <2>2, SeenText DEF result
<1>5. PadAlternate = (IF "ZERO" \in directive.flag THEN Pad("0") \o When(flg, Join) ELSE When(flg, Join) \o Pad(" "))
                       \o When(~flg, Del)
  <2> HIDE DEF prefix
  <2> QED
    BY <1>4, Zenon DEF PadAlternate
<1>6. /\ n \in Int /\ padd(t, n, "0", Side) \in MemText /\ prefix \o t \in MemText
      /\ padd(t, n, " ", Side) \in MemText /\ padd(prefix \o t, n, " ", Side) \in MemText
      /\ "ZERO" \in directive.flag => text = prefix \o padd(t, n, "0", Side)
      /\ "ZERO" \notin directive.flag => text = padd(prefix \o t, n, " ", Side)
      /\ text \in MemText
  BY AlternateCases, Zenon
<1>7. /\ E = Only("result", "own", text, lost, goal) /\ "result" \in Pointers /\ "own" \in Modes
      /\ "result" # "tmp"
  BY <1>1 DEF Pointers, Modes
<1> HIDE DEF prefix, n, text
<1>8. \A c : Pad(c) \o <<>> = Pad(c) /\ <<>> \o Pad(c) = Pad(c)
  <2> TAKE c
  <2>1. Pad(c) \in Seq({Move("tmp", "result"), Padded("result", "result", 0, n, c, Side),
                        ft_strdel("tmp")})
    BY DEF Replace
  <2> QED
    BY <2>1
<1>9. CASE flg /\ "ZERO" \in directive.flag
  <2>1. PICK F : Triple(D, Pad("0"), F) /\ IsPair(F, padd(t, n, "0", Side), prefix, lost, goal)
    BY <1>3, <1>6, PairPadd
  <2>2. Triple(F, Join, E)
    BY <1>2, <1>6, <1>7, <1>9, <2>1, PairJoin
  <2>3. F \in Description
    BY <2>1, Zenon DEF IsPair
  <2>4. Triple(D, Pad("0") \o Join, E)
    BY <2>1, <2>2, <2>3, JoinTriple
  <2>5. Triple(D, (Pad("0") \o Join) \o <<>>, E)
    BY <2>4, IdleTriple, JoinTriple
  <2> QED
    BY <1>5, <1>9, <2>5, Zenon DEF When
<1>10. CASE flg /\ "ZERO" \notin directive.flag
  <2> DEFINE F == Only("result", "own", prefix \o t, lost, goal)
  <2>1. Triple(D, Join, F)
    BY <1>2, <1>3, PairJoin
  <2>2. IsOnly(F, "result", "own", prefix \o t, lost, goal)
    BY <1>6, <1>7, OnlyFacts
  <2>3. F \in Description
    BY <2>2, Zenon DEF IsOnly
  <2>4. SubSeq(prefix \o t, 0 + 1, Len(prefix \o t)) = prefix \o t
    <3> DEFINE u == prefix \o t
    <3>1. u \in MemText
      BY <1>6
    <3> HIDE DEF u
    <3>2. SubSeq(u, 0 + 1, Len(u)) = u
      BY <3>1, TextParts DEF Drop
    <3> QED
      BY <3>2 DEF u
  <2>5. Triple(F, Pad(" "), E)
    <3>1. text = padd(SubSeq(prefix \o t, 0 + 1, Len(prefix \o t)), n, " ", Side)
      BY <1>6, <1>10, <2>4
    <3> QED
      BY <1>6, <1>7, <3>1, OnlyPadd
  <2> HIDE DEF F
  <2>6. Triple(D, Join \o Pad(" "), E)
    BY <2>1, <2>3, <2>5, JoinTriple
  <2>7. Triple(D, (Join \o Pad(" ")) \o <<>>, E)
    BY <2>6, IdleTriple, JoinTriple
  <2> QED
    BY <1>5, <1>10, <2>7, Zenon DEF When
<1>11. CASE ~flg
  <2> DEFINE c == IF "ZERO" \in directive.flag THEN "0" ELSE " "
  <2>1. padd(t, n, c, Side) \in MemText
    BY <1>6
  <2>2. text = padd(t, n, c, Side)
    <3>1. prefix = <<>>
      BY <1>2, <1>11
    <3>2. <<>> \o t = t /\ <<>> \o padd(t, n, "0", Side) = padd(t, n, "0", Side)
      BY <1>6, EmptyEnds
    <3> QED
      BY <1>6, <3>1, <3>2, Zenon
  <2>3. PadAlternate = Pad(c) \o Del
    BY <1>5, <1>8, <1>11, Zenon DEF When
  <2> HIDE DEF c
  <2>4. PICK F : Triple(D, Pad(c), F) /\ IsPair(F, padd(t, n, c, Side), prefix, lost, goal)
    BY <1>3, <2>1, PairPadd
  <2>5. F \in Description
    BY <2>4, Zenon DEF IsPair
  <2>6. Triple(F, Del, E)
    BY <1>7, <2>1, <2>2, <2>4, PairDel
  <2>7. Triple(D, Pad(c) \o Del, E)
    BY <2>4, <2>5, <2>6, JoinTriple
  <2> QED
    BY <2>3, <2>7
<1> QED
  BY <1>9, <1>10, <1>11

\* ft_alternate: first the prefix.
LEMMA AlternateBody ==
  ASSUME MemoryTyped, NEW t \in MemText, NEW lost \in SUBSET Pointers, NEW goal \in MemText,
         directive.spec \in SpecsPOUBX \ {"u"}, result = t
  PROVE  Triple(Only("result", "own", t, lost, goal), Alternate,
                Only("result", "own", ft_width(directive, t, value), lost, goal))
<1> DEFINE prefix == get_prefix(directive, t, value)
           text == ft_alternate(directive, t, value)
           D == Only("result", "own", t, lost, goal)
           A == With(D, "prefix", "made", prefix)
           B == Renewed(D, {}, "prefix", "made", prefix)
           E == Only("result", "own", text, lost, goal)
<1>1. ft_width(directive, t, value) = text
  BY DEF ft_width, SpecsPOUBX
<1>2. text \in MemText
  BY AlternateCases, Zenon
<1>3. prefix \in MemText
  BY PrefixText
<1>4. /\ "result" \in Pointers /\ "prefix" \in Pointers /\ {"own", "made"} \subseteq Modes
      /\ "own" \in Modes
  BY DEF Pointers, Modes
<1>5. IsOnly(D, "result", "own", t, lost, goal) /\ IsOnly(E, "result", "own", text, lost, goal)
  BY <1>2, <1>4, OnlyFacts, Zenon
<1>6. D \in Description /\ E \in Description
  BY <1>5, Zenon DEF IsOnly
<1>7. IsPair(A, t, prefix, lost, goal)
  BY <1>3, PairIs
<1>8. A \in Description
  BY <1>7, Zenon DEF IsPair
<1>9. Alternate = <<ft_strdup("prefix", prefix), Enter("pad_alternate")>>
  BY Zenon DEF Alternate
<1>10. AlternateContract(A, E)
  BY <1>2, <1>3 DEF AlternateContract
<1>11. Renews(D, A, {}, "prefix", "made", prefix)
  BY <1>3, <1>4, <1>6, WithRenews
<1> HIDE DEF D, A, E, prefix, text
<1>12. Moves(ft_strdup("prefix", prefix), D, B) /\ Renews(D, B, {}, "prefix", "made", prefix)
  <2>1. ~Owns(D, "prefix")
    BY <1>4, <1>5 DEF IsOnly, Owns
  <2> QED
    BY <1>3, <1>4, <1>6, <2>1, DupMoves
<1> HIDE DEF B
<1>13. Weaker(B, A)
  BY <1>4, <1>11, <1>12 DEF Renews, Weaker
<1>14. Moves(ft_strdup("prefix", prefix), D, A)
  BY <1>12, <1>13, MovesWeaker
<1>15. Moves(Enter("pad_alternate"), A, E)
  <2>1. \A p \in ReadsOf("pad_alternate") : p \in Pointers /\ Owns(A, p)
    BY <1>4, <1>7 DEF ReadsOf, IsPair, Owns
  <2>2. Contract("pad_alternate", A, E)
    BY <1>10 DEF Contract
  <2> QED
    BY <1>6, <1>8, <2>1, <2>2, EnterMoves
<1>16. Triple(D, Alternate, E)
  BY <1>6, <1>8, <1>9, <1>14, <1>15, TwoTriple
<1> QED
  BY <1>1, <1>16 DEF D, E

\* ft_width.
LEMMA WidthBody ==
  ASSUME MemoryTyped, NEW D \in Description, NEW E \in Description, Fits(D), WidthContract(D, E),
         ~IsNull("result")
  PROVE  Triple(D, Width, E)
<1>1. PICK goal \in MemText, t \in MemText, lost \in SUBSET Pointers :
         /\ directive.spec \in SpecsDI \cup SpecsPOUBX \cup {"s", "f"} /\ FieldText(t)
         /\ D = Only("result", "own", t, lost, goal)
         /\ E = Only("result", "own", ft_width(directive, t, value), lost, goal)
  BY DEF WidthContract
<1>2. result = t
  BY <1>1, OnlyText
<1>3. CASE directive.spec \in {"d", "i", "u", "f"}
  <2>1. Width = Numeric
    BY <1>3 DEF Width
  <2> QED
    BY <1>1, <1>2, <1>3, <2>1, NumericBody
<1>4. CASE directive.spec = "s"
  <2>1. Width = String
    BY <1>4 DEF Width
  <2> QED
    BY <1>1, <1>2, <1>4, <2>1, StringBody
<1>5. CASE directive.spec \in SpecsPOUBX \ {"u"}
  <2>1. Width = Alternate
    BY <1>5 DEF Width, SpecsPOUBX
  <2> QED
    BY <1>1, <1>2, <1>5, <2>1, AlternateBody
<1> QED
  BY <1>1, <1>3, <1>4, <1>5 DEF SpecsDI, SpecsPOUBX

-----------------------------------------------------------------------------
\* The mantissa of a float
Blur(goal) == Only("mantiss", "blur", <<>>, {}, goal)

\* Of the mantissa only that it has a block is said.
LEMMA BlurFacts ==
  ASSUME NEW goal \in MemText
  PROVE  /\ IsOnly(Blur(goal), "mantiss", "blur", <<>>, {}, goal) /\ Blur(goal) \in Description
         /\ Nothing({}, goal) \in Description
         /\ {"mantiss", "new", "res", "tmp"} \subseteq Pointers /\ <<"0">> \in MemText
         /\ AnyDigits \in MemText
<1>1. {"mantiss", "new", "res", "tmp"} \subseteq Pointers /\ "blur" \in Modes /\ <<>> \in MemText
      /\ "mantiss" \in Pointers /\ {} \in SUBSET Pointers
  BY DEF Pointers, Modes, MemText
<1>2. IsOnly(Blur(goal), "mantiss", "blur", <<>>, {}, goal)
  BY <1>1, OnlyFacts, Zenon DEF Blur
<1>3. Nothing({}, goal) \in Description
  BY <1>1, NothingFacts
<1>4. "0" \in MemChar /\ "?" \in MemChar
  BY OwnMemChars
<1>5. <<"0">> \in MemText /\ AnyDigits \in MemText
  BY <1>4 DEF MemText, AnyDigits
<1> QED
  BY <1>1, <1>2, <1>3, <1>5, Zenon DEF IsOnly

\* What says as much.
LEMMA WeakerBlur ==
  ASSUME NEW goal \in MemText, NEW D \in Description, D.mode["mantiss"] \in {"made", "own", "blur"},
         \A q \in Pointers : q # "mantiss" => ~Owns(D, q), D.lost = {}, D.goal = goal, ~D.printed
  PROVE  Weaker(D, Blur(goal))
<1> DEFINE E == Blur(goal)
<1>1. IsOnly(E, "mantiss", "blur", <<>>, {}, goal)
  BY BlurFacts
<1>2. D.printed = E.printed
  BY <1>1 DEF IsOnly, Description
<1> HIDE DEF E
<1>3. ASSUME NEW q \in Pointers
      PROVE  \/ D.mode[q] = E.mode[q] /\ ~Knows(E, q)
             \/ D.mode[q] \in {"made", "own"} /\ E.mode[q] = "blur"
             \/ ~Owns(D, q) /\ E.mode[q] = "any"
  <2>1. CASE q = "mantiss"
    BY <1>1, <2>1 DEF IsOnly, Knows
  <2>2. CASE q # "mantiss"
    BY <1>1, <2>2 DEF IsOnly
  <2> QED
    BY <2>1, <2>2
<1>4. Weaker(D, E)
  BY <1>1, <1>2, <1>3 DEF Weaker, IsOnly
<1> QED
  BY <1>4 DEF E

\* A sum or a product of the mantissa and something new.
LEMMA BlurSum ==
  ASSUME NEW goal \in MemText, NEW p \in Pointers, p # "mantiss", NEW from, from = {"mantiss", p},
         NEW s \in MemText, NEW t \in MemText
  PROVE  Triple(Blur(goal), <<Computed(p, {}, s), Computed("mantiss", from, t)>>, Blur(goal))
<1> DEFINE D == Blur(goal)
           A == Renewed(D, {}, p, "made", s)
           B == Renewed(A, from, "mantiss", "made", t)
<1>1. "mantiss" \in Pointers /\ {} \in SUBSET Pointers /\ from \in SUBSET Pointers
  BY DEF Pointers
<1>2. IsOnly(D, "mantiss", "blur", <<>>, {}, goal) /\ D \in Description
  BY BlurFacts
<1> HIDE DEF D
<1>3. Moves(Computed(p, {}, s), D, A) /\ Renews(D, A, {}, p, "made", s)
  <2>1. ~Owns(D, p)
    BY <1>1, <1>2 DEF IsOnly, Owns
  <2> QED
    BY <1>1, <1>2, <2>1, DigitsMoves
<1>4. A \in Description
  BY <1>3, Zenon DEF Renews
<1> HIDE DEF A
<1>5. /\ A.mode["mantiss"] = "blur" /\ A.mode[p] = "made"
      /\ \A q \in Pointers \ from : A.mode[q] = "any"
      /\ A.lost = {} /\ A.goal = goal /\ ~A.printed
  BY <1>1, <1>2, <1>3 DEF IsOnly, Renews
<1>6. Moves(Computed("mantiss", from, t), A, B) /\ Renews(A, B, from, "mantiss", "made", t)
  <2>1. (\A q \in from : Owns(A, q)) /\ "mantiss" \in from /\ Unseen(A)
    BY <1>5 DEF Owns, Unseen
  <2> QED
    BY <1>1, <1>4, <2>1, DigitsMoves
<1>7. B \in Description
  BY <1>6, Zenon DEF Renews
<1> HIDE DEF B
<1>8. /\ B.mode["mantiss"] = "made" /\ \A q \in Pointers : q # "mantiss" => ~Owns(B, q)
      /\ B.lost = {} /\ B.goal = goal /\ ~B.printed
  BY <1>1, <1>5, <1>6 DEF Renews, Owns
<1>9. Weaker(B, D)
  BY <1>7, <1>8, WeakerBlur DEF D
<1>10. Moves(Computed("mantiss", from, t), A, D)
  BY <1>6, <1>9, MovesWeaker
<1>11. Triple(D, <<Computed(p, {}, s), Computed("mantiss", from, t)>>, D)
  BY <1>2, <1>3, <1>4, <1>10, TwoTriple
<1> QED
  BY <1>11 DEF D

\* Something new in front of it or behind it.
LEMMA BlurJoin ==
  ASSUME NEW goal \in MemText, NEW a, NEW b, {a, b} = {"mantiss", "new"}, a # b, NEW s \in MemText
  PROVE  Triple(Blur(goal), <<ft_strdup("new", s), ft_strjoin_free("mantiss", a, b)>>, Blur(goal))
<1> DEFINE D == Blur(goal)
           A == Renewed(D, {}, "new", "made", s)
           mode == IF Knows(A, a) /\ Knows(A, b) THEN "made" ELSE "blur"
           B == Renewed(A, {a, b}, "mantiss", mode, A.text[a] \o A.text[b])
<1>1. /\ "mantiss" \in Pointers /\ "new" \in Pointers /\ a \in Pointers /\ b \in Pointers
      /\ "mantiss" \in {a, b}
  BY DEF Pointers
<1>2. IsOnly(D, "mantiss", "blur", <<>>, {}, goal) /\ D \in Description
  BY BlurFacts
<1> HIDE DEF D
<1>3. Moves(ft_strdup("new", s), D, A) /\ Renews(D, A, {}, "new", "made", s)
  <2>1. ~Owns(D, "new")
    BY <1>1, <1>2 DEF IsOnly, Owns
  <2> QED
    BY <1>1, <1>2, <2>1, DupMoves
<1>4. A \in Description
  BY <1>3, Zenon DEF Renews
<1> HIDE DEF A
<1>5. /\ A.mode["mantiss"] = "blur" /\ A.mode["new"] = "made"
      /\ \A q \in Pointers \ {a, b} : A.mode[q] = "any"
      /\ A.lost = {} /\ A.goal = goal /\ ~A.printed
  BY <1>1, <1>2, <1>3 DEF IsOnly, Renews
<1>6. /\ Moves(ft_strjoin_free("mantiss", a, b), A, B)
      /\ Renews(A, B, {a, b}, "mantiss", mode, A.text[a] \o A.text[b])
  <2>1. \A q \in {a, b} : q = "mantiss" \/ q = "new"
    OBVIOUS
  <2>2. Owns(A, a) /\ Owns(A, b) /\ Unseen(A)
    BY <1>1, <1>5, <2>1 DEF Owns, Unseen
  <2> QED
    BY <1>1, <1>4, <2>2, JoinMoves, Zenon
<1>7. B \in Description
  BY <1>6, Zenon DEF Renews
<1>8. mode \in {"made", "own", "blur"}
  OBVIOUS
<1> HIDE DEF B, mode
<1>9. /\ B.mode["mantiss"] \in {"made", "own", "blur"}
      /\ \A q \in Pointers : q # "mantiss" => ~Owns(B, q)
      /\ B.lost = {} /\ B.goal = goal /\ ~B.printed
  BY <1>1, <1>5, <1>6, <1>8 DEF Renews, Owns
<1>10. Weaker(B, D)
  BY <1>7, <1>9, WeakerBlur DEF D
<1>11. Moves(ft_strjoin_free("mantiss", a, b), A, D)
  BY <1>6, <1>10, MovesWeaker
<1>12. Triple(D, <<ft_strdup("new", s), ft_strjoin_free("mantiss", a, b)>>, D)
  BY <1>2, <1>3, <1>4, <1>11, TwoTriple
<1> QED
  BY <1>12 DEF D

\* One bit.
LEMMA BitTriple ==
  ASSUME NEW goal \in MemText, NEW bits, NEW k
  PROVE  Triple(Blur(goal), Bit(bits, k), Blur(goal))
<1> DEFINE D == Blur(goal)
           add == <<Computed("res", {}, AnyDigits), Computed("mantiss", {"mantiss", "res"}, AnyDigits)>>
           shift == <<ft_strdup("new", <<"0">>), ft_strjoin_free("mantiss", "mantiss", "new")>>
<1>1. /\ D \in Description /\ {"mantiss", "new", "res"} \subseteq Pointers /\ <<"0">> \in MemText
      /\ AnyDigits \in MemText
  BY BlurFacts
<1>2. Triple(D, add, D)
  <2>1. "res" \in Pointers /\ "res" # "mantiss"
    BY <1>1
  <2> QED
    BY <1>1, <2>1, BlurSum
<1>3. Triple(D, shift, D)
  BY <1>1, BlurJoin
<1>4. Triple(D, <<>>, D)
  BY <1>1, IdleTriple
<1>5. Bit(bits, k) = When(bits[k] = 1, add) \o When(k < MantBits, shift)
  BY Zenon DEF Bit
<1> HIDE DEF D, add, shift
<1>6. Triple(D, When(bits[k] = 1, add), D)
  BY <1>2, <1>4, Zenon DEF When
<1>7. Triple(D, When(k < MantBits, shift), D)
  BY <1>3, <1>4, Zenon DEF When
<1>8. Triple(D, Bit(bits, k), D)
  BY <1>1, <1>5, <1>6, <1>7, JoinTriple
<1> QED
  BY <1>8 DEF D

\* The calls for the bits 1 to k: the function that AddBits defines.
BitCalls == {Computed("res", {}, AnyDigits), Computed("mantiss", {"mantiss", "res"}, AnyDigits),
             ft_strdup("new", <<"0">>), ft_strjoin_free("mantiss", "mantiss", "new")}
BitsTo(bits, calls) == calls = [k \in 0 .. MantBits |-> IF k = 0 THEN <<>> ELSE calls[k - 1] \o Bit(bits, k)]
BitsFor(bits) == CHOOSE calls : BitsTo(bits, calls)

\* AddBits is the last of them.
LEMMA AddBitsIsLast == \A bits : AddBits(bits) = BitsFor(bits)[MantBits]
BY DEF AddBits, BitsFor, BitsTo

\* There are such calls.
LEMMA BitsExist ==
  ASSUME NEW bits
  PROVE  BitsTo(bits, BitsFor(bits))
<1> DEFINE D      == Seq(BitCalls)
           before == [k \in 1 .. MantBits |-> k - 1]
           F      == [x \in (1 .. MantBits) \X D |-> x[2] \o Bit(bits, x[1])]
<1>1. MantBits \in Nat
  BY ConversionAssumption
<1>2. \A k : Bit(bits, k) \in D
  <2> TAKE k
  <2>1. /\ <<Computed("res", {}, AnyDigits), Computed("mantiss", {"mantiss", "res"}, AnyDigits)>> \in D
        /\ <<ft_strdup("new", <<"0">>), ft_strjoin_free("mantiss", "mantiss", "new")>> \in D
        /\ <<>> \in D
    BY DEF BitCalls
  <2>2. \A c \in D, e \in D : c \o e \in D
    OBVIOUS
  <2> HIDE DEF D
  <2> QED
    BY <2>1, <2>2, Zenon DEF Bit, When
<1>3. /\ before \in [1 .. MantBits -> Nat]
      /\ \A k \in 1 .. MantBits : before[k] < k /\ before[k] = k - 1
  BY <1>1
<1>4. \A k \in 1 .. MantBits, c \in D : c \o Bit(bits, k) \in D
  BY <1>2
<1>5. <<>> \in D
  OBVIOUS
<1> HIDE DEF D, before
<1>6. F \in [(1 .. MantBits) \X D -> D]
  BY <1>4
<1>7. \A k \in 1 .. MantBits, c \in D : F[<<k, c>>] = c \o Bit(bits, k)
  OBVIOUS
<1> HIDE DEF F
<1>8. Recursive(D, <<>>, MantBits, before, F)
  BY <1>1, <1>3, <1>5, <1>6, Recursion
<1>9. PICK g \in [0 .. MantBits -> D] : Follows(g, <<>>, MantBits, before, F)
  BY <1>8 DEF Recursive
<1>10. ASSUME NEW k \in 0 .. MantBits
       PROVE  g[k] = IF k = 0 THEN <<>> ELSE g[k - 1] \o Bit(bits, k)
  <2>1. CASE k = 0
    BY <1>9, <2>1 DEF Follows
  <2>2. CASE k # 0
    <3>1. k \in 1 .. MantBits /\ k - 1 \in 0 .. MantBits
      BY <1>1, <2>2
    <3>2. g[k] = F[<<k, g[k - 1]>>] /\ g[k - 1] \in D
      BY <1>3, <1>9, <3>1 DEF Follows
    <3> QED
      BY <1>7, <2>2, <3>1, <3>2
  <2> QED
    BY <2>1, <2>2
<1>11. BitsTo(bits, g)
  <2> DEFINE h == [k \in 0 .. MantBits |-> IF k = 0 THEN <<>> ELSE g[k - 1] \o Bit(bits, k)]
  <2>1. g = [k \in 0 .. MantBits |-> g[k]]
    BY <1>9
  <2>2. \A k \in 0 .. MantBits : g[k] = h[k]
    BY <1>10
  <2>3. g = h
    BY <2>1, <2>2
  <2> QED
    BY <2>3 DEF BitsTo
<1> QED
  BY <1>11 DEF BitsFor

\* All bits.
LEMMA AddBitsTriple ==
  ASSUME NEW goal \in MemText, NEW bits
  PROVE  Triple(Blur(goal), AddBits(bits), Blur(goal))
<1> DEFINE g == BitsFor(bits)
           D == Blur(goal)
           P == {k \in 0 .. MantBits : Triple(D, g[k], D)}
<1>1. MantBits \in Nat
  BY ConversionAssumption
<1>2. D \in Description
  BY BlurFacts
<1>3. \A k \in 0 .. MantBits : g[k] = IF k = 0 THEN <<>> ELSE g[k - 1] \o Bit(bits, k)
  <2> DEFINE h == [k \in 0 .. MantBits |-> IF k = 0 THEN <<>> ELSE g[k - 1] \o Bit(bits, k)]
  <2>1. g = h
    BY BitsExist, Zenon DEF BitsTo
  <2>2. \A k \in 0 .. MantBits : h[k] = IF k = 0 THEN <<>> ELSE g[k - 1] \o Bit(bits, k)
    OBVIOUS
  <2> HIDE DEF h, g
  <2> QED
    BY <2>1, <2>2
<1> HIDE DEF g, D
<1>4. 0 \in P
  <2>1. Triple(D, <<>>, D) /\ g[0] = <<>> /\ 0 \in 0 .. MantBits
    BY <1>1, <1>2, <1>3, IdleTriple
  <2> QED
    BY <2>1
<1>5. ASSUME NEW k \in 0 .. MantBits - 1, k \in P
      PROVE  k + 1 \in P
  <2>1. k + 1 \in 0 .. MantBits /\ k + 1 # 0 /\ (k + 1) - 1 = k
    BY <1>1
  <2>2. g[k + 1] = g[k] \o Bit(bits, k + 1)
    BY <1>3, <2>1
  <2>3. Triple(D, Bit(bits, k + 1), D)
    BY BitTriple DEF D
  <2>4. Triple(D, g[k + 1], D)
    BY <1>2, <1>5, <2>2, <2>3, JoinTriple
  <2> QED
    BY <2>1, <2>4
<1> HIDE DEF P
<1>6. MantBits \in P
  <2>1. \A k \in 0 .. MantBits : k \in P
    BY <1>1, <1>4, <1>5, Induct
  <2> QED
    BY <1>1, <2>1
<1> QED
  BY <1>6, AddBitsIsLast DEF P, g, D

\* get_mantissa.
LEMMA MantissaBody ==
  ASSUME NEW goal \in MemText, NEW calls \in GetMantissa
  PROVE  Triple(Nothing({}, goal), calls, Blur(goal))
<1> DEFINE N == Nothing({}, goal)
           D == Blur(goal)
           front == <<ft_strdup("new", <<"0">>), ft_strjoin_free("mantiss", "new", "mantiss")>>
           scale == <<Computed("tmp", {}, AnyDigits),
                      Computed("mantiss", {"tmp", "mantiss"}, AnyDigits)>>
           first == ft_strdup("mantiss", <<"0">>)
           zeros == [k \in 1 .. MantBits |-> "0"]
           block == Make("mantiss", zeros, MantBits + 1, MantBits + 2, "null")
<1>1. D \in Description /\ N \in Description /\ <<"0">> \in MemText /\ AnyDigits \in MemText
      /\ "tmp" \in Pointers /\ "mantiss" \in Pointers
  BY BlurFacts
<1>2. Triple(D, front, D)
  BY <1>1, BlurJoin
<1>3. Triple(D, scale, D)
  BY <1>1, BlurSum
<1>4. Triple(D, <<>>, D)
  BY <1>1, IdleTriple
<1>5. \/ \E bits : calls = <<first>> \o AddBits(bits) \o front \o scale
      \/ calls = <<block>> \o front \o scale \/ calls = <<block>> \o front \o <<>>
  BY DEF GetMantissa
<1>6. ASSUME NEW c, NEW t \in MemText, Moves(c, N, Renewed(N, {}, "mantiss", "made", t)),
             Renews(N, Renewed(N, {}, "mantiss", "made", t), {}, "mantiss", "made", t)
      PROVE  Triple(N, <<c>>, D)
  <2> DEFINE A == Renewed(N, {}, "mantiss", "made", t)
  <2>1. A \in Description
    BY <1>6, Zenon DEF Renews
  <2>2. N.lost = {} /\ N.goal = goal /\ ~N.printed /\ \A q \in Pointers : N.mode[q] = "any"
    <3>1. {} \in SUBSET Pointers
      OBVIOUS
    <3> QED
      BY <3>1, NothingFacts
  <2>3. Renews(N, A, {}, "mantiss", "made", t)
    BY <1>6
  <2> HIDE DEF A
  <2>4. /\ A.mode["mantiss"] = "made" /\ \A q \in Pointers : q # "mantiss" => ~Owns(A, q)
        /\ A.lost = {} /\ A.goal = goal /\ ~A.printed
    BY <1>1, <2>2, <2>3 DEF Renews, Owns
  <2>5. Weaker(A, D)
    BY <2>1, <2>4, WeakerBlur
  <2>6. Moves(c, N, D)
    BY <1>6, <2>5, MovesWeaker DEF A
  <2> QED
    BY <1>1, <2>6, OneTriple
<1>7. ~Owns(N, "mantiss")
  BY <1>1, NothingFacts DEF Owns
<1> HIDE DEF front, scale
<1>8. Triple(N, <<first>>, D)
  <2> HIDE DEF N, D
  <2> QED
    BY <1>1, <1>6, <1>7, DupMoves
<1>9. Triple(N, <<block>>, D)
  <2> DEFINE A == Renewed(N, {}, "mantiss", "made", zeros)
  <2>1. MantBits \in Nat
    BY ConversionAssumption
  <2>2. zeros \in MemText
    <3>1. "0" \in MemChar
      BY OwnMemChars
    <3> QED
      BY <2>1, <3>1 DEF MemText
  <2>3. BlockSized([text |-> zeros, size |-> MantBits + 1, used |-> MantBits + 2, for |-> "mantiss"])
    BY <2>1 DEF BlockSized
  <2> HIDE DEF zeros
  <2>4. "made" \in Modes
    BY DEF Modes
  <2>5. Renews(N, A, {}, "mantiss", "made", zeros)
    BY <1>1, <2>2, <2>4, RenewedFacts, Zenon
  <2>6. A \in Description
    BY <2>5, Zenon DEF Renews
  <2>7. MakeEffect(block, N, A)
    <3>1. /\ block.op = "make" /\ block.to = "mantiss" /\ block.text = zeros
          /\ block.size = MantBits + 1
          /\ block.used = MantBits + 2 /\ block.lack = "null"
      BY DEF Make
    <3>2. {block.size, block.used} \subseteq Int
      BY <2>1, <3>1
    <3> HIDE DEF block, A, N
    <3> QED
      BY <1>1, <1>7, <2>2, <2>3, <3>1, <3>2 DEF MakeEffect, A
  <2>8. Moves(block, N, A)
    BY <2>6, <2>7, EffectMoves, Zenon DEF Effect
  <2> HIDE DEF N, D, block
  <2> QED
    BY <1>6, <2>2, <2>5, <2>8
<1> HIDE DEF N, D, first, block
<1>10. CASE \E bits : calls = <<first>> \o AddBits(bits) \o front \o scale
  <2>1. PICK bits : calls = <<first>> \o AddBits(bits) \o front \o scale
    BY <1>10
  <2>2. Triple(D, AddBits(bits), D)
    BY AddBitsTriple DEF D
  <2>3. Triple(N, <<first>> \o AddBits(bits), D)
    BY <1>1, <1>8, <2>2, JoinTriple
  <2>4. Triple(N, (<<first>> \o AddBits(bits)) \o front, D)
    BY <1>1, <1>2, <2>3, JoinTriple
  <2>5. Triple(N, ((<<first>> \o AddBits(bits)) \o front) \o scale, D)
    BY <1>1, <1>3, <2>4, JoinTriple
  <2> QED
    BY <2>1, <2>5 DEF N, D
<1>11. ASSUME NEW last, Triple(D, last, D), calls = <<block>> \o front \o last
       PROVE  Triple(N, calls, D)
  <2>1. Triple(N, <<block>> \o front, D)
    BY <1>1, <1>2, <1>9, JoinTriple
  <2>2. Triple(N, (<<block>> \o front) \o last, D)
    BY <1>1, <1>11, <2>1, JoinTriple
  <2> QED
    BY <1>11, <2>2
<1> QED
  BY <1>3, <1>4, <1>5, <1>10, <1>11 DEF N, D

-----------------------------------------------------------------------------
\* The parts of a float
IsParts(D, mantiss, mode, lost, goal) ==
  /\ D \in Description /\ D.lost = lost /\ D.goal = goal /\ ~D.printed
  /\ D.mode["mantiss"] = mantiss
  /\ D.mode["decimal"] = mode /\ D.text["decimal"] = value.decimal
  /\ D.mode["fract"] = mode /\ D.text["fract"] = value.fract
  /\ \A q \in Pointers \ {"mantiss", "decimal", "fract"} : D.mode[q] = "any"

\* The texts of a float.
LEMMA FloatPartsText ==
  ASSUME MemoryTyped, directive.spec = "f"
  PROVE  /\ value.fract \in MemText /\ value.decimal \in MemText /\ value.word \in MemText
         /\ FloatText \in MemText /\ FieldText(FloatText) /\ value.word \in {<<>>} \cup Words
<1>1. /\ value.word \in {<<>>} \cup Words /\ value.decimal \in Seq(DecimalDigits)
      /\ value.fract \in Seq(DecimalDigits)
      /\ value.word = <<>> => value.decimal # <<>>
  BY ConversionFacts DEF FloatRecord
<1>2. DecimalDigits \subseteq MemChar /\ {"n", "a", "i", "f", "-", "."} \subseteq MemChar
  BY DEF DecimalDigits, MemChar, Letters
<1>3. value.decimal \in MemText /\ value.fract \in MemText
  BY <1>1, <1>2 DEF MemText
<1>4. Words \subseteq MemText /\ \A w \in Words : w # <<>> /\ w[1] \notin {"+", Blank}
  BY <1>2 DEF Words, NaN, MemText, Blank
<1>5. <<>> \in MemText /\ <<".">> \in MemText /\ <<"-">> \in MemText
  BY <1>2 DEF MemText
<1> DEFINE s == IF value.neg THEN <<"-">> ELSE <<>>
           f == IF "HASH" \in directive.flag \/ directive.precision # 0 THEN <<".">> \o value.fract ELSE <<>>
           t == s \o value.decimal \o f
<1>6. s \in MemText /\ f \in MemText
  <2>1. <<".">> \o value.fract \in MemText
    BY <1>3, <1>5 DEF MemText
  <2> QED
    BY <1>5, <2>1
<1>7. s = <<"-">> \/ s = <<>>
  OBVIOUS
<1>8. FloatText = IF value.word # <<>> THEN value.word ELSE t
  BY Zenon DEF FloatText
<1> HIDE DEF s, f
<1>9. t \in MemText
  BY <1>3, <1>6 DEF MemText
<1>10. value.word = <<>> => t[1] \notin {"+", Blank}
  <2> SUFFICES ASSUME value.word = <<>>
               PROVE  t[1] \notin {"+", Blank}
    OBVIOUS
  <2>1. Len(value.decimal) >= 1 /\ value.decimal[1] \in DecimalDigits
    BY <1>1
  <2>2. CASE s = <<"-">>
    <3>1. t[1] = "-"
      BY <1>3, <1>6, <2>2 DEF MemText
    <3> QED
      BY <3>1 DEF Blank
  <2>3. CASE s = <<>>
    <3>1. t[1] = value.decimal[1]
      BY <1>3, <1>6, <2>1, <2>3 DEF MemText
    <3> QED
      BY <2>1, <3>1 DEF Blank, DecimalDigits
  <2> QED
    BY <1>7, <2>2, <2>3
<1> HIDE DEF t
<1>11. FloatText \in MemText /\ value.word \in MemText
  BY <1>1, <1>4, <1>5, <1>8, <1>9
<1>12. FloatText[1] \notin {"+", Blank}
  BY <1>1, <1>4, <1>8, <1>10
<1> QED
  BY <1>1, <1>3, <1>11, <1>12 DEF FieldText

\* What Parts says.
LEMMA PartsFacts ==
  ASSUME MemoryTyped, directive.spec = "f", NEW mantiss \in Modes, NEW mode \in Modes,
         NEW lost \in SUBSET Pointers,
         NEW goal \in MemText
  PROVE  IsParts(Parts(mantiss, mode, lost, goal), mantiss, mode, lost, goal)
<1> DEFINE N == Nothing(lost, goal)
           A == With(N, "mantiss", mantiss, <<>>)
           B == With(A, "decimal", mode, value.decimal)
           C == With(B, "fract", mode, value.fract)
<1>1. {"mantiss", "decimal", "fract"} \subseteq Pointers /\ <<>> \in MemText
  BY DEF Pointers, MemText
<1>2. value.fract \in MemText /\ value.decimal \in MemText
  BY FloatPartsText
<1>3. /\ N \in Description /\ N.lost = lost /\ N.goal = goal /\ ~N.printed
      /\ \A q \in Pointers : N.mode[q] = "any"
  BY NothingFacts
<1> HIDE DEF N
<1>4. Renews(N, A, {}, "mantiss", mantiss, <<>>)
  BY <1>1, <1>3, WithRenews
<1>5. A \in Description
  BY <1>4, Zenon DEF Renews
<1> HIDE DEF A
<1>6. Renews(A, B, {}, "decimal", mode, value.decimal)
  BY <1>1, <1>2, <1>5, WithRenews
<1>7. B \in Description
  BY <1>6, Zenon DEF Renews
<1> HIDE DEF B
<1>8. Renews(B, C, {}, "fract", mode, value.fract)
  BY <1>1, <1>2, <1>7, WithRenews
<1>9. C = Parts(mantiss, mode, lost, goal)
  BY DEF Parts, A, B, N
<1> HIDE DEF C
<1>10. IsParts(C, mantiss, mode, lost, goal)
  BY <1>1, <1>3, <1>4, <1>6, <1>8 DEF IsParts, Renews
<1> QED
  BY <1>9, <1>10

\* What says as much.
LEMMA WeakerParts ==
  ASSUME NEW D \in Description, NEW E, NEW mantiss, NEW mode \in {"own", "made"}, NEW lost,
         NEW goal,
         IsParts(E, mantiss, mode, lost, goal), mantiss \in {"null", "blur"},
         D.mode["mantiss"] = mantiss \/ (D.mode["mantiss"] = "made" /\ mantiss = "blur"),
         D.mode["decimal"] \in {mode, "made"}, D.text["decimal"] = value.decimal,
         D.mode["fract"] \in {mode, "made"}, D.text["fract"] = value.fract,
         \A q \in Pointers \ {"mantiss", "decimal", "fract"} : ~Owns(D, q),
         D.lost = lost \/ (D.lost \subseteq lost /\ "result" \notin lost), D.goal = goal, ~D.printed
  PROVE  Weaker(D, E)
<1>1. D.printed = E.printed
  BY DEF IsParts, Description
<1>2. ASSUME NEW q \in Pointers
      PROVE  \/ D.mode[q] = E.mode[q] /\ (Knows(E, q) => D.text[q] = E.text[q])
             \/ D.mode[q] = "made" /\ E.mode[q] = "own" /\ D.text[q] = E.text[q]
             \/ D.mode[q] \in {"made", "own"} /\ E.mode[q] = "blur"
             \/ ~Owns(D, q) /\ E.mode[q] = "any"
  <2>1. CASE q = "mantiss"
    BY <2>1 DEF IsParts, Knows
  <2>2. CASE q \in {"decimal", "fract"}
    BY <2>2 DEF IsParts, Knows
  <2>3. CASE q \notin {"mantiss", "decimal", "fract"}
    BY <2>3 DEF IsParts
  <2> QED
    BY <2>1, <2>2, <2>3
<1>3. D.lost \subseteq E.lost /\ ("result" \in E.lost => "result" \in D.lost) /\ D.goal = E.goal
  BY DEF IsParts
<1> QED
  BY <1>1, <1>2, <1>3 DEF Weaker

\* The names of pointers and modes that are needed.
LEMMA PartNames ==
  /\ {"mantiss", "decimal", "fract", "s", "new", "fsum", "carry", "tmp", "result"} \subseteq Pointers
  /\ {"null", "any", "blur", "own", "made"} \subseteq Modes
  /\ {} \in SUBSET Pointers /\ Leaves \in SUBSET Pointers /\ "result" \notin Leaves
BY DEF Pointers, Modes, Leaves

\* save_parts.
LEMMA SaveBody ==
  ASSUME MemoryTyped, directive.spec = "f", NEW goal \in MemText, NEW calls \in SaveParts
  PROVE  Triple(Blur(goal), calls, Parts("blur", "made", {}, goal))
<1> DEFINE D == Blur(goal)
           E == Parts("blur", "made", {}, goal)
<1> SUFFICES Triple(D, calls, E)
  OBVIOUS
<1>1. value.fract \in MemText /\ value.decimal \in MemText
  BY FloatPartsText
<1>2. /\ "decimal" \in Pointers /\ "fract" \in Pointers /\ "mantiss" \in Pointers
      /\ {} \in SUBSET Pointers
  BY PartNames
<1>3. IsOnly(D, "mantiss", "blur", <<>>, {}, goal) /\ D \in Description
  BY BlurFacts
<1>4. IsParts(E, "blur", "made", {}, goal)
  BY PartsFacts, PartNames
<1>5. E \in Description
  BY <1>4, Zenon DEF IsParts
<1> HIDE DEF D, E
<1>6. CASE calls = <<Computed("fract", {}, value.fract), ft_strdup("decimal", value.decimal)>>
  <2> DEFINE A == Renewed(D, {}, "fract", "made", value.fract)
             B == Renewed(A, {}, "decimal", "made", value.decimal)
  <2>1. ~Owns(D, "fract")
    BY <1>2, <1>3 DEF IsOnly, Owns
  <2>2. /\ Moves(Computed("fract", {}, value.fract), D, A)
        /\ Renews(D, A, {}, "fract", "made", value.fract)
    BY <1>1, <1>2, <1>3, <2>1, DigitsMoves
  <2>3. A \in Description
    BY <2>2, Zenon DEF Renews
  <2> HIDE DEF A
  <2>4. ~Owns(A, "decimal")
    BY <1>2, <1>3, <2>2 DEF IsOnly, Renews, Owns
  <2>5. /\ Moves(ft_strdup("decimal", value.decimal), A, B)
        /\ Renews(A, B, {}, "decimal", "made", value.decimal)
    BY <1>1, <1>2, <2>3, <2>4, DupMoves
  <2>6. B \in Description
    BY <2>5, Zenon DEF Renews
  <2> HIDE DEF B
  <2>7. Weaker(B, E)
    <3>1. /\ B.mode["mantiss"] = "blur" /\ B.mode["decimal"] = "made"
          /\ B.text["decimal"] = value.decimal
          /\ B.mode["fract"] = "made" /\ B.text["fract"] = value.fract
          /\ \A q \in Pointers \ {"mantiss", "decimal", "fract"} : ~Owns(B, q)
          /\ B.lost = {} /\ B.goal = goal /\ ~B.printed
      BY <1>2, <1>3, <2>2, <2>5 DEF IsOnly, Renews, Owns
    <3> QED
      BY <1>4, <2>6, <3>1, WeakerParts
  <2>8. Moves(ft_strdup("decimal", value.decimal), A, E)
    BY <2>5, <2>7, MovesWeaker
  <2>9. Triple(D, <<Computed("fract", {}, value.fract), ft_strdup("decimal", value.decimal)>>, E)
    BY <1>3, <1>5, <2>2, <2>3, <2>8, TwoTriple
  <2> QED
    BY <1>6, <2>9, Zenon
<1>7. CASE calls = <<ft_strdup("decimal", value.decimal), ft_strdup("fract", value.fract)>>
  <2> DEFINE A == Renewed(D, {}, "decimal", "made", value.decimal)
             B == Renewed(A, {}, "fract", "made", value.fract)
  <2>1. ~Owns(D, "decimal")
    BY <1>2, <1>3 DEF IsOnly, Owns
  <2>2. /\ Moves(ft_strdup("decimal", value.decimal), D, A)
        /\ Renews(D, A, {}, "decimal", "made", value.decimal)
    BY <1>1, <1>2, <1>3, <2>1, DupMoves
  <2>3. A \in Description
    BY <2>2, Zenon DEF Renews
  <2> HIDE DEF A
  <2>4. ~Owns(A, "fract")
    BY <1>2, <1>3, <2>2 DEF IsOnly, Renews, Owns
  <2>5. /\ Moves(ft_strdup("fract", value.fract), A, B)
        /\ Renews(A, B, {}, "fract", "made", value.fract)
    BY <1>1, <1>2, <2>3, <2>4, DupMoves
  <2>6. B \in Description
    BY <2>5, Zenon DEF Renews
  <2> HIDE DEF B
  <2>7. Weaker(B, E)
    <3>1. /\ B.mode["mantiss"] = "blur" /\ B.mode["decimal"] = "made"
          /\ B.text["decimal"] = value.decimal
          /\ B.mode["fract"] = "made" /\ B.text["fract"] = value.fract
          /\ \A q \in Pointers \ {"mantiss", "decimal", "fract"} : ~Owns(B, q)
          /\ B.lost = {} /\ B.goal = goal /\ ~B.printed
      BY <1>2, <1>3, <2>2, <2>5 DEF IsOnly, Renews, Owns
    <3> QED
      BY <1>4, <2>6, <3>1, WeakerParts
  <2>8. Moves(ft_strdup("fract", value.fract), A, E)
    BY <2>5, <2>7, MovesWeaker
  <2>9. Triple(D, <<ft_strdup("decimal", value.decimal), ft_strdup("fract", value.fract)>>, E)
    BY <1>3, <1>5, <2>2, <2>3, <2>8, TwoTriple
  <2> QED
    BY <1>7, <2>9, Zenon
<1> QED
  <2>1. \/ calls = <<Computed("fract", {}, value.fract), ft_strdup("decimal", value.decimal)>>
        \/ calls = <<ft_strdup("decimal", value.decimal), ft_strdup("fract", value.fract)>>
    BY Zenon DEF SaveParts
  <2> QED
    BY <1>6, <1>7, <2>1, Zenon

\* fract_length.
LEMMA FractBody ==
  ASSUME MemoryTyped, directive.spec = "f", NEW goal \in MemText, NEW calls \in FractLength
  PROVE  Triple(Parts("blur", "made", {}, goal), calls, Parts("blur", "made", {}, goal))
<1> DEFINE D == Parts("blur", "made", {}, goal)
           A == Moved(D, "tmp", "fract")
           c == Computed("fract", {}, value.fract)
           E == Renewed(D, {}, "fract", "made", value.fract)
<1>1. value.fract \in MemText /\ value.decimal \in MemText
  BY FloatPartsText
<1>2. {"mantiss", "decimal", "fract", "tmp"} \subseteq Pointers /\ {} \in SUBSET Pointers
      /\ "fract" \in Pointers
      /\ "tmp" \in Pointers
  BY PartNames
<1>3. IsParts(D, "blur", "made", {}, goal)
  BY PartsFacts, PartNames
<1>4. D \in Description
  BY <1>3, Zenon DEF IsParts
<1> HIDE DEF D
<1>5. Triple(D, <<>>, D)
  BY <1>4, IdleTriple
<1>6. Shifts(D, A, "tmp", "fract")
  BY <1>2, <1>4, MovedFacts, Zenon
<1>7. A \in Description /\ ~Owns(A, "fract")
  BY <1>6 DEF Shifts, Owns
<1>8. Moves(c, A, Renewed(A, {}, "fract", "made", value.fract))
  <2> HIDE DEF A
  <2> QED
    BY <1>1, <1>2, <1>7, DigitsMoves
<1>9. D.mode["fract"] \in {"own", "made"} /\ D.mode["tmp"] = "any" /\ Unseen(D)
  BY <1>2, <1>3 DEF IsParts, Unseen
<1> HIDE DEF c
<1>10. Triple(D, Replace("fract", <<c>>), E) /\ Renews(D, E, {}, "fract", "made", value.fract)
  BY <1>1, <1>2, <1>4, <1>8, <1>9, ReplaceOne
<1>11. E \in Description
  BY <1>10, Zenon DEF Renews
<1> HIDE DEF E
<1>12. Weaker(E, D)
  <2>1. /\ E.mode["mantiss"] = "blur" /\ E.mode["decimal"] = "made"
        /\ E.text["decimal"] = value.decimal
        /\ E.mode["fract"] = "made" /\ E.text["fract"] = value.fract
        /\ \A q \in Pointers \ {"mantiss", "decimal", "fract"} : ~Owns(E, q)
        /\ E.lost = {} /\ E.goal = goal /\ ~E.printed
    BY <1>2, <1>3, <1>10 DEF IsParts, Renews, Owns
  <2> QED
    BY <1>3, <1>11, <2>1, WeakerParts
<1>13. Triple(D, Replace("fract", <<c>>), D)
  BY <1>4, <1>10, <1>11, <1>12, TripleWeaker
<1> QED
  BY <1>5, <1>13 DEF FractLength, D, c

-----------------------------------------------------------------------------
\* Rounding a float

\* Descriptions that are renewed in the same way say the same.
LEMMA RenewsWeaker ==
  ASSUME NEW D, NEW E, NEW F, NEW gone, NEW p, NEW mode, NEW text,
         Renews(D, E, gone, p, mode, text), Renews(D, F, gone, p, mode, text)
  PROVE  Weaker(E, F)
BY DEF Renews, Weaker

\* Nothing needs to be said of a pointer without a block of its own.
LEMMA DropPointer ==
  ASSUME NEW D \in Description, NEW p \in Pointers, ~Owns(D, p)
  PROVE  LET E == With(D, p, "any", <<>>)
         IN Weaker(D, E) /\ Renews(D, E, {}, p, "any", <<>>) /\ E \in Description
<1> DEFINE E == With(D, p, "any", <<>>)
<1>1. "any" \in Modes /\ <<>> \in MemText
  BY DEF Modes, MemText
<1>2. Renews(D, E, {}, p, "any", <<>>)
  BY <1>1, WithRenews, Zenon
<1>3. E \in Description
  BY <1>2, Zenon DEF Renews
<1> HIDE DEF E
<1>4. Weaker(D, E)
  BY <1>2 DEF Renews, Weaker
<1> QED
  BY <1>2, <1>3, <1>4 DEF E

\* A pointer that is overwritten leaves its block behind.
LEMMA ForgetFits ==
  ASSUME MemoryTyped, NEW D \in Description, NEW p \in Pointers, Fits(D), D.mode[p] = "made",
         D.lost = {}
  PROVE  \E X \in Description :
           /\ Fits(X) /\ X.lost = {p} /\ X.goal = D.goal /\ X.printed = D.printed
           /\ X.mode[p] = "any"
           /\ \A q \in Pointers \ {p} : X.mode[q] = D.mode[q] /\ X.text[q] = D.text[q]
<1> DEFINE E == Forgotten(D, p)
           X == With(E, p, "any", <<>>)
<1>1. E \in Description /\ Fits(E)
  BY ForgottenFits
<1>2. /\ E.lost = {p} /\ E.goal = D.goal /\ E.printed = D.printed /\ E.text = D.text
      /\ E.mode[p] = "see" /\ \A q \in Pointers \ {p} : E.mode[q] = D.mode[q]
  <2>1. D.text[p] \in MemText /\ D.text = [D.text EXCEPT ![p] = D.text[p]] /\ "see" \in Modes
    BY DEF Description, Modes
  <2> QED
    BY <2>1 DEF Forgotten, With, Description
<1> HIDE DEF E
<1>3. ~Owns(E, p)
  BY <1>2 DEF Owns
<1>4. Weaker(E, X) /\ Renews(E, X, {}, p, "any", <<>>) /\ X \in Description
  BY <1>1, <1>3, DropPointer, Zenon
<1> HIDE DEF X
<1>5. Fits(X)
  BY <1>1, <1>4, WeakerFits
<1>6. /\ X.lost = {p} /\ X.goal = D.goal /\ X.printed = D.printed /\ X.mode[p] = "any"
      /\ \A q \in Pointers \ {p} : X.mode[q] = D.mode[q] /\ X.text[q] = D.text[q]
  BY <1>2, <1>4 DEF Renews
<1> QED
  BY <1>4, <1>5, <1>6

\* A list of five calls.
LEMMA FiveCalls ==
  ASSUME NEW a, NEW b, NEW c, NEW d, NEW e
  PROVE  <<a>> \o <<b, c, d, e>> = <<a, b, c, d, e>>
<1> DEFINE S == {a, b, c, d, e}
           s == <<a>> \o <<b, c, d, e>>
           t == <<a, b, c, d, e>>
<1>1. <<a>> \in Seq(S) /\ <<b, c, d, e>> \in Seq(S)
  OBVIOUS
<1>2. s \in Seq(S) /\ Len(s) = 5 /\ s[1] = a /\ s[2] = b /\ s[3] = c /\ s[4] = d /\ s[5] = e
  BY <1>1
<1>3. t \in Seq(S) /\ Len(t) = 5 /\ t[1] = a /\ t[2] = b /\ t[3] = c /\ t[4] = d /\ t[5] = e
  OBVIOUS
<1> HIDE DEF S, s, t
<1>4. ASSUME NEW k \in 1 .. 5
      PROVE  s[k] = t[k]
  <2>1. k \in {1, 2, 3, 4, 5}
    BY SMT
  <2> QED
    BY <1>2, <1>3, <2>1
<1>5. s = t
  BY <1>2, <1>3, <1>4, SeqEqual, SMT
<1> QED
  BY <1>5 DEF s, t

\* The end of the rounding.
LEMMA CutMoves ==
  ASSUME MemoryTyped, directive.spec = "f", value.word = <<>>, NEW goal \in MemText
  PROVE  LET E == Parts("null", "own", Leaves, goal) IN Moves(Enter("cut"), E, E) /\ E \in Description
<1> DEFINE E == Parts("null", "own", Leaves, goal)
<1>1. IsParts(E, "null", "own", Leaves, goal)
  BY PartsFacts, PartNames
<1>2. E \in Description
  BY <1>1, Zenon DEF IsParts
<1>3. Contract("cut", E, E)
  <2>1. FloatContract("cut", E, E)
    BY DEF FloatContract
  <2> QED
    BY <2>1, Zenon DEF Contract
<1> HIDE DEF E
<1>4. \A p \in ReadsOf("cut") : p \in Pointers /\ Owns(E, p)
  BY <1>1, PartNames DEF ReadsOf, IsParts, Owns
<1>5. Moves(Enter("cut"), E, E)
  BY <1>2, <1>3, <1>4, EnterMoves
<1> QED
  BY <1>2, <1>5 DEF E

\* ft_fround.
LEMMA RoundBody ==
  ASSUME MemoryTyped, directive.spec = "f", value.word = <<>>, NEW goal \in MemText,
         NEW calls \in Round
  PROVE  Triple(Parts("null", "made", {}, goal), calls, Parts("null", "own", Leaves, goal))
<1> DEFINE D == Parts("null", "made", {}, goal)
           E == Parts("null", "own", Leaves, goal)
           S == With(D, "s", "made", value.fract)
           F == With(D, "fsum", "made", value.fract)
           A == Renewed(D, {}, "s", "made", value.fract)
           B == Renewed(A, {}, "new", "made", value.fract)
           C == Renewed(B, {"s", "new"}, "fsum", "made", value.fract)
<1> SUFFICES Triple(D, calls, E)
  OBVIOUS
<1>1. value.fract \in MemText
  BY FloatPartsText
<1>2. /\ {"mantiss", "decimal", "fract", "s", "new", "fsum"} \subseteq Pointers
      /\ "s" \in Pointers /\ "fsum" \in Pointers /\ "made" \in Modes /\ "new" \in Pointers
      /\ "fract" \in Pointers
  BY PartNames
<1>3. IsParts(D, "null", "made", {}, goal) /\ IsParts(E, "null", "own", Leaves, goal)
  BY PartsFacts, PartNames
<1>4. D \in Description /\ E \in Description
  BY <1>3, Zenon DEF IsParts
<1>5. FloatContract("odd_half", S, E) /\ FloatContract("carry", F, E)
  BY DEF FloatContract
<1> HIDE DEF D, E
<1>6. Renews(D, S, {}, "s", "made", value.fract) /\ Renews(D, F, {}, "fsum", "made", value.fract)
  BY <1>1, <1>2, <1>4, WithRenews
<1>7. S \in Description /\ F \in Description
  BY <1>6, Zenon DEF Renews
<1> HIDE DEF S, F
<1>8. Moves(Enter("odd_half"), S, E)
  <2>1. \A p \in ReadsOf("odd_half") : p \in Pointers /\ Owns(S, p)
    BY <1>2, <1>3, <1>6 DEF ReadsOf, IsParts, Renews, Owns
  <2>2. Contract("odd_half", S, E)
    BY <1>5, Zenon DEF Contract
  <2> QED
    BY <1>4, <1>7, <2>1, <2>2, EnterMoves
<1>9. Moves(Enter("carry"), F, E)
  <2>1. \A p \in ReadsOf("carry") : p \in Pointers /\ Owns(F, p)
    BY <1>2, <1>3, <1>6 DEF ReadsOf, IsParts, Renews, Owns
  <2>2. Contract("carry", F, E)
    BY <1>5, Zenon DEF Contract
  <2> QED
    BY <1>4, <1>7, <2>1, <2>2, EnterMoves
<1>10. Moves(Filled("s", value.fract), D, A) /\ Renews(D, A, {}, "s", "made", value.fract)
  <2>1. ~Owns(D, "s")
    BY <1>2, <1>3 DEF IsParts, Owns
  <2> QED
    BY <1>1, <1>2, <1>4, <2>1, DupMoves
<1>11. A \in Description
  BY <1>10, Zenon DEF Renews
<1> HIDE DEF A
<1>12. CASE calls = <<Filled("s", value.fract), Enter("odd_half")>>
  <2>1. Weaker(A, S)
    BY <1>6, <1>10, RenewsWeaker
  <2>2. Moves(Filled("s", value.fract), D, S)
    BY <1>10, <2>1, MovesWeaker
  <2>3. Triple(D, <<Filled("s", value.fract), Enter("odd_half")>>, E)
    BY <1>4, <1>7, <1>8, <2>2, TwoTriple
  <2> QED
    BY <1>12, <2>3, Zenon
<1>13. /\ A.mode["mantiss"] = "null" /\ A.mode["decimal"] = "made"
       /\ A.text["decimal"] = value.decimal
       /\ A.mode["fract"] = "made" /\ A.text["fract"] = value.fract /\ A.mode["s"] = "made"
       /\ \A q \in Pointers \ {"mantiss", "decimal", "fract", "s"} : A.mode[q] = "any"
       /\ A.lost = {} /\ A.goal = goal /\ ~A.printed
  BY <1>2, <1>3, <1>10 DEF IsParts, Renews
<1>14. /\ Moves(Copy("new", <<>>, "fract", 0, Len(value.fract)), A, B)
       /\ Renews(A, B, {}, "new", "made", value.fract)
  <2>1. Knows(A, "fract") /\ ~Owns(A, "new")
    BY <1>2, <1>13 DEF Knows, Owns
  <2>2. value.fract = <<>> \o SubSeq(A.text["fract"], 0 + 1, 0 + Len(value.fract))
    <3>1. SubSeq(value.fract, 1, Len(value.fract)) = value.fract /\ Len(value.fract) \in Nat
      BY <1>1, TextParts
    <3>2. <<>> \o value.fract = value.fract
      BY <1>1, EmptyEnds
    <3>3. 0 + 1 = 1 /\ 0 + Len(value.fract) = Len(value.fract)
      BY <3>1
    <3> QED
      BY <1>13, <3>1, <3>2, <3>3, Zenon
  <2> QED
    BY <1>1, <1>2, <1>11, <2>1, <2>2, CopyMoves
<1>15. B \in Description
  BY <1>14, Zenon DEF Renews
<1> HIDE DEF B
<1>16. /\ B.mode["mantiss"] = "null" /\ B.mode["decimal"] = "made"
       /\ B.text["decimal"] = value.decimal
       /\ B.mode["fract"] = "made" /\ B.text["fract"] = value.fract /\ B.mode["s"] = "made"
       /\ B.mode["new"] = "made"
       /\ \A q \in Pointers \ {"mantiss", "decimal", "fract", "s", "new"} : B.mode[q] = "any"
       /\ B.lost = {} /\ B.goal = goal /\ ~B.printed
  BY <1>2, <1>13, <1>14 DEF Renews
<1>17. /\ Moves(Computed("fsum", {"s", "new"}, value.fract), B, C)
       /\ Renews(B, C, {"s", "new"}, "fsum", "made", value.fract)
  <2>1. /\ {"s", "new"} \in SUBSET Pointers /\ \A p \in {"s", "new"} : Owns(B, p)
        /\ ~Owns(B, "fsum") /\ Unseen(B)
    BY <1>2, <1>16 DEF Owns, Unseen
  <2> QED
    BY <1>1, <1>2, <1>15, <2>1, DigitsMoves
<1>18. C \in Description
  BY <1>17, Zenon DEF Renews
<1> HIDE DEF C
<1>19. Weaker(C, F)
  <2>1. /\ C.mode["mantiss"] = "null" /\ C.mode["decimal"] = "made"
        /\ C.text["decimal"] = value.decimal
    BY <1>2, <1>16, <1>17 DEF Renews
  <2>2. C.mode["fract"] = "made" /\ C.text["fract"] = value.fract
    BY <1>2, <1>16, <1>17 DEF Renews
  <2>3. /\ C.mode["fsum"] = "made" /\ C.text["fsum"] = value.fract /\ C.lost = {} /\ C.goal = goal
        /\ C.printed = B.printed
    BY <1>16, <1>17 DEF Renews
  <2>4. \A q \in Pointers \ {"mantiss", "decimal", "fract", "fsum"} : C.mode[q] = "any"
    BY <1>2, <1>16, <1>17 DEF Renews
  <2>5. /\ F.mode["mantiss"] = "null" /\ F.mode["decimal"] = "made"
        /\ F.text["decimal"] = value.decimal
    BY <1>2, <1>3, <1>6 DEF Renews, IsParts
  <2>6. F.mode["fract"] = "made" /\ F.text["fract"] = value.fract
    BY <1>2, <1>3, <1>6 DEF Renews, IsParts
  <2>7. /\ F.mode["fsum"] = "made" /\ F.text["fsum"] = value.fract /\ F.lost = {} /\ F.goal = goal
        /\ F.printed = D.printed
    BY <1>3, <1>6 DEF Renews, IsParts
  <2>8. \A q \in Pointers \ {"mantiss", "decimal", "fract", "fsum"} : F.mode[q] = "any"
    BY <1>2, <1>3, <1>6 DEF Renews, IsParts
  <2>9. C.printed = F.printed
    <3>1. B.printed = FALSE /\ D.printed = FALSE
      BY <1>3, <1>4, <1>15, <1>16 DEF Description, IsParts
    <3> QED
      BY <2>3, <2>7, <3>1
  <2> QED
    BY <2>1, <2>2, <2>3, <2>4, <2>5, <2>6, <2>7, <2>8, <2>9 DEF Weaker, Knows, Owns
<1>20. Moves(Computed("fsum", {"s", "new"}, value.fract), B, F)
  BY <1>17, <1>19, MovesWeaker
<1>21. CASE calls = <<Filled("s", value.fract), Copy("new", <<>>, "fract", 0, Len(value.fract)),
                      Computed("fsum", {"s", "new"}, value.fract), Enter("carry")>>
  <2>1. Triple(D, <<Filled("s", value.fract), Copy("new", <<>>, "fract", 0, Len(value.fract)),
                    Computed("fsum", {"s", "new"}, value.fract), Enter("carry")>>, E)
    BY <1>4, <1>7, <1>9, <1>10, <1>11, <1>14, <1>15, <1>20, FourTriple
  <2> QED
    BY <1>21, <2>1, Zenon
<1> QED
  <2>1. \/ calls = <<Filled("s", value.fract), Enter("odd_half")>>
        \/ calls = <<Filled("s", value.fract), Copy("new", <<>>, "fract", 0, Len(value.fract)),
                      Computed("fsum", {"s", "new"}, value.fract), Enter("carry")>>
    BY Zenon DEF Round
  <2> QED
    BY <1>12, <1>21, <2>1, Zenon

\* odd_half.
LEMMA OddBody ==
  ASSUME MemoryTyped, directive.spec = "f", value.word = <<>>, NEW goal \in MemText,
         NEW calls \in OddHalf,
         Fits(With(Parts("null", "made", {}, goal), "s", "made", value.fract))
  PROVE  \E X \in Description : Fits(X) /\ Triple(X, calls, Parts("null", "own", Leaves, goal))
<1> DEFINE P == Parts("null", "made", {}, goal)
           D == With(P, "s", "made", value.fract)
           E == Parts("null", "own", Leaves, goal)
<1> SUFFICES \E X \in Description : Fits(X) /\ Triple(X, calls, E)
  OBVIOUS
<1>1. value.fract \in MemText /\ value.decimal \in MemText
  BY FloatPartsText
<1>2. {"mantiss", "decimal", "fract", "s", "new"} \subseteq Pointers /\ "s" \in Pointers
      /\ "made" \in Modes
      /\ "new" \in Pointers /\ "decimal" \in Pointers /\ "s" \in Leaves /\ "result" \notin Leaves
  BY PartNames DEF Leaves
<1>3. IsParts(P, "null", "made", {}, goal) /\ IsParts(E, "null", "own", Leaves, goal)
  BY PartsFacts, PartNames
<1>4. P \in Description /\ E \in Description
  BY <1>3, Zenon DEF IsParts
<1> HIDE DEF P, E
<1>5. Renews(P, D, {}, "s", "made", value.fract)
  BY <1>1, <1>2, <1>4, WithRenews
<1>6. D \in Description /\ D.mode["s"] = "made" /\ D.lost = {}
  BY <1>3, <1>5 DEF Renews, IsParts
<1>7. Fits(D)
  BY DEF P
<1> HIDE DEF D
<1>8. PICK X \in Description :
         /\ Fits(X) /\ X.lost = {"s"} /\ X.goal = D.goal /\ X.printed = D.printed
         /\ X.mode["s"] = "any"
         /\ \A q \in Pointers \ {"s"} : X.mode[q] = D.mode[q] /\ X.text[q] = D.text[q]
  BY <1>2, <1>6, <1>7, ForgetFits
<1>9. /\ X.mode["mantiss"] = "null" /\ X.mode["decimal"] = "made"
      /\ X.text["decimal"] = value.decimal
      /\ X.mode["fract"] = "made" /\ X.text["fract"] = value.fract
      /\ \A q \in Pointers \ {"mantiss", "decimal", "fract"} : X.mode[q] = "any"
      /\ X.goal = goal /\ ~X.printed
  BY <1>2, <1>3, <1>5, <1>8 DEF IsParts, Renews
<1>10. Weaker(X, E)
  <2>1. \A q \in Pointers \ {"mantiss", "decimal", "fract"} : ~Owns(X, q)
    BY <1>9 DEF Owns
  <2>2. /\ X.lost \subseteq Leaves /\ X.mode["decimal"] \in {"own", "made"}
        /\ X.mode["fract"] \in {"own", "made"}
    BY <1>2, <1>8, <1>9
  <2> QED
    BY <1>2, <1>3, <1>9, <2>1, <2>2, WeakerParts
<1>11. CASE calls = <<>>
  <2>1. Triple(X, <<>>, E)
    BY <1>4, <1>10, EmptyTriple
  <2> QED
    BY <1>8, <1>11, <2>1
<1>12. CASE calls = <<ft_strdup("new", <<"1">>), Computed("decimal", {"decimal", "new"}, value.decimal)>>
  <2> DEFINE A == Renewed(X, {}, "new", "made", <<"1">>)
             B == Renewed(A, {"decimal", "new"}, "decimal", "made", value.decimal)
  <2>1. <<"1">> \in MemText
    <3>1. "1" \in MemChar
      BY OwnMemChars
    <3> QED
      BY <3>1 DEF MemText
  <2>2. Moves(ft_strdup("new", <<"1">>), X, A) /\ Renews(X, A, {}, "new", "made", <<"1">>)
    <3>1. ~Owns(X, "new")
      BY <1>2, <1>9 DEF Owns
    <3> QED
      BY <1>2, <2>1, <3>1, DupMoves
  <2>3. A \in Description
    BY <2>2, Zenon DEF Renews
  <2> HIDE DEF A
  <2>4. /\ A.mode["mantiss"] = "null" /\ A.mode["decimal"] = "made" /\ A.mode["new"] = "made"
        /\ A.mode["fract"] = "made" /\ A.text["fract"] = value.fract
        /\ \A q \in Pointers \ {"mantiss", "decimal", "fract", "new"} : A.mode[q] = "any"
        /\ A.goal = goal /\ ~A.printed /\ A.lost = {"s"}
    BY <1>2, <1>8, <1>9, <2>2 DEF Renews
  <2>5. /\ Moves(Computed("decimal", {"decimal", "new"}, value.decimal), A, B)
        /\ Renews(A, B, {"decimal", "new"}, "decimal", "made", value.decimal)
    <3>1. /\ {"decimal", "new"} \in SUBSET Pointers /\ (\A p \in {"decimal", "new"} : Owns(A, p))
          /\ Unseen(A) /\ "decimal" \in {"decimal", "new"}
      BY <1>2, <2>4 DEF Owns, Unseen
    <3> QED
      BY <1>1, <1>2, <2>3, <3>1, DigitsMoves
  <2>6. B \in Description
    BY <2>5, Zenon DEF Renews
  <2> HIDE DEF B
  <2>7. Weaker(B, E)
    <3>1. /\ B.mode["mantiss"] = "null" /\ B.mode["decimal"] \in {"own", "made"}
          /\ B.text["decimal"] = value.decimal
          /\ B.mode["fract"] \in {"own", "made"} /\ B.text["fract"] = value.fract
          /\ \A q \in Pointers \ {"mantiss", "decimal", "fract"} : ~Owns(B, q)
          /\ B.lost \subseteq Leaves /\ B.goal = goal /\ ~B.printed
      BY <1>2, <2>4, <2>5 DEF Renews, Owns
    <3> QED
      BY <1>2, <1>3, <2>6, <3>1, WeakerParts
  <2>8. Moves(Computed("decimal", {"decimal", "new"}, value.decimal), A, E)
    BY <2>5, <2>7, MovesWeaker
  <2>9. Triple(X, <<ft_strdup("new", <<"1">>), Computed("decimal", {"decimal", "new"},
                                                        value.decimal)>>, E)
    BY <1>4, <2>2, <2>3, <2>8, TwoTriple
  <2> QED
    BY <1>8, <1>12, <2>9, Zenon
<1> QED
  <2>1. calls = <<>> \/ calls = <<ft_strdup("new", <<"1">>),
                                  Computed("decimal", {"decimal", "new"}, value.decimal)>>
    BY Zenon DEF OddHalf
  <2> QED
    BY <1>11, <1>12, <2>1, Zenon

\* carry.
LEMMA CarryBody ==
  ASSUME MemoryTyped, directive.spec = "f", value.word = <<>>, NEW goal \in MemText,
         NEW calls \in Carry,
         Fits(With(Parts("null", "made", {}, goal), "fsum", "made", value.fract))
  PROVE  \E X \in Description : Fits(X) /\ Triple(X, calls, Parts("null", "own", Leaves, goal))
<1> DEFINE P == Parts("null", "made", {}, goal)
           D == With(P, "fsum", "made", value.fract)
           E == Parts("null", "own", Leaves, goal)
           down == <<ft_strdup("carry", <<"1">>),
                     Computed("decimal", {"carry", "decimal"}, value.decimal),
                     ft_strdup("fract", value.fract), ft_strdel("fsum"), Enter("cut")>>
           up == <<Move("carry", "fract"), Move("fract", "fsum"), ft_strdel("carry"), Enter("cut")>>
<1> SUFFICES \E X \in Description : Fits(X) /\ Triple(X, calls, E)
  OBVIOUS
<1>1. value.fract \in MemText /\ value.decimal \in MemText
  BY FloatPartsText
<1>2. /\ "mantiss" \in Pointers /\ "fsum" \in Pointers /\ "carry" \in Pointers /\ "made" \in Modes
      /\ "decimal" \in Pointers /\ "fract" \in Pointers /\ "fract" \in Leaves
      /\ "result" \notin Leaves
  BY PartNames DEF Leaves
<1>3. IsParts(P, "null", "made", {}, goal) /\ IsParts(E, "null", "own", Leaves, goal)
  BY PartsFacts, PartNames
<1>4. P \in Description /\ E \in Description
  BY <1>3, Zenon DEF IsParts
<1>5. Moves(Enter("cut"), E, E)
  BY CutMoves
<1>6. Fits(D)
  OBVIOUS
<1> HIDE DEF P, E
<1>7. Renews(P, D, {}, "fsum", "made", value.fract)
  BY <1>1, <1>2, <1>4, WithRenews
<1>8. D \in Description
  BY <1>7, Zenon DEF Renews
<1> HIDE DEF D
<1>9. /\ D.mode["mantiss"] = "null" /\ D.mode["decimal"] = "made"
      /\ D.text["decimal"] = value.decimal
      /\ D.mode["fract"] = "made" /\ D.text["fract"] = value.fract
      /\ D.mode["fsum"] = "made" /\ D.text["fsum"] = value.fract
      /\ \A q \in Pointers \ {"mantiss", "decimal", "fract", "fsum"} : D.mode[q] = "any"
      /\ D.lost = {} /\ D.goal = goal /\ ~D.printed
  BY <1>2, <1>3, <1>7 DEF IsParts, Renews
<1>10. CASE calls = down
  <2>1. PICK X \in Description :
           /\ Fits(X) /\ X.lost = {"fract"} /\ X.goal = D.goal /\ X.printed = D.printed
           /\ X.mode["fract"] = "any"
           /\ \A q \in Pointers \ {"fract"} : X.mode[q] = D.mode[q] /\ X.text[q] = D.text[q]
    BY <1>2, <1>6, <1>8, <1>9, ForgetFits
  <2>2. /\ X.mode["mantiss"] = "null" /\ X.mode["decimal"] = "made" /\ X.mode["fsum"] = "made"
        /\ \A q \in Pointers \ {"mantiss", "decimal", "fsum"} : X.mode[q] = "any"
        /\ X.goal = goal /\ ~X.printed
    BY <1>2, <1>9, <2>1
  <2> DEFINE A == Renewed(X, {}, "carry", "made", <<"1">>)
             B == Renewed(A, {"carry", "decimal"}, "decimal", "made", value.decimal)
             C == Renewed(B, {}, "fract", "made", value.fract)
             F == Renewed(C, {"fsum"}, "fsum", "null", <<>>)
  <2>3. <<"1">> \in MemText
    <3>1. "1" \in MemChar
      BY OwnMemChars
    <3> QED
      BY <3>1 DEF MemText
  <2>4. Moves(ft_strdup("carry", <<"1">>), X, A) /\ Renews(X, A, {}, "carry", "made", <<"1">>)
    <3>1. ~Owns(X, "carry")
      BY <1>2, <2>2 DEF Owns
    <3> QED
      BY <1>2, <2>3, <3>1, DupMoves
  <2>5. A \in Description
    BY <2>4, Zenon DEF Renews
  <2> HIDE DEF A
  <2>6. /\ A.mode["mantiss"] = "null" /\ A.mode["decimal"] = "made" /\ A.mode["fsum"] = "made"
        /\ A.mode["carry"] = "made"
        /\ \A q \in Pointers \ {"mantiss", "decimal", "fsum", "carry"} : A.mode[q] = "any"
        /\ A.goal = goal /\ ~A.printed /\ A.lost = {"fract"}
    BY <1>2, <2>1, <2>2, <2>4 DEF Renews
  <2>7. /\ Moves(Computed("decimal", {"carry", "decimal"}, value.decimal), A, B)
        /\ Renews(A, B, {"carry", "decimal"}, "decimal", "made", value.decimal)
    <3>1. /\ {"carry", "decimal"} \in SUBSET Pointers
          /\ (\A p \in {"carry", "decimal"} : Owns(A, p))
          /\ Unseen(A) /\ "decimal" \in {"carry", "decimal"}
      BY <1>2, <2>6 DEF Owns, Unseen
    <3> QED
      BY <1>1, <1>2, <2>5, <3>1, DigitsMoves
  <2>8. B \in Description
    BY <2>7, Zenon DEF Renews
  <2> HIDE DEF B
  <2>9. /\ B.mode["mantiss"] = "null" /\ B.mode["decimal"] = "made" /\ B.mode["fsum"] = "made"
        /\ B.text["decimal"] = value.decimal
        /\ \A q \in Pointers \ {"mantiss", "decimal", "fsum"} : B.mode[q] = "any"
        /\ B.goal = goal /\ ~B.printed /\ B.lost = {"fract"}
    BY <1>2, <2>6, <2>7 DEF Renews
  <2>10. /\ Moves(ft_strdup("fract", value.fract), B, C)
         /\ Renews(B, C, {}, "fract", "made", value.fract)
    <3>1. ~Owns(B, "fract")
      BY <1>2, <2>9 DEF Owns
    <3> QED
      BY <1>1, <1>2, <2>8, <3>1, DupMoves
  <2>11. C \in Description
    BY <2>10, Zenon DEF Renews
  <2> HIDE DEF C
  <2>12. /\ C.mode["mantiss"] = "null" /\ C.mode["decimal"] = "made" /\ C.mode["fsum"] = "made"
         /\ C.text["decimal"] = value.decimal /\ C.mode["fract"] = "made"
         /\ C.text["fract"] = value.fract
         /\ \A q \in Pointers \ {"mantiss", "decimal", "fsum", "fract"} : C.mode[q] = "any"
         /\ C.goal = goal /\ ~C.printed /\ C.lost = {"fract"}
    BY <1>2, <2>9, <2>10 DEF Renews
  <2>13. Moves(ft_strdel("fsum"), C, F) /\ Renews(C, F, {"fsum"}, "fsum", "null", <<>>)
    <3>1. Owns(C, "fsum") /\ Unseen(C)
      BY <1>2, <2>12 DEF Owns, Unseen
    <3> QED
      BY <1>2, <2>11, <3>1, DelMoves
  <2>14. F \in Description
    BY <2>13, Zenon DEF Renews
  <2> HIDE DEF F
  <2>15. Weaker(F, E)
    <3>1. /\ F.mode["mantiss"] = "null" /\ F.mode["decimal"] \in {"own", "made"}
          /\ F.text["decimal"] = value.decimal
          /\ F.mode["fract"] \in {"own", "made"} /\ F.text["fract"] = value.fract
          /\ \A q \in Pointers \ {"mantiss", "decimal", "fract"} : ~Owns(F, q)
          /\ F.lost \subseteq Leaves /\ F.goal = goal /\ ~F.printed
      BY <1>2, <2>12, <2>13 DEF Renews, Owns
    <3> QED
      BY <1>2, <1>3, <2>14, <3>1, WeakerParts
  <2>16. Moves(ft_strdel("fsum"), C, E)
    BY <2>13, <2>15, MovesWeaker
  <2>17. Triple(A, <<Computed("decimal", {"carry", "decimal"}, value.decimal),
                     ft_strdup("fract", value.fract), ft_strdel("fsum"), Enter("cut")>>, E)
    BY <1>4, <1>5, <2>5, <2>7, <2>8, <2>10, <2>11, <2>16, FourTriple
  <2>18. Triple(X, down, E)
    <3> DEFINE rest == <<Computed("decimal", {"carry", "decimal"}, value.decimal),
                         ft_strdup("fract", value.fract), ft_strdel("fsum"), Enter("cut")>>
    <3>1. <<ft_strdup("carry", <<"1">>)>> \o rest = down
      BY FiveCalls
    <3>2. Triple(A, rest, E)
      BY <2>17
    <3> HIDE DEF rest, down
    <3>3. Triple(X, <<ft_strdup("carry", <<"1">>)>> \o rest, E)
      BY <1>4, <2>1, <2>4, <2>5, <3>2, MoreTriple
    <3> QED
      BY <3>1, <3>3
  <2> QED
    BY <1>10, <2>1, <2>18, Zenon
<1>11. CASE calls = up
  <2> DEFINE A == Moved(D, "carry", "fract")
             B == Moved(A, "fract", "fsum")
             C == With(B, "fsum", "any", <<>>)
             F == Renewed(C, {"carry"}, "carry", "null", <<>>)
  <2>1. Moves(Move("carry", "fract"), D, A) /\ Shifts(D, A, "carry", "fract")
    <3>1. ~Owns(D, "carry") /\ D.mode["fract"] \in {"own", "made"}
      BY <1>2, <1>9 DEF Owns
    <3> QED
      BY <1>2, <1>8, <3>1, MoveMoves
  <2>2. A \in Description
    BY <2>1, Zenon DEF Shifts
  <2> HIDE DEF A
  <2>3. /\ A.mode["mantiss"] = "null" /\ A.mode["decimal"] = "made"
        /\ A.text["decimal"] = value.decimal
        /\ A.mode["carry"] = "own" /\ A.mode["fract"] = "see"
        /\ A.mode["fsum"] = "made" /\ A.text["fsum"] = value.fract
        /\ \A q \in Pointers \ {"mantiss", "decimal", "fract", "fsum", "carry"} : A.mode[q] = "any"
        /\ A.lost = {} /\ A.goal = goal /\ ~A.printed
    BY <1>2, <1>9, <2>1 DEF Shifts
  <2>4. Moves(Move("fract", "fsum"), A, B) /\ Shifts(A, B, "fract", "fsum")
    <3>1. ~Owns(A, "fract") /\ A.mode["fsum"] \in {"own", "made"}
      BY <1>2, <2>3 DEF Owns
    <3> QED
      BY <1>2, <2>2, <3>1, MoveMoves
  <2>5. B \in Description
    BY <2>4, Zenon DEF Shifts
  <2> HIDE DEF B
  <2>6. /\ B.mode["mantiss"] = "null" /\ B.mode["decimal"] = "made"
        /\ B.text["decimal"] = value.decimal
        /\ B.mode["carry"] = "own" /\ B.mode["fract"] = "own" /\ B.text["fract"] = value.fract
        /\ B.mode["fsum"] = "see"
        /\ \A q \in Pointers \ {"mantiss", "decimal", "fract", "fsum", "carry"} : B.mode[q] = "any"
        /\ B.lost = {} /\ B.goal = goal /\ ~B.printed
    BY <1>2, <2>3, <2>4 DEF Shifts
  <2>7. Weaker(B, C) /\ Renews(B, C, {}, "fsum", "any", <<>>) /\ C \in Description
    <3>1. ~Owns(B, "fsum")
      BY <2>6 DEF Owns
    <3> QED
      BY <1>2, <2>5, <3>1, DropPointer, Zenon
  <2> HIDE DEF C
  <2>8. /\ C.mode["mantiss"] = "null" /\ C.mode["decimal"] = "made"
        /\ C.text["decimal"] = value.decimal
        /\ C.mode["carry"] = "own" /\ C.mode["fract"] = "own" /\ C.text["fract"] = value.fract
        /\ \A q \in Pointers \ {"mantiss", "decimal", "fract", "carry"} : C.mode[q] = "any"
        /\ C.lost = {} /\ C.goal = goal /\ ~C.printed
    BY <1>2, <2>6, <2>7 DEF Renews
  <2>9. Moves(Move("fract", "fsum"), A, C)
    BY <2>4, <2>7, MovesWeaker
  <2>10. Moves(ft_strdel("carry"), C, F) /\ Renews(C, F, {"carry"}, "carry", "null", <<>>)
    <3>1. Owns(C, "carry") /\ Unseen(C)
      BY <1>2, <2>8 DEF Owns, Unseen
    <3> QED
      BY <1>2, <2>7, <3>1, DelMoves
  <2>11. F \in Description
    BY <2>10, Zenon DEF Renews
  <2> HIDE DEF F
  <2>12. Weaker(F, E)
    <3>1. /\ F.mode["mantiss"] = "null" /\ F.mode["decimal"] \in {"own", "made"}
          /\ F.text["decimal"] = value.decimal
          /\ F.mode["fract"] \in {"own", "made"} /\ F.text["fract"] = value.fract
          /\ \A q \in Pointers \ {"mantiss", "decimal", "fract"} : ~Owns(F, q)
          /\ F.lost \subseteq Leaves /\ F.goal = goal /\ ~F.printed
      BY <1>2, <2>8, <2>10 DEF Renews, Owns
    <3> QED
      BY <1>2, <1>3, <2>11, <3>1, WeakerParts
  <2>13. Moves(ft_strdel("carry"), C, E)
    BY <2>10, <2>12, MovesWeaker
  <2>14. Triple(D, up, E)
    BY <1>4, <1>5, <1>8, <2>1, <2>2, <2>7, <2>9, <2>13, FourTriple
  <2> QED
    BY <1>6, <1>8, <1>11, <2>14, Zenon
<1> QED
  <2>1. calls = down \/ calls = up
    BY Zenon DEF Carry
  <2> QED
    BY <1>10, <1>11, <2>1, Zenon

-----------------------------------------------------------------------------
\* Joining the parts of a float

\* Three texts, one after the other.
LEMMA ThreeTexts ==
  ASSUME NEW a \in MemText, NEW b \in MemText, NEW c \in MemText
  PROVE  (a \o b) \o c = a \o (b \o c) /\ a \o b \in MemText
<1>1. a \in Seq(MemChar) /\ b \in Seq(MemChar) /\ c \in Seq(MemChar)
  BY DEF MemText
<1>2. (a \o b) \o c = a \o (b \o c)
  BY <1>1, ConcatAssociative
<1>3. a \o b \in MemText
  BY <1>1 DEF MemText
<1> QED
  BY <1>2, <1>3

\* decimal, the point, fract.
LEMMA DotTriple ==
  ASSUME MemoryTyped, directive.spec = "f", NEW goal \in MemText
  PROVE  Triple(Parts("null", "own", Leaves, goal),
                <<ft_strdup("new", <<".">>), ft_strjoin_free("mantiss", "decimal", "new"),
                  ft_strjoin_free("mantiss", "mantiss", "fract")>>,
                Only("mantiss", "made", value.decimal \o (<<".">> \o value.fract), Leaves, goal))
<1> DEFINE text == value.decimal \o (<<".">> \o value.fract)
           front == value.decimal \o <<".">>
           D == Parts("null", "own", Leaves, goal)
           E == Only("mantiss", "made", text, Leaves, goal)
           A == Renewed(D, {}, "new", "made", <<".">>)
           B == Renewed(A, {"decimal", "new"}, "mantiss", "made", front)
           C == Renewed(B, {"mantiss", "fract"}, "mantiss", "made", text)
<1>1. value.fract \in MemText /\ value.decimal \in MemText
  BY FloatPartsText
<1>2. /\ "mantiss" \in Pointers /\ "new" \in Pointers /\ "made" \in Modes
      /\ "decimal" \in Pointers /\ "fract" \in Pointers /\ "result" \notin Leaves
  BY PartNames
<1>3. <<".">> \in MemText
  <2>1. "." \in MemChar
    BY OwnMemChars
  <2> QED
    BY <2>1 DEF MemText
<1>4. front \in MemText /\ text \in MemText /\ text = front \o value.fract
  <2>1. \A a, b, c \in MemText : (a \o b) \o c = a \o (b \o c) /\ a \o b \in MemText
    BY ThreeTexts
  <2>2. <<".">> \o value.fract \in MemText /\ front \in MemText
    BY <1>1, <1>3, <2>1, Zenon
  <2>3. text \in MemText
    BY <1>1, <2>1, <2>2, Zenon
  <2> DEFINE point == <<".">>
  <2>4. point \in MemText
    BY <1>3
  <2> HIDE DEF point, front, text
  <2>5. (value.decimal \o point) \o value.fract = value.decimal \o (point \o value.fract)
    <3>1. \A a, b, c \in MemText : (a \o b) \o c = a \o (b \o c)
      BY ThreeTexts
    <3> QED
      BY <1>1, <2>4, <3>1, Zenon
  <2> QED
    BY <2>2, <2>3, <2>5, Zenon DEF point, front, text
<1>5. IsParts(D, "null", "own", Leaves, goal) /\ IsOnly(E, "mantiss", "made", text, Leaves, goal)
  <2>1. IsParts(D, "null", "own", Leaves, goal)
    BY PartsFacts, PartNames
  <2>2. IsOnly(E, "mantiss", "made", text, Leaves, goal)
    BY <1>2, <1>4, PartNames, OnlyFacts, Zenon
  <2> QED
    BY <2>1, <2>2
<1>6. D \in Description /\ E \in Description
  BY <1>5, Zenon DEF IsParts, IsOnly
<1> HIDE DEF D, E, text, front
<1>7. Moves(ft_strdup("new", <<".">>), D, A) /\ Renews(D, A, {}, "new", "made", <<".">>)
  <2>1. ~Owns(D, "new")
    BY <1>2, <1>5 DEF Owns, IsParts
  <2> QED
    BY <1>2, <1>3, <1>6, <2>1, DupMoves
<1>8. A \in Description
  BY <1>7, Zenon DEF Renews
<1> HIDE DEF A
<1>9. /\ A.mode["mantiss"] = "null" /\ A.mode["decimal"] = "own"
      /\ A.text["decimal"] = value.decimal
      /\ A.mode["fract"] = "own" /\ A.text["fract"] = value.fract /\ A.mode["new"] = "made"
      /\ A.text["new"] = <<".">>
      /\ \A q \in Pointers \ {"mantiss", "decimal", "fract", "new"} : A.mode[q] = "any"
      /\ A.goal = goal /\ ~A.printed /\ A.lost = Leaves
  BY <1>2, <1>5, <1>7 DEF IsParts, Renews
<1>10. Moves(ft_strjoin_free("mantiss", "decimal", "new"), A, B) /\ Renews(A, B, {"decimal", "new"},
                                                                           "mantiss", "made", front)
         /\ B \in Description
  <2>1. /\ A.mode["decimal"] \in {"own", "made"} /\ A.mode["new"] \in {"own", "made"}
        /\ ~Owns(A, "mantiss") /\ Unseen(A)
        /\ front = A.text["decimal"] \o A.text["new"] /\ "decimal" # "new"
    BY <1>2, <1>9 DEF Owns, Unseen, front
  <2> QED
    BY <1>2, <1>8, <2>1, JoinMade, Zenon
<1> HIDE DEF B
<1>11. /\ B.mode["mantiss"] = "made" /\ B.text["mantiss"] = front
       /\ B.mode["fract"] = "own" /\ B.text["fract"] = value.fract
       /\ \A q \in Pointers \ {"mantiss", "fract"} : B.mode[q] = "any"
       /\ B.goal = goal /\ ~B.printed /\ B.lost = Leaves
  BY <1>2, <1>9, <1>10 DEF Renews
<1>12. Moves(ft_strjoin_free("mantiss", "mantiss", "fract"), B,
             C) /\ Renews(B, C, {"mantiss", "fract"}, "mantiss", "made", text)
         /\ C \in Description
  <2>1. /\ B.mode["mantiss"] \in {"own", "made"} /\ B.mode["fract"] \in {"own", "made"} /\ Unseen(B)
        /\ text = B.text["mantiss"] \o B.text["fract"] /\ "mantiss" # "fract"
        /\ "mantiss" \in {"mantiss", "fract"}
    BY <1>2, <1>4, <1>11 DEF Unseen
  <2> QED
    BY <1>2, <1>10, <2>1, JoinMade, Zenon
<1> HIDE DEF C
<1>13. /\ C.mode["mantiss"] = "made" /\ C.text["mantiss"] = text
       /\ \A q \in Pointers : q # "mantiss" => ~Owns(C, q)
       /\ C.lost = Leaves /\ C.goal = goal /\ ~C.printed
  BY <1>2, <1>11, <1>12 DEF Renews, Owns
<1>14. Weaker(C, E)
  BY <1>2, <1>5, <1>12, <1>13, WeakerOnly
<1>15. Moves(ft_strjoin_free("mantiss", "mantiss", "fract"), B, E)
  BY <1>12, <1>14, MovesWeaker
<1>16. Triple(D, <<ft_strdup("new", <<".">>), ft_strjoin_free("mantiss", "decimal", "new"),
                  ft_strjoin_free("mantiss", "mantiss", "fract")>>, E)
  BY <1>6, <1>7, <1>8, <1>10, <1>15, ThreeTriple
<1> QED
  BY <1>16 DEF D, E, text

\* decimal alone.
LEMMA PlainTriple ==
  ASSUME MemoryTyped, directive.spec = "f", NEW goal \in MemText
  PROVE  Triple(Parts("null", "own", Leaves, goal),
                <<Copy("mantiss", <<>>, "decimal", 0, Len(value.decimal)), ft_strdel("decimal"),
                  ft_strdel("fract")>>,
                Only("mantiss", "made", value.decimal, Leaves, goal))
<1> DEFINE text == value.decimal
           D == Parts("null", "own", Leaves, goal)
           E == Only("mantiss", "made", text, Leaves, goal)
           A == Renewed(D, {}, "mantiss", "made", text)
           B == Renewed(A, {"decimal"}, "decimal", "null", <<>>)
           C == Renewed(B, {"fract"}, "fract", "null", <<>>)
<1>1. text \in MemText
  BY FloatPartsText
<1>2. /\ "mantiss" \in Pointers /\ "made" \in Modes /\ "decimal" \in Pointers
      /\ "fract" \in Pointers
      /\ "result" \notin Leaves
  BY PartNames
<1>3. IsParts(D, "null", "own", Leaves, goal) /\ IsOnly(E, "mantiss", "made", text, Leaves, goal)
  <2>1. IsParts(D, "null", "own", Leaves, goal)
    BY PartsFacts, PartNames
  <2>2. IsOnly(E, "mantiss", "made", text, Leaves, goal)
    BY <1>1, <1>2, PartNames, OnlyFacts, Zenon
  <2> QED
    BY <2>1, <2>2
<1>4. D \in Description /\ E \in Description
  BY <1>3, Zenon DEF IsParts, IsOnly
<1> HIDE DEF D, E
<1>5. /\ Moves(Copy("mantiss", <<>>, "decimal", 0, Len(text)), D, A)
      /\ Renews(D, A, {}, "mantiss", "made", text)
  <2>1. Knows(D, "decimal") /\ ~Owns(D, "mantiss")
    BY <1>2, <1>3 DEF Knows, Owns, IsParts
  <2>2. text = <<>> \o SubSeq(D.text["decimal"], 0 + 1, 0 + Len(text))
    <3>1. SubSeq(text, 1, Len(text)) = text /\ Len(text) \in Nat
      BY <1>1, TextParts
    <3>2. <<>> \o text = text
      BY <1>1, EmptyEnds
    <3>3. 0 + 1 = 1 /\ 0 + Len(text) = Len(text)
      BY <3>1
    <3>4. D.text["decimal"] = text
      BY <1>3 DEF IsParts
    <3> QED
      BY <3>1, <3>2, <3>3, <3>4, Zenon
  <2> HIDE DEF text
  <2> QED
    BY <1>1, <1>2, <1>4, <2>1, <2>2, CopyMoves
<1>6. A \in Description
  BY <1>5, Zenon DEF Renews
<1> HIDE DEF A
<1>7. /\ A.mode["mantiss"] = "made" /\ A.text["mantiss"] = text
      /\ A.mode["decimal"] = "own" /\ A.mode["fract"] = "own"
      /\ \A q \in Pointers \ {"mantiss", "decimal", "fract"} : A.mode[q] = "any"
      /\ A.goal = goal /\ ~A.printed /\ A.lost = Leaves
  BY <1>2, <1>3, <1>5 DEF IsParts, Renews
<1>8. Moves(ft_strdel("decimal"), A, B) /\ Renews(A, B, {"decimal"}, "decimal", "null", <<>>)
  <2>1. Owns(A, "decimal") /\ Unseen(A)
    BY <1>2, <1>7 DEF Owns, Unseen
  <2> QED
    BY <1>2, <1>6, <2>1, DelMoves
<1>9. B \in Description
  BY <1>8, Zenon DEF Renews
<1> HIDE DEF B
<1>10. /\ B.mode["mantiss"] = "made" /\ B.text["mantiss"] = text
       /\ B.mode["decimal"] = "null" /\ B.mode["fract"] = "own"
       /\ \A q \in Pointers \ {"mantiss", "decimal", "fract"} : B.mode[q] = "any"
       /\ B.goal = goal /\ ~B.printed /\ B.lost = Leaves
  BY <1>2, <1>7, <1>8 DEF Renews
<1>11. Moves(ft_strdel("fract"), B, C) /\ Renews(B, C, {"fract"}, "fract", "null", <<>>)
  <2>1. Owns(B, "fract") /\ Unseen(B)
    BY <1>2, <1>10 DEF Owns, Unseen
  <2> QED
    BY <1>2, <1>9, <2>1, DelMoves
<1>12. C \in Description
  BY <1>11, Zenon DEF Renews
<1> HIDE DEF C
<1>13. /\ C.mode["mantiss"] = "made" /\ C.text["mantiss"] = text
       /\ \A q \in Pointers : q # "mantiss" => ~Owns(C, q)
       /\ C.lost = Leaves /\ C.goal = goal /\ ~C.printed
  BY <1>2, <1>10, <1>11 DEF Renews, Owns
<1>14. Weaker(C, E)
  BY <1>2, <1>3, <1>12, <1>13, WeakerOnly
<1>15. Moves(ft_strdel("fract"), B, E)
  BY <1>11, <1>14, MovesWeaker
<1>16. Triple(D, <<Copy("mantiss", <<>>, "decimal", 0, Len(text)), ft_strdel("decimal"),
                   ft_strdel("fract")>>, E)
  BY <1>4, <1>5, <1>6, <1>8, <1>9, <1>15, ThreeTriple
<1> QED
  BY <1>16 DEF D, E

\* join_dot_to_decimal without one of its strings.
LEMMA NullJoin ==
  ASSUME MemoryTyped, directive.spec = "f", NEW goal \in MemText,
         Fits(Parts("null", "own", Leaves, goal)),
         IsNull("decimal") \/ IsNull("fract")
  PROVE  Fits(Only("mantiss", "made", FloatText, Leaves, goal))
<1> DEFINE D == Parts("null", "own", Leaves, goal)
           E == Only("mantiss", "made", FloatText, Leaves, goal)
<1>1. FloatText \in MemText
  BY FloatPartsText
<1>2. /\ "mantiss" \in Pointers /\ "decimal" \in Pointers /\ "fract" \in Pointers
  BY PartNames
<1>3. /\ IsParts(D, "null", "own", Leaves, goal)
      /\ IsOnly(E, "mantiss", "made", FloatText, Leaves, goal)
  <2>1. IsParts(D, "null", "own", Leaves, goal)
    BY PartsFacts, PartNames
  <2>2. IsOnly(E, "mantiss", "made", FloatText, Leaves, goal)
    BY <1>1, <1>2, PartNames, OnlyFacts, Zenon
  <2> QED
    BY <2>1, <2>2
<1>4. Fits(D)
  OBVIOUS
<1> HIDE DEF D, E
<1>5. failed /\ IsNull("mantiss")
  BY <1>2, <1>3, <1>4 DEF Fits, PointerFits, IsParts, Owns
<1>6. \A p \in Pointers : PointerFits(E, p)
  BY <1>2, <1>3, <1>5 DEF PointerFits, IsOnly, Owns, Knows
<1>7. Apart(E)
  BY <1>3 DEF Apart, IsOnly, Owns
<1>8. OutFits(E) /\ GoalFits(E)
  <2>1. D.goal = E.goal /\ ~D.printed /\ ~E.printed
    BY <1>3 DEF IsParts, IsOnly
  <2> QED
    BY <1>4, <2>1 DEF Fits, OutFits, GoalFits
<1>9. Fits(E)
  BY <1>5, <1>6, <1>7, <1>8 DEF Fits
<1> QED
  BY <1>9 DEF E

\* The sign in front.
LEMMA FloatSign ==
  ASSUME NEW neg, NEW t \in MemText, NEW goal \in MemText
  PROVE  Triple(Only("mantiss", "made", t, Leaves, goal),
                When(neg, <<ft_strdup("new", <<"-">>), ft_strjoin_free("mantiss", "new", "mantiss")>>),
                Only("mantiss", "made", (IF neg THEN <<"-">> ELSE <<>>) \o t, Leaves, goal))
<1>1. <<"-">> \in MemText
  <2>1. "-" \in MemChar
    BY OwnMemChars
  <2> QED
    BY <2>1 DEF MemText
<1>2. Leaves \in SUBSET Pointers
  BY PartNames
<1>3. CASE neg
  <2>1. Triple(Only("mantiss", "made", t, Leaves, goal),
               <<ft_strdup("new", <<"-">>), ft_strjoin_free("mantiss", "new", "mantiss")>>,
               Only("mantiss", "made", <<"-">> \o t, Leaves, goal))
    BY <1>1, <1>2, OnlyFront
  <2> QED
    BY <1>3, <2>1, Zenon DEF When
<1>4. CASE ~neg
  <2>1. <<>> \o t = t
    BY EmptyEnds
  <2>2. Only("mantiss", "made", t, Leaves, goal) \in Description
    <3>1. "mantiss" \in Pointers /\ "made" \in Modes
      BY PartNames
    <3>2. IsOnly(Only("mantiss", "made", t, Leaves, goal), "mantiss", "made", t, Leaves, goal)
      BY <1>2, <3>1, OnlyFacts, Zenon
    <3> QED
      BY <3>2, Zenon DEF IsOnly
  <2>3. Triple(Only("mantiss", "made", t, Leaves, goal), <<>>, Only("mantiss", "made", t, Leaves, goal))
    BY <2>2, IdleTriple
  <2> QED
    BY <1>4, <2>1, <2>3, Zenon DEF When
<1> QED
  BY <1>3, <1>4

\* join_dot_to_decimal of the parts.
LEMMA JoinPartsBody ==
  ASSUME MemoryTyped, directive.spec = "f", value.word = <<>>, NEW goal \in MemText,
         Fits(Parts("null", "own", Leaves, goal))
  PROVE  \E X \in Description : Fits(X) /\ Triple(X, JoinDot,
                                                  Only("mantiss", "made", FloatText, Leaves, goal))
<1> DEFINE D == Parts("null", "own", Leaves, goal)
           E == Only("mantiss", "made", FloatText, Leaves, goal)
           dot == "HASH" \in directive.flag \/ directive.precision # 0
           text == value.decimal \o (IF dot THEN <<".">> \o value.fract ELSE <<>>)
           M == Only("mantiss", "made", text, Leaves, goal)
           first == IF dot
                      THEN <<ft_strdup("new", <<".">>), ft_strjoin_free("mantiss", "decimal", "new"),
                             ft_strjoin_free("mantiss", "mantiss", "fract")>>
                    ELSE <<Copy("mantiss", <<>>, "decimal", 0, Len(value.decimal)),
                           ft_strdel("decimal"), ft_strdel("fract")>>
           last == When(value.neg, <<ft_strdup("new", <<"-">>),
                                     ft_strjoin_free("mantiss", "new", "mantiss")>>)
           sign == IF value.neg THEN <<"-">> ELSE <<>>
<1> SUFFICES \E X \in Description : Fits(X) /\ Triple(X, JoinDot, E)
  OBVIOUS
<1>1. FloatText \in MemText /\ value.decimal \in MemText /\ value.fract \in MemText
  BY FloatPartsText
<1>2. /\ "mantiss" \in Pointers /\ "decimal" \in Pointers /\ "fract" \in Pointers
      /\ Leaves \in SUBSET Pointers
      /\ "made" \in Modes /\ "null" \in Modes /\ "own" \in Modes
  BY PartNames
<1>3. text \in MemText
  <2>1. "." \in MemChar
    BY OwnMemChars
  <2>2. <<".">> \in MemText /\ <<>> \in MemText
    BY <2>1 DEF MemText
  <2>3. <<".">> \o value.fract \in MemText
    BY <1>1, <2>2 DEF MemText
  <2>4. (IF dot THEN <<".">> \o value.fract ELSE <<>>) \in MemText
    BY <2>2, <2>3
  <2> HIDE DEF dot
  <2> QED
    BY <1>1, <2>4 DEF MemText
<1>4. FloatText = sign \o text
  <2> DEFINE f == IF dot THEN <<".">> \o value.fract ELSE <<>>
  <2>1. FloatText = sign \o value.decimal \o f
    BY Zenon DEF FloatText
  <2>2. f \in MemText /\ sign \in MemText
    <3>1. "." \in MemChar /\ "-" \in MemChar
      BY OwnMemChars
    <3>2. <<".">> \in MemText /\ <<>> \in MemText /\ <<"-">> \in MemText
      BY <3>1 DEF MemText
    <3>3. <<".">> \o value.fract \in MemText
      BY <1>1, <3>2 DEF MemText
    <3> QED
      BY <3>2, <3>3
  <2>3. text = value.decimal \o f
    OBVIOUS
  <2> HIDE DEF f, sign, text, dot
  <2>4. (sign \o value.decimal) \o f = sign \o (value.decimal \o f)
    <3>1. \A a, b, c \in MemText : (a \o b) \o c = a \o (b \o c)
      BY ThreeTexts
    <3>2. value.decimal \in MemText
      BY <1>1
    <3> QED
      BY <2>2, <3>1, <3>2, Zenon
  <2> QED
    BY <2>1, <2>3, <2>4, Zenon
<1>5. /\ IsOnly(M, "mantiss", "made", text, Leaves, goal)
      /\ IsOnly(E, "mantiss", "made", FloatText, Leaves, goal)
  BY <1>1, <1>2, <1>3, OnlyFacts, Zenon
<1>6. IsParts(D, "null", "own", Leaves, goal)
  BY <1>2, PartsFacts
<1>7. D \in Description /\ E \in Description /\ M \in Description
  BY <1>5, <1>6, Zenon DEF IsOnly, IsParts
<1>8. CASE ptr["decimal"] # NULL /\ ptr["fract"] # NULL
  <2>1. JoinDot = first \o last
    BY <1>8, Zenon DEF JoinDot, When
  <2>2. Triple(D, first, M)
    <3>1. CASE dot
      BY <3>1, DotTriple, Zenon
    <3>2. CASE ~dot
      <4>1. text = value.decimal
        <5>1. value.decimal \o <<>> = value.decimal
          BY <1>1, EmptyEnds
        <5> QED
          BY <3>2, <5>1, Zenon
      <4>2. Triple(D, <<Copy("mantiss", <<>>, "decimal", 0, Len(value.decimal)),
                        ft_strdel("decimal"), ft_strdel("fract")>>,
                   Only("mantiss", "made", value.decimal, Leaves, goal))
        BY PlainTriple
      <4> QED
        BY <3>2, <4>1, <4>2, Zenon
    <3> QED
      BY <3>1, <3>2
  <2>3. Triple(M, last, E)
    <3> HIDE DEF text
    <3> QED
      BY <1>3, <1>4, FloatSign
  <2> HIDE DEF D, E, M, first, last
  <2>4. Triple(D, first \o last, E)
    BY <1>7, <2>2, <2>3, JoinTriple
  <2> QED
    BY <1>7, <2>1, <2>4 DEF D
<1>9. CASE ~(ptr["decimal"] # NULL /\ ptr["fract"] # NULL)
  <2>1. JoinDot = <<>>
    BY <1>9, Zenon DEF JoinDot, When
  <2>2. Fits(E)
    BY <1>9, NullJoin DEF IsNull
  <2> HIDE DEF E
  <2>3. Triple(E, <<>>, E)
    BY <1>7, IdleTriple
  <2> QED
    BY <1>7, <2>1, <2>2, <2>3, Zenon
<1> QED
  BY <1>8, <1>9

\* join_dot_to_decimal.
LEMMA JoinDotBody ==
  ASSUME MemoryTyped, directive.spec = "f", NEW D \in Description, NEW E \in Description, Fits(D),
         JoinContract(D, E)
  PROVE  \E X \in Description : Fits(X) /\ Triple(X, JoinDot, E)
<1>1. PICK goal \in MemText :
        \/ value.word = <<>> /\ D = Parts("null", "own", Leaves, goal)
             /\ E = Only("mantiss", "made", FloatText, Leaves, goal)
        \/ value.word # <<>> /\ D = Word(goal) /\ E = Only("mantiss", "made", FloatText, {}, goal)
  BY DEF JoinContract
<1>2. CASE value.word = <<>>
  BY <1>1, <1>2, JoinPartsBody
<1>3. CASE value.word # <<>>
  <2> DEFINE A == Only("mantiss", "made", value.word, {}, goal)
             B == With(A, "decimal", "null", <<>>)
             W == With(B, "fract", "null", <<>>)
  <2>1. D = W /\ E = A
    BY <1>1, <1>3, Zenon DEF Word, FloatText
  <2>2. /\ "mantiss" \in Pointers /\ "decimal" \in Pointers /\ "fract" \in Pointers
        /\ {} \in SUBSET Pointers
        /\ "made" \in Modes /\ "null" \in Modes
    BY PartNames
  <2>3. value.word \in MemText /\ <<>> \in MemText
    BY FloatPartsText DEF MemText
  <2>4. IsOnly(A, "mantiss", "made", value.word, {}, goal)
    BY <2>2, <2>3, OnlyFacts, Zenon
  <2>5. A \in Description
    BY <2>4, Zenon DEF IsOnly
  <2> HIDE DEF A
  <2>6. Renews(A, B, {}, "decimal", "null", <<>>)
    BY <2>2, <2>3, <2>5, WithRenews
  <2>7. B \in Description
    BY <2>6, Zenon DEF Renews
  <2> HIDE DEF B
  <2>8. Renews(B, W, {}, "fract", "null", <<>>)
    BY <2>2, <2>3, <2>7, WithRenews
  <2> HIDE DEF W
  <2>9. /\ W.mode["mantiss"] = "made" /\ W.text["mantiss"] = value.word
        /\ W.mode["decimal"] = "null"
        /\ \A q \in Pointers : q # "mantiss" => ~Owns(W, q)
        /\ W.lost = {} /\ W.goal = goal /\ ~W.printed
    BY <2>2, <2>4, <2>6, <2>8 DEF Renews, IsOnly, Owns
  <2>10. Weaker(W, A)
    <3>1. W \in Description
      BY <2>8, Zenon DEF Renews
    <3> QED
      BY <2>2, <2>4, <2>9, <3>1, WeakerOnly
  <2>11. ptr["decimal"] = NULL
    BY <2>1, <2>2, <2>9 DEF Fits, PointerFits, IsNull
  <2>12. JoinDot = <<>>
    BY <2>11, Zenon DEF JoinDot, When
  <2>13. Triple(D, <<>>, E)
    BY <2>1, <2>10, EmptyTriple
  <2> QED
    BY <2>12, <2>13, Zenon
<1> QED
  BY <1>2, <1>3

-----------------------------------------------------------------------------
\* The functions keep their contracts

\* What the functions call.
LEMMA Bodies ==
  /\ BodyOf("ft_precision") = {Precision} /\ BodyOf("ft_width") = {Width}
  /\ BodyOf("pad_numeric") = {PadNumeric} /\ BodyOf("pad_alternate") = {PadAlternate}
  /\ BodyOf("null_string") = {NullString}
  /\ BodyOf("get_mantissa") = GetMantissa /\ BodyOf("save_parts") = SaveParts
  /\ BodyOf("fract_length") = FractLength /\ BodyOf("ft_fround") = Round
  /\ BodyOf("odd_half") = OddHalf
  /\ BodyOf("carry") = Carry /\ BodyOf("cut") = {<<>>} /\ BodyOf("join_dot_to_decimal") = {JoinDot}
  /\ "result" \in ReadsOf("ft_precision") /\ "result" \in ReadsOf("ft_width")
  /\ "result" \in ReadsOf("pad_numeric")
  /\ {"result", "prefix"} \subseteq ReadsOf("pad_alternate")
BY DEF BodyOf, ReadsOf

\* The functions that only work on a float.
LEMMA FloatBody ==
  ASSUME MemoryTyped, directive.spec = "f", value.word = <<>>, NEW D \in Description,
         NEW E \in Description, Fits(D),
         NEW f, FloatContract(f, D, E), NEW calls \in BodyOf(f)
  PROVE  \E X \in Description : Fits(X) /\ Triple(X, calls, E)
<1>1. PICK goal \in MemText :
    \/ f = "get_mantissa" /\ D = Nothing({}, goal) /\ E = Only("mantiss", "blur", <<>>, {}, goal)
    \/ f = "save_parts" /\ D = Only("mantiss", "blur", <<>>, {}, goal) /\ E = Parts("blur", "made",
                                                                                    {}, goal)
    \/ f = "fract_length" /\ D = Parts("blur", "made", {}, goal) /\ E = D
    \/ f = "ft_fround" /\ D = Parts("null", "made", {}, goal) /\ E = Parts("null", "own", Leaves, goal)
    \/ f = "odd_half" /\ D = With(Parts("null", "made", {}, goal), "s", "made", value.fract)
         /\ E = Parts("null", "own", Leaves, goal)
    \/ f = "carry" /\ D = With(Parts("null", "made", {}, goal), "fsum", "made", value.fract)
         /\ E = Parts("null", "own", Leaves, goal)
    \/ f = "cut" /\ D = Parts("null", "own", Leaves, goal) /\ E = D
  BY DEF FloatContract
<1>2. CASE /\ f = "get_mantissa" /\ D = Nothing({}, goal)
           /\ E = Only("mantiss", "blur", <<>>, {}, goal)
  <2>1. calls \in GetMantissa
    BY <1>2, Bodies
  <2>2. Triple(Nothing({}, goal), calls, Blur(goal))
    BY <2>1, MantissaBody
  <2> QED
    BY <1>2, <2>2, Zenon DEF Blur
<1>3. CASE /\ f = "save_parts" /\ D = Only("mantiss", "blur", <<>>, {}, goal)
           /\ E = Parts("blur", "made", {}, goal)
  <2>1. calls \in SaveParts
    BY <1>3, Bodies
  <2>2. Triple(Blur(goal), calls, Parts("blur", "made", {}, goal))
    BY <2>1, SaveBody
  <2> QED
    BY <1>3, <2>2, Zenon DEF Blur
<1>4. CASE f = "fract_length" /\ D = Parts("blur", "made", {}, goal) /\ E = D
  <2>1. calls \in FractLength
    BY <1>4, Bodies
  <2>2. Triple(Parts("blur", "made", {}, goal), calls, Parts("blur", "made", {}, goal))
    BY <2>1, FractBody
  <2> QED
    BY <1>4, <2>2, Zenon
<1>5. CASE /\ f = "ft_fround" /\ D = Parts("null", "made", {}, goal)
           /\ E = Parts("null", "own", Leaves, goal)
  <2>1. calls \in Round
    BY <1>5, Bodies
  <2>2. Triple(Parts("null", "made", {}, goal), calls, Parts("null", "own", Leaves, goal))
    BY <2>1, RoundBody
  <2> QED
    BY <1>5, <2>2, Zenon
<1>6. CASE f = "odd_half" /\ D = With(Parts("null", "made", {}, goal), "s", "made", value.fract)
             /\ E = Parts("null", "own", Leaves, goal)
  <2>1. calls \in OddHalf /\ Fits(With(Parts("null", "made", {}, goal), "s", "made", value.fract))
    BY <1>6, Bodies
  <2>2. \E X \in Description : Fits(X) /\ Triple(X, calls, Parts("null", "own", Leaves, goal))
    BY <2>1, OddBody
  <2> QED
    BY <1>6, <2>2, Zenon
<1>7. CASE f = "carry" /\ D = With(Parts("null", "made", {}, goal), "fsum", "made", value.fract)
             /\ E = Parts("null", "own", Leaves, goal)
  <2>1. calls \in Carry /\ Fits(With(Parts("null", "made", {}, goal), "fsum", "made", value.fract))
    BY <1>7, Bodies
  <2>2. \E X \in Description : Fits(X) /\ Triple(X, calls, Parts("null", "own", Leaves, goal))
    BY <2>1, CarryBody
  <2> QED
    BY <1>7, <2>2, Zenon
<1>8. CASE f = "cut" /\ D = Parts("null", "own", Leaves, goal) /\ E = D
  <2>1. calls = <<>>
    BY <1>8, Bodies
  <2>2. Triple(D, <<>>, D)
    BY IdleTriple
  <2> QED
    BY <1>8, <2>1, <2>2, Zenon
<1> QED
  BY <1>1, <1>2, <1>3, <1>4, <1>5, <1>6, <1>7, <1>8, Zenon

\* Every function that is entered keeps its contract.
LEMMA BodyTriple ==
  ASSUME MemoryTyped, NEW D \in Description, NEW E \in Description, Fits(D), NEW f,
         Contract(f, D, E),
         \A p \in ReadsOf(f) : ~IsNull(p), NEW calls \in BodyOf(f)
  PROVE  \E X \in Description : Fits(X) /\ Triple(X, calls, E)
<1>1. CASE f = "ft_precision" /\ PrecisionContract(D, E)
  <2>1. calls = Precision /\ ~IsNull("result")
    BY <1>1, Bodies
  <2>2. \E X \in Description : Fits(X) /\ Triple(X, Precision, E)
    BY <1>1, <2>1, PrecisionBody
  <2> QED
    BY <2>1, <2>2, Zenon
<1>2. CASE f = "ft_width" /\ WidthContract(D, E)
  <2>1. calls = Width /\ ~IsNull("result")
    BY <1>2, Bodies
  <2> QED
    BY <1>2, <2>1, WidthBody
<1>3. CASE f = "pad_numeric" /\ NumericContract(D, E)
  <2>1. calls = PadNumeric /\ ~IsNull("result")
    BY <1>3, Bodies
  <2> QED
    BY <1>3, <2>1, PadNumericBody
<1>4. CASE f = "pad_alternate" /\ AlternateContract(D, E)
  <2>1. calls = PadAlternate /\ ~IsNull("result") /\ ~IsNull("prefix")
    BY <1>4, Bodies
  <2> QED
    BY <1>4, <2>1, PadAlternateBody
<1>5. CASE directive.spec = "f" /\ f = "join_dot_to_decimal" /\ JoinContract(D, E)
  <2>1. calls = JoinDot
    BY <1>5, Bodies
  <2>2. \E X \in Description : Fits(X) /\ Triple(X, JoinDot, E)
    BY <1>5, JoinDotBody
  <2> QED
    BY <2>1, <2>2, Zenon
<1>6. CASE directive.spec = "f" /\ value.word = <<>> /\ FloatContract(f, D, E)
  BY <1>6, FloatBody
<1> QED
  BY <1>1, <1>2, <1>3, <1>4, <1>5, <1>6, Zenon DEF Contract

-----------------------------------------------------------------------------
\* What calls lead to does not depend on the memory, but on the directive and
\* the value, which stay.
LEMMA EffectStill ==
  ASSUME UNCHANGED <<directive, value>>, NEW c, NEW D, NEW E
  PROVE  Effect(c, D, E) => Effect(c, D, E)'
<1>0. directive' = directive /\ value' = value
  OBVIOUS
<1>1. MakeEffect(c, D, E) => MakeEffect(c, D, E)'
  BY <1>0 DEF MakeEffect, BlockSized
<1>2. PrecisionContract(D, E) => PrecisionContract(D, E)'
  BY <1>0 DEF PrecisionContract, CutLoses
<1>3. WidthContract(D, E) => WidthContract(D, E)'
  BY <1>0 DEF WidthContract, FieldText
<1>4. NumericContract(D, E) => NumericContract(D, E)'
  <2>1. \A t : NumberPadded(t)' = NumberPadded(t)
    BY <1>0, Zenon DEF NumberPadded, Side
  <2> QED
    BY <2>1 DEF NumericContract
<1>5. AlternateContract(D, E) => AlternateContract(D, E)'
  BY <1>0 DEF AlternateContract
<1>6. JoinContract(D, E) => JoinContract(D, E)'
  <2>1. FloatText' = FloatText
    BY <1>0, Zenon DEF FloatText
  <2>2. \A m, k, l, g : Parts(m, k, l, g)' = Parts(m, k, l, g)
    BY <1>0, Zenon DEF Parts
  <2>3. \A g : Word(g)' = Word(g)
    BY <1>0, Zenon DEF Word
  <2> QED
    BY <1>0, <2>1, <2>2, <2>3 DEF JoinContract
<1>7. \A f : FloatContract(f, D, E) => FloatContract(f, D, E)'
  <2>2. \A m, k, l, g : Parts(m, k, l, g)' = Parts(m, k, l, g)
    BY <1>0, Zenon DEF Parts
  <2> QED
    BY <1>0, <2>2 DEF FloatContract
<1>8. \A f : Contract(f, D, E) => Contract(f, D, E)'
  BY <1>0, <1>2, <1>3, <1>4, <1>5, <1>6, <1>7, Zenon DEF Contract
<1>9. EnterEffect(c, D, E) => EnterEffect(c, D, E)'
  BY <1>8, Zenon DEF EnterEffect
<1> QED
  BY <1>1, <1>9, Zenon DEF Effect

\* So a sequence of calls still leads where it led.
LEMMA TripleStill ==
  ASSUME UNCHANGED <<directive, value>>, NEW c, NEW D, NEW E, Triple(D, c, E)
  PROVE  Triple(D, c, E)'
<1>1. \A b, X, Y : Moves(b, X, Y) => Moves(b, X, Y)'
  BY EffectStill DEF Moves
<1>2. \A A : Leads(A, c) => Leads(A, c)'
  BY <1>1 DEF Leads
<1> QED
  BY <1>2, Zenon DEF Triple

-----------------------------------------------------------------------------
\* The steps

\* A call whose effect is known uses no pointer that it must not use.
LEMMA EffectSound ==
  ASSUME NEW X \in Description, NEW M, Fits(X), Effect(call, X, M)
  PROVE  Sound
<1>1. ASSUME NEW p \in Pointers, Owns(X, p) \/ Knows(X, p)
      PROVE  Live(p) \/ ptr[p] = NULL
  BY <1>1 DEF Fits, PointerFits, Owns, Knows, IsNull
<1>2. ASSUME NEW p \in Used
      PROVE  p \in Pointers /\ (Owns(X, p) \/ Knows(X, p))
  <2>1. CASE MakeEffect(call, X, M)
    BY <1>2, <2>1 DEF MakeEffect, Used
  <2>2. CASE CopyEffect(call, X, M)
    BY <1>2, <2>2 DEF CopyEffect, Used
  <2>3. CASE PaddEffect(call, X, M)
    BY <1>2, <2>3 DEF PaddEffect, Used
  <2>4. CASE JoinEffect(call, X, M)
    BY <1>2, <2>4 DEF JoinEffect, Used
  <2>5. CASE DigitsEffect(call, X, M)
    BY <1>2, <2>5 DEF DigitsEffect, Used
  <2>6. CASE DelEffect(call, X, M)
    BY <1>2, <2>6 DEF DelEffect, Used
  <2>7. CASE MoveEffect(call, X, M)
    BY <1>2, <2>7 DEF MoveEffect, Used
  <2>8. CASE PutEffect(call, X, M)
    BY <1>2, <2>8 DEF PutEffect, Used
  <2>9. CASE EnterEffect(call, X, M)
    BY <1>2, <2>9 DEF EnterEffect, Used
  <2> QED
    BY <2>1, <2>2, <2>3, <2>4, <2>5, <2>6, <2>7, <2>8, <2>9, Zenon DEF Effect
<1> QED
  BY <1>1, <1>2 DEF Sound

\* Every call but that of a function.
LEMMA EffectGoes ==
  ASSUME MemoryTyped, end = "", NEW X \in Description, NEW M, Fits(X), Effect(call, X, M),
         DoMake \/ DoCopy \/ DoJoin \/ DoPadd \/ DoDigits \/ DoDel \/ DoMove \/ DoPut
  PROVE  Goes(M) \/ Faults
<1>1. CASE DoMake
  <2>1. MakeEffect(call, X, M)
    BY <1>1 DEF DoMake, Calls, Effect, MakeEffect, CopyEffect, PaddEffect, JoinEffect,
       DigitsEffect, DelEffect, MoveEffect, PutEffect, EnterEffect
  <2> QED
    BY <1>1, <2>1, MakeGoes
<1>2. CASE DoCopy
  <2>1. CopyEffect(call, X, M)
    BY <1>2 DEF DoCopy, Calls, Effect, MakeEffect, CopyEffect, PaddEffect, JoinEffect,
       DigitsEffect, DelEffect, MoveEffect, PutEffect, EnterEffect
  <2> QED
    BY <1>2, <2>1, CopyGoes
<1>3. CASE DoJoin
  <2>1. JoinEffect(call, X, M)
    BY <1>3 DEF DoJoin, Calls, Effect, MakeEffect, CopyEffect, PaddEffect, JoinEffect,
       DigitsEffect, DelEffect, MoveEffect, PutEffect, EnterEffect
  <2> QED
    BY <1>3, <2>1, JoinGoes
<1>4. CASE DoPadd
  <2>1. PaddEffect(call, X, M)
    BY <1>4 DEF DoPadd, Calls, Effect, MakeEffect, CopyEffect, PaddEffect, JoinEffect,
       DigitsEffect, DelEffect, MoveEffect, PutEffect, EnterEffect
  <2> QED
    BY <1>4, <2>1, PaddGoes
<1>5. CASE DoDigits
  <2>1. DigitsEffect(call, X, M)
    BY <1>5 DEF DoDigits, Calls, Effect, MakeEffect, CopyEffect, PaddEffect, JoinEffect,
       DigitsEffect, DelEffect, MoveEffect, PutEffect, EnterEffect
  <2> QED
    BY <1>5, <2>1, DigitsGoes
<1>6. CASE DoDel
  <2>1. DelEffect(call, X, M)
    BY <1>6 DEF DoDel, Calls, Effect, MakeEffect, CopyEffect, PaddEffect, JoinEffect, DigitsEffect,
       DelEffect, MoveEffect, PutEffect, EnterEffect
  <2> QED
    BY <1>6, <2>1, DelGoes
<1>7. CASE DoMove
  <2>1. MoveEffect(call, X, M)
    BY <1>7 DEF DoMove, Calls, Effect, MakeEffect, CopyEffect, PaddEffect, JoinEffect,
       DigitsEffect, DelEffect, MoveEffect, PutEffect, EnterEffect
  <2> QED
    BY <1>7, <2>1, MoveGoes
<1>8. CASE DoPut
  <2>1. PutEffect(call, X, M)
    BY <1>8 DEF DoPut, Calls, Effect, MakeEffect, CopyEffect, PaddEffect, JoinEffect, DigitsEffect,
       DelEffect, MoveEffect, PutEffect, EnterEffect
  <2> QED
    BY <1>8, <2>1, PutGoes
<1> QED
  BY <1>1, <1>2, <1>3, <1>4, <1>5, <1>6, <1>7, <1>8

\* What holds after a step: the calls still lead to E.
Proceeds(E) ==
  /\ MemoryTyped' /\ end' = "" /\ (failed => failed') /\ UNCHANGED <<directive, value>>
  /\ \E X \in Description : Fits(X)' /\ \E calls : Triple(X, calls, E)' /\ calls = todo'

\* One step of calls that lead to E.
LEMMA StepProceeds ==
  ASSUME MemoryTyped, end = "", NEW D \in Description, NEW E \in Description, Fits(D),
         Triple(D, todo, E), MemoryNext
  PROVE  Proceeds(E) \/ Faults \/ (todo = <<>> /\ Stop("done", ""))
<1>1. CASE todo = <<>>
  BY <1>1 DEF MemoryNext, Calls, DoMake, DoCopy, DoJoin, DoPadd, DoDigits, DoDel, DoMove, DoPut,
     DoEnter, Halt
<1>2. CASE todo # <<>>
  <2>1. PICK X \in Description, Y \in Description : /\ Weaker(D, X) /\ Moves(call, X, Y)
                                                    /\ Triple(Y, Tail(todo), E)
    BY <1>2, HeadTriple DEF call
  <2>2. PICK M \in Description : Effect(call, X, M) /\ Weaker(M, Y)
    BY <2>1 DEF Moves
  <2>3. Triple(M, Tail(todo), E)
    BY <2>1, <2>2, TripleFrom
  <2>4. Fits(X)
    BY <2>1, WeakerFits
  <2>5. Sound
    BY <2>2, <2>4, EffectSound
  <2>6. PICK next : next = todo'
    OBVIOUS
  <2>7. CASE DoMake \/ DoCopy \/ DoJoin \/ DoPadd \/ DoDigits \/ DoDel \/ DoMove \/ DoPut
    <3>1. Goes(M) \/ Faults
      BY <2>2, <2>4, <2>7, EffectGoes
    <3>2. ASSUME Goes(M)
          PROVE  Proceeds(E)
      <4>1. /\ MemoryTyped' /\ Fits(M)' /\ todo' = Tail(todo) /\ end' = "" /\ (failed => failed')
            /\ UNCHANGED <<directive, value>>
        BY <3>2, Zenon DEF Goes
      <4>2. Triple(M, next, E)
        BY <2>3, <2>6, <4>1
      <4>3. Triple(M, next, E)'
        BY <4>1, <4>2, TripleStill
      <4> QED
        BY <2>6, <4>1, <4>3 DEF Proceeds
    <3> QED
      BY <3>1, <3>2
  <2>8. CASE DoEnter
    <3>1. EnterEffect(call, X, M)
      BY <2>2, <2>8 DEF DoEnter, Calls, Effect, MakeEffect, CopyEffect, PaddEffect, JoinEffect,
         DigitsEffect, DelEffect, MoveEffect, PutEffect, EnterEffect
    <3>2. (\A p \in ReadsOf(call.f) : p \in Pointers /\ Owns(X, p)) /\ Contract(call.f, X, M)
      BY <3>1, Zenon DEF EnterEffect
    <3>3. CASE \E p \in ReadsOf(call.f) : IsNull(p)
      <4>1. failed
        BY <2>4, <3>2, <3>3 DEF Fits, PointerFits
      <4>2. Stop("fault", "")
        BY <2>8, <3>3 DEF DoEnter
      <4> QED
        BY <4>1, <4>2, StopFaults
    <3>4. CASE ~ \E p \in ReadsOf(call.f) : IsNull(p)
      <4>1. PICK calls \in BodyOf(call.f) : todo' = calls \o Tail(todo)
        BY <2>8, <3>4 DEF DoEnter
      <4>2. end' = "" /\ UNCHANGED <<directive, value, ptr, heap, blocks, written, failed>>
        BY <2>8, <3>4 DEF DoEnter
      <4>3. PICK Z \in Description : Fits(Z) /\ Triple(Z, calls, M)
        BY <2>4, <3>2, <3>4, BodyTriple
      <4>4. Triple(Z, calls \o Tail(todo), E)
        BY <2>3, <4>3, JoinTriple
      <4>5. Triple(Z, next, E)
        BY <2>6, <4>1, <4>4
      <4>6. Triple(Z, next, E)'
        BY <4>2, <4>5, TripleStill
      <4>7. MemoryTyped' /\ Fits(Z)'
        BY <4>2, <4>3, SameFits
      <4> QED
        BY <2>6, <4>2, <4>6, <4>7 DEF Proceeds
    <3> QED
      BY <3>3, <3>4
  <2>9. ~Halt
    BY <1>2, <2>5 DEF Halt
  <2> QED
    BY <2>7, <2>8, <2>9 DEF MemoryNext
<1> QED
  BY <1>1, <1>2

-----------------------------------------------------------------------------
\* The sizes that are asked for

\* The counts of the digits up to n: the function that DigitCount defines.
CountTo(n, b, len) == len = [k \in 0 .. n |-> IF k < b THEN 1 ELSE 1 + len[k \div b]]
CountFor(n, b) == CHOOSE len : CountTo(n, b, len)

\* DigitCount is the last of them.
LEMMA CountIsLast == \A n, b : DigitCount(n, b) = CountFor(n, b)[n]
BY DEF DigitCount, CountFor, CountTo

\* nb_length and shift_bits count the digits that the conversion finds.
LEMMA CountRight ==
  ASSUME NEW n \in Nat, NEW b \in 2 .. 16
  PROVE  Len(Numeral(n, b)) = DigitCount(n, b)
<1> DEFINE f == DigitsFor(n, b)
           g == [k \in 0 .. n |-> Len(f[k])]
           h == CountFor(n, b)
           P == {k \in 0 .. n : h[k] = Len(f[k])}
<1>1. \A k \in 0 .. n :
        /\ f[k] \in Seq(DigitChars) /\ f[k] # <<>>
        /\ f[k] = IF k < b THEN <<Digits[k + 1]>> ELSE Append(f[k \div b], Digits[(k % b) + 1])
  BY DigitsFacts
<1>2. \A k \in 0 .. n : k >= b => k \div b \in 0 .. n /\ k \div b < k
  <2>1. \A k \in 0 .. n : k \in Nat
    OBVIOUS
  <2>2. \A k \in 0 .. n : k \div b \in Nat /\ (k > 0 => k \div b < k)
    BY <2>1, DivideDown
  <2> QED
    BY <2>2
<1> HIDE DEF f
<1>3. ASSUME NEW k \in 0 .. n
      PROVE  Len(f[k]) = IF k < b THEN 1 ELSE 1 + Len(f[k \div b])
  <2> DEFINE c == Digits[k + 1]
             e == Digits[(k % b) + 1]
             before == k \div b
  <2>1. f[k] = IF k < b THEN <<c>> ELSE Append(f[before], e)
    BY <1>1, Zenon
  <2>2. CASE k < b
    <3> HIDE DEF c, e, before
    <3>1. f[k] = <<c>>
      BY <2>1, <2>2, Zenon
    <3> QED
      BY <2>2, <3>1
  <2>3. CASE ~(k < b)
    <3>1. k >= b
      BY <2>3
    <3>2. f[before] \in Seq(DigitChars)
      BY <1>1, <1>2, <3>1
    <3> HIDE DEF c, e
    <3>3. f[k] = Append(f[before], e)
      BY <2>1, <2>3, Zenon
    <3>4. Len(Append(f[before], e)) = Len(f[before]) + 1 /\ Len(f[before]) \in Nat
      <4> HIDE DEF before
      <4> QED
        BY <3>2
    <3> QED
      BY <2>3, <3>3, <3>4
  <2> QED
    BY <2>2, <2>3
<1>4. CountTo(n, b, g)
  <2>1. \A k \in 0 .. n : g[k] = IF k < b THEN 1 ELSE 1 + g[k \div b]
    BY <1>2, <1>3
  <2>2. g = [k \in 0 .. n |-> g[k]]
    OBVIOUS
  <2> HIDE DEF g
  <2>3. g = [k \in 0 .. n |-> IF k < b THEN 1 ELSE 1 + g[k \div b]]
    BY <2>1, <2>2
  <2> QED
    BY <2>3 DEF CountTo
<1>5. CountTo(n, b, h)
  BY <1>4 DEF CountFor
<1> HIDE DEF g, h
<1>6. \A k \in 0 .. n : h[k] = IF k < b THEN 1 ELSE 1 + h[k \div b]
  BY <1>5 DEF CountTo
<1>7. ASSUME NEW k \in 0 .. n, \A m \in 0 .. k - 1 : m \in P
      PROVE  k \in P
  <2>1. CASE k < b
    BY <1>3, <1>6, <2>1
  <2>2. CASE ~(k < b)
    <3>1. k \div b \in 0 .. k - 1
      BY <1>2, <2>2
    <3>2. h[k \div b] = Len(f[k \div b])
      BY <1>7, <3>1
    <3> QED
      BY <1>3, <1>6, <2>2, <3>2
  <2> QED
    BY <2>1, <2>2
<1> HIDE DEF P
<1>8. \A k \in 0 .. n : k \in P
  BY <1>7, StrongInduct
<1>9. n \in P
  BY <1>8
<1>10. h[n] = Len(f[n])
  BY <1>9 DEF P
<1> QED
  BY <1>10, CountIsLast, NumeralIsLast DEF f, h

\* Numerals are texts.
LEMMA NumeralText ==
  ASSUME NEW n \in Nat, NEW b \in 2 .. 16
  PROVE  /\ Numeral(n, b) \in Seq(DigitChars) /\ Numeral(n, b) \in MemText /\ Numeral(n, b) # <<>>
         /\ Numeral(n, b)[1] \in DigitChars
<1>1. Numeral(n, b) \in Seq(DigitChars) /\ Numeral(n, b) # <<>>
  BY NumeralType
<1>2. DigitChars \subseteq MemChar
  BY DEF DigitChars, MemChar, Letters
<1> QED
  BY <1>1, <1>2 DEF MemText

\* No digit is a sign.
LEMMA DigitIsNoSign == \A c \in DigitChars : c \notin {"-", "+", " ", Blank}
BY DEF DigitChars, Blank

\* The text of d and i, and the size ft_ltoa asks for.
LEMMA LtoaText ==
  ASSUME NEW n \in Int
  PROVE  /\ ft_ltoa(n) \in MemText /\ ft_ltoa(n) # <<>> /\ ft_ltoa(n)[1] \notin {"+", Blank}
         /\ Len(ft_ltoa(n)) = nb_length(n) + (IF n < 0 THEN 1 ELSE 0) /\ nb_length(n) \in Nat
<1>1. CASE n < 0
  <2> DEFINE t == Numeral(-n, 10)
  <2>1. -n \in Nat /\ 10 \in 2 .. 16
    BY <1>1
  <2>2. t \in MemText /\ Len(t) = DigitCount(-n, 10)
    BY <2>1, NumeralText, CountRight
  <2>3. ft_ltoa(n) = <<"-">> \o t /\ nb_length(n) = DigitCount(-n, 10)
    BY <1>1 DEF ft_ltoa, nb_length
  <2>4. "-" \in MemChar /\ "-" \notin {"+", Blank}
    BY OwnMemChars DEF Blank
  <2> HIDE DEF t
  <2>5. /\ <<"-">> \o t \in MemText /\ Len(<<"-">> \o t) = Len(t) + 1 /\ (<<"-">> \o t)[1] = "-"
        /\ Len(t) \in Nat
    BY <2>2, <2>4 DEF MemText
  <2> QED
    BY <1>1, <2>2, <2>3, <2>4, <2>5
<1>2. CASE n >= 0
  <2> DEFINE t == Numeral(n, 10)
  <2>1. n \in Nat /\ 10 \in 2 .. 16
    BY <1>2
  <2>2. t \in MemText /\ t # <<>> /\ t[1] \in DigitChars /\ Len(t) = DigitCount(n, 10)
    BY <2>1, NumeralText, CountRight
  <2>3. ft_ltoa(n) = t /\ nb_length(n) = DigitCount(n, 10)
    BY <1>2 DEF ft_ltoa, nb_length
  <2> HIDE DEF t
  <2>4. Len(t) \in Nat /\ t[1] \notin {"+", Blank}
    <3>1. Len(t) \in Nat
      BY <2>2 DEF MemText
    <3>2. t[1] \notin {"+", Blank}
      BY <2>2, DigitIsNoSign, Zenon
    <3> QED
      BY <3>1, <3>2
  <2> QED
    BY <1>2, <2>2, <2>3, <2>4
<1> QED
  BY <1>1, <1>2

\* The text of the other integers, and the size shift_bits asks for.
LEMMA BaseText ==
  ASSUME MemoryTyped, directive.spec \in SpecsPOUBX
  PROVE  /\ ft_base(directive, value) \in MemText /\ ft_base(directive, value) # <<>>
         /\ directive.spec = "u" => ft_base(directive, value)[1] \notin {"+", Blank}
         /\ Len(ft_base(directive, value)) = nbase_length(value, Base[directive.spec])
<1>1. value \in Nat /\ Base[directive.spec] \in 2 .. 16 /\ Base["X"] = 16
  BY ConversionFacts, SMTT(30) DEF SpecsPOUBX, Base
<1> DEFINE b == Base[directive.spec]
           t == Numeral(value, b)
<1>2. /\ t \in Seq(DigitChars) /\ t \in MemText /\ t # <<>> /\ t[1] \in DigitChars
      /\ Len(t) = DigitCount(value, b)
  BY <1>1, NumeralText, CountRight
<1>3. CASE directive.spec = "X"
  <2>1. ft_base(directive, value) = ft_strupper(t)
    BY <1>1, <1>3 DEF ft_base
  <2> HIDE DEF t, b
  <2>2. ft_strupper(t) \in Seq(Letters) /\ Len(ft_strupper(t)) = Len(t)
    BY <1>2, UpperType
  <2>3. ft_strupper(t) \in MemText /\ ft_strupper(t) # <<>>
    <3>1. Letters \subseteq MemChar
      BY DEF MemChar
    <3> QED
      BY <1>2, <2>2, <3>1 DEF MemText
  <2> QED
    BY <1>2, <1>3, <2>1, <2>2, <2>3 DEF nbase_length, b
<1>4. CASE directive.spec # "X"
  <2>1. ft_base(directive, value) = t
    BY <1>4 DEF ft_base
  <2> HIDE DEF t, b
  <2>2. t[1] \notin {"+", Blank}
    BY <1>2, DigitIsNoSign
  <2> QED
    BY <1>2, <2>1, <2>2 DEF nbase_length, b
<1> QED
  BY <1>3, <1>4

-----------------------------------------------------------------------------
\* The texts that are to be printed

\* A precision keeps a text one that a field may be put around.
LEMMA PrecisionText ==
  ASSUME MemoryTyped, NEW t \in MemText
  PROVE  /\ ft_precision(directive, t) \in MemText
         /\ directive.spec # "s" /\ FieldText(t) => FieldText(ft_precision(directive, t))
         /\ directive.precision = -1 => ft_precision(directive, t) = t
<1> DEFINE p == directive.precision
           u == ft_precision(directive, t)
<1>1. p \in Int /\ Len(t) \in Nat /\ "0" \in MemChar /\ "-" \in MemChar
  BY ConversionFacts, TextParts, OwnMemChars
<1>2. \A n \in 0 .. Len(t) : SubSeq(t, 1, n) \in MemText
  BY TextParts
<1>3. t # <<>> => Len(t) >= 1 /\ Drop(t, 1) \in MemText /\ Len(Drop(t, 1)) = Len(t) - 1 /\ SubSeq(t, 1, 1) = <<t[1]>>
                  /\ SubSeq(t, 1, 1) \o Drop(t, 1) = t
  BY TextParts
<1>4. ASSUME NEW r \in MemText, NEW n \in Int
      PROVE  /\ padd(r, n, "0", "L") \in MemText /\ (n <= 0 => padd(r, n, "0", "L") = r)
             /\ n > 0 => padd(r, n, "0", "L")[1] = "0"
  <2>1. padd(r, n, "0", "L") \in MemText /\ (n <= 0 => padd(r, n, "0", "L") = r)
    BY <1>1, PaddedText
  <2>2. ASSUME n > 0
        PROVE  padd(r, n, "0", "L")[1] = "0"
    <3> DEFINE z == Repeat("0", n)
    <3>1. z \in MemText /\ Len(z) = n /\ z[1] = "0"
      BY <1>1, <2>2 DEF Repeat, MemText
    <3>2. padd(r, n, "0", "L") = z \o r
      BY <2>2 DEF padd
    <3> HIDE DEF z
    <3> QED
      BY <2>2, <3>1, <3>2 DEF MemText
  <2> QED
    BY <2>1, <2>2
<1>5. CASE directive.spec = "s"
  <2>1. u = IF p \in 0 .. Len(t) THEN SubSeq(t, 1, p) ELSE t
    BY <1>5 DEF ft_precision
  <2>2. p = -1 => p \notin 0 .. Len(t)
    BY <1>1
  <2> HIDE DEF p, u
  <2>3. u \in MemText /\ (p = -1 => u = t)
    BY <1>2, <2>1, <2>2
  <2> QED
    BY <1>5, <2>3 DEF p, u
<1>6. ASSUME u = padd(t, p - Len(t), "0", "L")
      PROVE  u \in MemText /\ (FieldText(t) => FieldText(u)) /\ (p = -1 => u = t)
  <2>1. p - Len(t) \in Int /\ (p = -1 => p - Len(t) <= 0)
    BY <1>1
  <2> HIDE DEF p, u
  <2>2. u \in MemText /\ (p - Len(t) <= 0 => u = t) /\ (p - Len(t) > 0 => u[1] = "0")
    BY <1>4, <1>6, <2>1
  <2>3. "0" \notin {"+", Blank}
    BY DEF Blank
  <2>4. FieldText(t) => FieldText(u)
    BY <2>1, <2>2, <2>3 DEF FieldText
  <2> QED
    BY <2>1, <2>2, <2>4
<1>7. CASE directive.spec \in SpecsPOUBX
  <2>1. u = padd(t, p - Len(t), "0", "L")
    BY <1>7 DEF ft_precision, SpecsPOUBX
  <2> QED
    BY <1>6, <2>1
<1>8. CASE directive.spec \notin SpecsPOUBX /\ directive.spec # "s"
  <2>1. CASE Negative(t)
    <3> DEFINE n == p - (Len(t) - 1)
               z == padd(Drop(t, 1), n, "0", "L")
    <3>1. u = <<"-">> \o z
      BY <1>8, <2>1 DEF ft_precision
    <3>2. n \in Int /\ t # <<>> /\ t[1] = "-" /\ (p = -1 => n <= 0)
      BY <1>1, <1>3, <2>1 DEF Negative
    <3>3. z \in MemText /\ (n <= 0 => z = Drop(t, 1))
      BY <1>3, <1>4, <3>2
    <3> HIDE DEF n, z, p, u
    <3>4. u \in MemText /\ u[1] = "-"
      BY <1>1, <3>1, <3>3 DEF MemText
    <3>5. p = -1 => u = t
      BY <1>3, <3>1, <3>2, <3>3
    <3>6. "-" \notin {"+", Blank}
      BY DEF Blank
    <3>7. FieldText(u)
      BY <3>4, <3>6 DEF FieldText
    <3> QED
      BY <3>4, <3>5, <3>7 DEF u, p
  <2>2. CASE ~Negative(t)
    <3>1. u = padd(t, p - Len(t), "0", "L")
      BY <1>8, <2>2 DEF ft_precision
    <3> QED
      BY <1>6, <3>1
  <2> QED
    BY <2>1, <2>2
<1> QED
  BY <1>5, <1>7, <1>8

\* A field around a text gives a text.
LEMMA WidthText ==
  ASSUME MemoryTyped, NEW t \in MemText, FieldText(t)
  PROVE  ft_width(directive, t, value) \in MemText
<1>1. CASE directive.spec \in {"d", "i", "u", "f"}
  <2>1. ft_width(directive, t, value) = ft_numeric(directive, t)
    BY <1>1 DEF ft_width
  <2>2. /\ SignPut(directive, t) \o t \in MemText
        /\ NumberPadded(SignPut(directive, t) \o t) = ft_numeric(directive, t)
    BY <1>1, NumberPaddedIs
  <2>3. NumberPadded(SignPut(directive, t) \o t) \in MemText
    BY <2>2, NumberPaddedText
  <2> QED
    BY <2>1, <2>2, <2>3
<1>2. CASE directive.spec = "s"
  <2>1. ft_width(directive, t, value) = ft_string(directive, t)
    BY <1>2 DEF ft_width
  <2> QED
    BY <2>1, StringPadded
<1>3. CASE directive.spec \notin {"d", "i", "u", "f", "s"}
  <2>1. ft_width(directive, t, value) = ft_alternate(directive, t, value)
    BY <1>3 DEF ft_width
  <2> QED
    BY <2>1, AlternateCases
<1> QED
  BY <1>1, <1>2, <1>3

\* The printers take a shortcut for a directive without flags, width and
\* precision: the text is that without it.
LEMMA BareText ==
  ASSUME MemoryTyped, Bare, NEW t \in MemText, FieldText(t)
  PROVE  /\ ft_precision(directive, t) = t
         /\ ft_width(directive, t, value) = IF directive.spec = "p" THEN <<"0", "x">> \o t ELSE t
<1>1. directive.flag = {} /\ directive.width = 0 /\ directive.precision = -1
  BY DEF Bare
<1>2. ft_precision(directive, t) = t
  BY <1>1, PrecisionText
<1>3. Len(t) \in Nat /\ "0" \in MemChar /\ " " \in MemChar /\ Blank \in MemChar /\ Blank = " "
  BY TextParts, OwnMemChars DEF Blank
<1>4. <<>> \o t = t
  BY EmptyEnds
<1>8. \A k \in Nat : directive.width - k <= 0
  <2>1. \A k \in Nat : 0 - k <= 0
    OBVIOUS
  <2> QED
    BY <1>1, <2>1, Zenon
<1>5. CASE directive.spec \in {"d", "i", "u", "f"}
  <2>1. ft_width(directive, t, value) = ft_numeric(directive, t)
    BY <1>5 DEF ft_width
  <2>2. SignPut(directive, t) = <<>>
    BY <1>1 DEF SignPut
  <2>3. ft_numeric(directive, t) = NumberPadded(t)
    BY <1>4, <1>5, <2>2, NumberPaddedIs
  <2>4. FieldPad(t) <= 0
    BY <1>3, <1>8, Zenon DEF FieldPad
  <2>5. NumberPadded(t) = t
    BY <2>4, NumberPaddedCases
  <2> QED
    BY <1>2, <1>5, <2>1, <2>3, <2>5
<1>6. CASE directive.spec = "s"
  <2>1. ft_width(directive, t, value) = ft_string(directive, t)
    BY <1>6 DEF ft_width
  <2>2. directive.width - Len(t) <= 0
    BY <1>3, <1>8
  <2>3. ft_string(directive, t) = t
    BY <2>2, StringPadded
  <2> QED
    BY <1>2, <1>6, <2>1, <2>3
<1>7. CASE directive.spec \notin {"d", "i", "u", "f", "s"}
  <2> DEFINE prefix == get_prefix(directive, t, value)
             n == directive.width - (Len(t) + Len(prefix))
  <2>1. ft_width(directive, t, value) = ft_alternate(directive, t, value)
    BY <1>7 DEF ft_width
  <2>2. prefix = IF directive.spec = "p" THEN <<"0", "x">> ELSE <<>>
    BY <1>1, Zenon DEF get_prefix
  <2>3. Len(prefix) \in Nat
    BY <2>2
  <2>4. /\ prefix \o t \in MemText
        /\ ft_alternate(directive, t, value) = padd(prefix \o t, n, " ", Side) /\ n \in Int
    <3>1. "ZERO" \notin directive.flag
      BY <1>1
    <3> QED
      BY <3>1, AlternateCases, Zenon
  <2>5. n <= 0
    <3>1. \A k, m \in Nat : k + m \in Nat
      OBVIOUS
    <3> HIDE DEF prefix
    <3>2. Len(t) + Len(prefix) \in Nat
      BY <1>3, <2>3, <3>1, Zenon
    <3> QED
      BY <1>8, <3>2
  <2> HIDE DEF n, prefix
  <2>6. padd(prefix \o t, n, " ", Side) = prefix \o t
    BY <1>3, <2>4, <2>5, PaddedText
  <2>7. prefix \o t = IF directive.spec = "p" THEN <<"0", "x">> \o t ELSE t
    BY <1>4, <2>2, Zenon
  <2> QED
    BY <1>2, <2>1, <2>4, <2>6, <2>7
<1> QED
  BY <1>5, <1>6, <1>7

-----------------------------------------------------------------------------
\* The printers

\* When everything is printed and freed.
LEMMA OverFacts ==
  ASSUME NEW lost \in SUBSET Pointers, NEW goal \in MemText
  PROVE  LET E == Over(lost, goal)
         IN /\ E \in Description /\ E.lost = lost /\ E.goal = goal /\ E.printed
            /\ \A q \in Pointers : E.mode[q] = "any"
<1> DEFINE N == Nothing(lost, goal)
<1>1. N \in Description /\ N.lost = lost /\ N.goal = goal /\ \A q \in Pointers : N.mode[q] = "any"
  BY NothingFacts
<1>2. Over(lost, goal) = [N EXCEPT !.printed = TRUE]
  BY DEF Over
<1> HIDE DEF N
<1> QED
  BY <1>1, <1>2 DEF Description

\* Printing the result and freeing it.
LEMMA PrintTail ==
  ASSUME NEW mode \in {"own", "made"}, NEW goal \in MemText, NEW lost \in SUBSET Pointers
  PROVE  Triple(Only("result", mode, goal, lost, goal),
                <<ft_putstr("result"), ft_strdel("result")>>, Over(lost, goal))
<1> DEFINE D == Only("result", mode, goal, lost, goal)
           A == [D EXCEPT !.printed = TRUE]
           B == Renewed(A, {"result"}, "result", "null", <<>>)
           E == Over(lost, goal)
<1>1. mode \in Modes /\ "result" \in Pointers
  BY DEF Modes, Pointers
<1>2. IsOnly(D, "result", mode, goal, lost, goal)
  BY <1>1, OnlyFacts, Zenon
<1>3. /\ E \in Description /\ E.lost = lost /\ E.goal = goal /\ E.printed
      /\ \A q \in Pointers : E.mode[q] = "any"
  BY OverFacts
<1> HIDE DEF D, E
<1>4. D \in Description /\ Knows(D, "result") /\ D.text["result"] = D.goal /\ ~D.printed
  BY <1>2 DEF IsOnly, Knows
<1>5. Moves(ft_putstr("result"), D, A) /\ A \in Description
  BY <1>1, <1>4, PutMoves
<1>6. A.mode = D.mode /\ A.lost = lost /\ A.goal = goal /\ A.printed
  BY <1>2 DEF IsOnly, Description
<1> HIDE DEF A
<1>7. Owns(A, "result") /\ Unseen(A) /\ \A q \in Pointers \ {"result"} : A.mode[q] = "any"
  BY <1>1, <1>2, <1>6 DEF IsOnly, Owns, Unseen
<1>8. Moves(ft_strdel("result"), A, B) /\ Renews(A, B, {"result"}, "result", "null", <<>>)
  BY <1>1, <1>5, <1>7, DelMoves
<1> HIDE DEF B
<1>9. Weaker(B, E)
  <2>1. \A q \in Pointers : ~Owns(B, q)
    BY <1>1, <1>7, <1>8 DEF Renews, Owns
  <2>2. B.lost = lost /\ B.goal = goal /\ B.printed = A.printed
    BY <1>6, <1>8 DEF Renews
  <2>3. B.printed = E.printed
    <3>1. A.printed = TRUE /\ E.printed = TRUE
      BY <1>3, <1>5, <1>6 DEF Description
    <3> QED
      BY <2>2, <3>1
  <2> QED
    BY <1>3, <2>1, <2>2, <2>3 DEF Weaker
<1>10. Moves(ft_strdel("result"), A, E)
  BY <1>8, <1>9, MovesWeaker
<1>11. Triple(D, <<ft_putstr("result"), ft_strdel("result")>>, E)
  BY <1>3, <1>4, <1>5, <1>10, TwoTriple
<1> QED
  BY <1>11 DEF D, E

\* The specifiers of the functions for a precision and for a field.
Formatted == SpecsDI \cup SpecsPOUBX \cup {"s", "f"}

\* Entering ft_width.
LEMMA WidthEnter ==
  ASSUME MemoryTyped, NEW mode \in {"own", "made"}, NEW t \in MemText, NEW lost \in SUBSET Pointers,
         NEW goal \in MemText, FieldText(t), directive.spec \in Formatted
  PROVE  Triple(Only("result", mode, t, lost, goal), <<Enter("ft_width")>>,
                Only("result", "own", ft_width(directive, t, value), lost, goal))
<1> DEFINE text == ft_width(directive, t, value)
           D == Only("result", mode, t, lost, goal)
           A == Only("result", "own", t, lost, goal)
           E == Only("result", "own", text, lost, goal)
<1>1. mode \in Modes /\ "own" \in Modes /\ "result" \in Pointers /\ text \in MemText
  BY WidthText DEF Modes, Pointers
<1>2. WidthContract(A, E)
  BY <1>1 DEF WidthContract, Formatted
<1>3. IsOnly(D, "result", mode, t, lost, goal) /\ IsOnly(A, "result", "own", t, lost, goal)
      /\ IsOnly(E, "result", "own", text, lost, goal)
  BY <1>1, OnlyFacts, Zenon
<1>4. D \in Description /\ A \in Description /\ E \in Description
  BY <1>3, Zenon DEF IsOnly
<1> HIDE DEF D, A, E, text
<1>5. Moves(Enter("ft_width"), A, E)
  <2>1. \A p \in ReadsOf("ft_width") : p \in Pointers /\ Owns(A, p)
    BY <1>1, <1>3 DEF ReadsOf, IsOnly, Owns
  <2>2. Contract("ft_width", A, E)
    BY <1>2, Zenon DEF Contract
  <2> QED
    BY <1>4, <2>1, <2>2, EnterMoves
<1>6. Weaker(D, A)
  <2>1. D.mode["result"] = "own" \/ (D.mode["result"] = "made" /\ "own" = "own")
    BY <1>3 DEF IsOnly
  <2>2. /\ D.text["result"] = t /\ (\A q \in Pointers : q # "result" => ~Owns(D, q))
        /\ D.lost = lost /\ D.goal = goal /\ ~D.printed
    BY <1>3 DEF IsOnly, Owns
  <2> QED
    BY <1>1, <1>3, <1>4, <2>1, <2>2, WeakerOnly
<1>7. Triple(A, <<Enter("ft_width")>>, E)
  BY <1>4, <1>5, OneTriple
<1>8. Triple(D, <<Enter("ft_width")>>, E)
  BY <1>6, <1>7, TripleFrom
<1> QED
  BY <1>8 DEF D, E, text

\* Entering ft_precision.
LEMMA PrecisionEnter ==
  ASSUME MemoryTyped, NEW t \in MemText, NEW goal \in MemText, directive.spec \in Formatted \ {"f"}
  PROVE  Triple(Only("result", "made", t, {}, goal), <<Enter("ft_precision")>>,
                Only("result", "made", ft_precision(directive, t), CutLoses(t), goal))
<1> DEFINE text == ft_precision(directive, t)
           D == Only("result", "made", t, {}, goal)
           E == Only("result", "made", text, CutLoses(t), goal)
<1>1. /\ "made" \in Modes /\ "result" \in Pointers /\ CutLoses(t) \in SUBSET Pointers
      /\ {} \in SUBSET Pointers
  BY DEF Modes, Pointers, CutLoses
<1>2. text \in MemText
  BY PrecisionText
<1>3. PrecisionContract(D, E)
  BY <1>2 DEF PrecisionContract, Formatted
<1>4. /\ IsOnly(D, "result", "made", t, {}, goal)
      /\ IsOnly(E, "result", "made", text, CutLoses(t), goal)
  BY <1>1, <1>2, OnlyFacts, Zenon
<1>5. D \in Description /\ E \in Description
  BY <1>4, Zenon DEF IsOnly
<1> HIDE DEF D, E, text
<1>6. \A p \in ReadsOf("ft_precision") : p \in Pointers /\ Owns(D, p)
  BY <1>1, <1>4 DEF ReadsOf, IsOnly, Owns
<1>7. Contract("ft_precision", D, E)
  BY <1>3, Zenon DEF Contract
<1>8. Moves(Enter("ft_precision"), D, E)
  BY <1>5, <1>6, <1>7, EnterMoves
<1>9. Triple(D, <<Enter("ft_precision")>>, E)
  BY <1>5, <1>8, OneTriple
<1> QED
  BY <1>9 DEF D, E, text

\* The first string.
LEMMA FirstMade ==
  ASSUME NEW goal \in MemText, NEW text \in MemText, NEW c,
         c.op = "make", c.to = "result", c.text = text, {c.size, c.used} \subseteq Int, c.lack \in {"null", "fault"},
         BlockSized([text |-> c.text, size |-> c.size, used |-> c.used, for |-> c.to])
  PROVE  Triple(Nothing({}, goal), <<c>>, Only("result", "made", text, {}, goal))
<1> DEFINE D == Nothing({}, goal)
           A == Renewed(D, {}, "result", "made", text)
           E == Only("result", "made", text, {}, goal)
<1>1. "made" \in Modes /\ "result" \in Pointers /\ {} \in SUBSET Pointers
  BY DEF Modes, Pointers
<1>2. /\ D \in Description /\ D.lost = {} /\ D.goal = goal /\ ~D.printed
      /\ \A q \in Pointers : D.mode[q] = "any"
  BY <1>1, NothingFacts
<1>3. IsOnly(E, "result", "made", text, {}, goal)
  BY <1>1, OnlyFacts, Zenon
<1>4. E \in Description
  BY <1>3, Zenon DEF IsOnly
<1> HIDE DEF D, E
<1>5. MakeEffect(c, D, A)
  <2>1. ~Owns(D, "result")
    BY <1>1, <1>2 DEF Owns
  <2> QED
    BY <1>1, <2>1 DEF MakeEffect
<1>6. Renews(D, A, {}, "result", "made", text)
  BY <1>1, <1>2, RenewedFacts, Zenon
<1>7. A \in Description
  BY <1>6, Zenon DEF Renews
<1> HIDE DEF A
<1>8. Moves(c, D, A)
  <2>1. Effect(c, D, A)
    BY <1>5, Zenon DEF Effect
  <2> QED
    BY <1>7, <2>1, EffectMoves
<1>9. Weaker(A, E)
  <2>1. /\ A.mode["result"] = "made" /\ A.text["result"] = text
        /\ (\A q \in Pointers : q # "result" => ~Owns(A, q))
        /\ A.lost = {} /\ A.goal = goal /\ ~A.printed
    BY <1>1, <1>2, <1>6 DEF Renews, Owns
  <2> QED
    BY <1>1, <1>3, <1>7, <2>1, WeakerOnly
<1>10. Moves(c, D, E)
  BY <1>8, <1>9, MovesWeaker
<1>11. Triple(D, <<c>>, E)
  BY <1>2, <1>4, <1>10, OneTriple
<1> QED
  BY <1>11 DEF D, E

\* A copy of a string.
LEMMA FirstDup ==
  ASSUME NEW goal \in MemText, NEW text \in MemText
  PROVE  Triple(Nothing({}, goal), <<ft_strdup("result", text)>>, Only("result", "made", text, {}, goal))
<1> DEFINE c == ft_strdup("result", text)
<1>1. /\ c.op = "make" /\ c.to = "result" /\ c.text = text /\ c.size = Len(text) + 1
      /\ c.used = Len(text) + 1
      /\ c.lack = "null"
  BY DEF ft_strdup, Make
<1> HIDE DEF c
<1>2. /\ BlockSized([text |-> text, size |-> Len(text) + 1, used |-> Len(text) + 1, for |-> "result"])
      /\ Len(text) + 1 \in Int
  BY TextSized
<1>3. {c.size, c.used} \subseteq Int /\ c.lack \in {"null", "fault"}
  BY <1>1, <1>2
<1>4. BlockSized([text |-> c.text, size |-> c.size, used |-> c.used, for |-> c.to])
  BY <1>1, <1>2, Zenon
<1>5. Triple(Nothing({}, goal), <<c>>, Only("result", "made", text, {}, goal))
  BY <1>1, <1>3, <1>4, FirstMade
<1> QED
  BY <1>5 DEF c

\* What the descriptions of the result are.
LEMMA ResultIn ==
  ASSUME NEW mode \in {"own", "made"}, NEW t \in MemText, NEW lost \in SUBSET Pointers,
         NEW goal \in MemText
  PROVE  /\ IsOnly(Only("result", mode, t, lost, goal), "result", mode, t, lost, goal)
         /\ Only("result", mode, t, lost, goal) \in Description
<1>1. mode \in Modes /\ "result" \in Pointers
  BY DEF Modes, Pointers
<1>2. IsOnly(Only("result", mode, t, lost, goal), "result", mode, t, lost, goal)
  BY <1>1, OnlyFacts, Zenon
<1> QED
  BY <1>2, Zenon DEF IsOnly

\* The precision 0 of the number 0.
LEMMA ZeroTriple ==
  ASSUME NEW t \in MemText, NEW goal \in MemText
  PROVE  Triple(Only("result", "made", t, {}, goal), Replace("result", <<ft_strdup("result", <<>>)>>),
                Only("result", "made", <<>>, {}, goal))
<1> DEFINE D == Only("result", "made", t, {}, goal)
           A == Renewed(D, {}, "result", "made", <<>>)
           E == Only("result", "made", <<>>, {}, goal)
<1>1. /\ "result" \in Pointers /\ "tmp" \in Pointers /\ "result" # "tmp" /\ <<>> \in MemText
      /\ {} \in SUBSET Pointers
  BY DEF Pointers, MemText
<1>2. /\ IsOnly(D, "result", "made", t, {}, goal) /\ D \in Description
      /\ IsOnly(E, "result", "made", <<>>, {}, goal) /\ E \in Description
  BY <1>1, ResultIn
<1> HIDE DEF D, E
<1>3. D.mode["result"] \in {"own", "made"} /\ D.mode["tmp"] = "any" /\ Unseen(D)
  BY <1>1, <1>2 DEF IsOnly, Unseen
<1>4. /\ Triple(D, Replace("result", <<ft_strdup("result", <<>>)>>), A)
      /\ Renews(D, A, {}, "result", "made", <<>>)
  BY <1>1, <1>2, <1>3, ReplaceDup, Zenon
<1>5. A \in Description
  BY <1>4, Zenon DEF Renews
<1> HIDE DEF A
<1>6. Weaker(A, E)
  <2>1. /\ A.mode["result"] = "made" /\ A.text["result"] = <<>>
        /\ (\A q \in Pointers : q # "result" => ~Owns(A, q))
        /\ A.lost = {} /\ A.goal = goal /\ ~A.printed
    BY <1>1, <1>2, <1>4 DEF Renews, Owns, IsOnly
  <2> QED
    BY <1>1, <1>2, <1>5, <2>1, WeakerOnly
<1>7. Triple(D, Replace("result", <<ft_strdup("result", <<>>)>>), E)
  BY <1>2, <1>4, <1>5, <1>6, TripleWeaker
<1> QED
  BY <1>7 DEF D, E

\* Precision and field, one after the other.
LEMMA FieldTriple ==
  ASSUME MemoryTyped, NEW t \in MemText, FieldText(t), NEW goal \in MemText,
         directive.spec \in Formatted \ {"f"}
  PROVE  LET text == ft_width(directive, ft_precision(directive, t), value)
         IN /\ Triple(Only("result", "made", t, {}, goal), <<Enter("ft_precision"), Enter("ft_width")>>,
                      Only("result", "own", text, CutLoses(t), goal))
            /\ text \in MemText /\ CutLoses(t) \in SUBSET Pointers
<1> DEFINE u == ft_precision(directive, t)
           text == ft_width(directive, u, value)
           D == Only("result", "made", t, {}, goal)
           A == Only("result", "made", u, CutLoses(t), goal)
           E == Only("result", "own", text, CutLoses(t), goal)
<1>1. u \in MemText /\ FieldText(u)
  <2>1. u \in MemText /\ (directive.spec # "s" => FieldText(u))
    BY PrecisionText
  <2> QED
    BY <2>1 DEF FieldText
<1>2. CutLoses(t) \in SUBSET Pointers /\ {} \in SUBSET Pointers /\ directive.spec \in Formatted
  BY DEF CutLoses, Pointers
<1>3. text \in MemText
  BY <1>1, WidthText
<1>4. Triple(D, <<Enter("ft_precision")>>, A)
  BY PrecisionEnter
<1>5. Triple(A, <<Enter("ft_width")>>, E)
  BY <1>1, <1>2, WidthEnter
<1>6. D \in Description /\ A \in Description /\ E \in Description
  BY <1>1, <1>2, <1>3, ResultIn
<1> HIDE DEF D, A, E, text, u
<1>7. Triple(D, <<Enter("ft_precision")>> \o <<Enter("ft_width")>>, E)
  BY <1>4, <1>5, <1>6, JoinTriple
<1>8. Triple(D, <<Enter("ft_precision"), Enter("ft_width")>>, E)
  BY <1>7, TwoCalls
<1> QED
  BY <1>2, <1>3, <1>8 DEF D, E, text, u

\* What is promised, and called, for each specifier.
LEMMA SpecCases ==
  /\ directive.spec \in SpecsDI => Promised = ft_print_d(directive, value) /\ Printer = CallsD
  /\ directive.spec \in SpecsPOUBX => Promised = ft_print_poubx(directive, value) /\ Printer = CallsPoubx
  /\ directive.spec = "s" =>
       Promised = ft_print_s(directive, IF value = NoString THEN Null ELSE value) /\ Printer = CallsS
  /\ directive.spec = "f" => Promised = ft_width(directive, FloatText, 0) /\ Printer = CallsF
  /\ directive.spec \notin SpecsDI \cup SpecsPOUBX \cup {"s", "f"} =>
       Promised = ft_print_c(directive, directive.spec) /\ Printer = non_spec_char
BY SpecSets DEF Promised, Printer

\* ft_print_d.
LEMMA DTriple ==
  ASSUME MemoryTyped, directive.spec \in SpecsDI
  PROVE  Promised \in MemText /\ Triple(Nothing({}, Promised), CallsD, Over({}, Promised))
<1> DEFINE t == ft_ltoa(value)
           goal == Promised
           tail == <<ft_putstr("result"), ft_strdel("result")>>
           zero == directive.precision = 0 /\ value = 0
           N == Nothing({}, goal)
           O == Over({}, goal)
           T == Only("result", "made", t, {}, goal)
           Z == Only("result", "made", <<>>, {}, goal)
           G == Only("result", "own", goal, {}, goal)
           M == Only("result", "made", goal, {}, goal)
<1> SUFFICES goal \in MemText /\ Triple(N, CallsD, O)
  OBVIOUS
<1>1. value \in Int /\ directive.spec \in Formatted \ {"f"} /\ directive.spec \in Formatted
      /\ directive.spec # "p"
      /\ directive.spec # "s" /\ {} \in SUBSET Pointers
  BY ConversionFacts, SpecSets DEF Formatted, SpecsDI
<1>2. t \in MemText /\ FieldText(t) /\ <<>> \in MemText /\ FieldText(<<>>)
  BY <1>1, LtoaText DEF FieldText, MemText
<1>3. CutLoses(t) = {}
  BY <1>1 DEF CutLoses
<1>4. goal = ft_width(directive, IF zero THEN <<>> ELSE ft_precision(directive, t), value)
  <2>1. Promised = ft_print_d(directive, value)
    BY SpecCases
  <2> QED
    BY <2>1, Zenon DEF ft_print_d
<1>5. goal \in MemText
  <2>1. zero => goal \in MemText
    BY <1>2, <1>4, WidthText
  <2>2. ~zero => goal \in MemText
    <3>1. ft_precision(directive, t) \in MemText /\ FieldText(ft_precision(directive, t))
      BY <1>1, <1>2, PrecisionText
    <3>2. ft_width(directive, ft_precision(directive, t), value) \in MemText
      BY <3>1, WidthText
    <3> QED
      BY <1>4, <3>2, Zenon
  <2> QED
    BY <2>1, <2>2
<1>6. Triple(N, <<ltoa>>, T)
  <2>1. Len(t) = nb_length(value) + (IF value < 0 THEN 1 ELSE 0) /\ nb_length(value) \in Nat
    BY <1>1, LtoaText
  <2> DEFINE size == nb_length(value) + (IF value < 0 THEN 1 ELSE 0) + 1
  <2>2. size = Len(t) + 1
    BY <2>1
  <2>3. ltoa = Make("result", t, size, Len(t) + 1, "null")
    BY Zenon DEF ltoa
  <2>4. ltoa = ft_strdup("result", t)
    BY <2>2, <2>3, Zenon DEF ft_strdup
  <2> HIDE DEF t, goal
  <2>5. Triple(Nothing({}, goal), <<ft_strdup("result", t)>>, Only("result", "made", t, {}, goal))
    BY <1>2, <1>5, FirstDup
  <2> QED
    BY <2>4, <2>5, Zenon
<1> HIDE DEF t, goal
<1>7. N \in Description /\ O \in Description
  BY <1>1, <1>5, NothingFacts, OverFacts
<1>8. T \in Description /\ Z \in Description /\ G \in Description /\ M \in Description
  BY <1>1, <1>2, <1>5, ResultIn
<1>9. Triple(G, tail, O) /\ Triple(M, tail, O)
  BY <1>1, <1>5, PrintTail
<1>10. CASE Bare
  <2>1. directive.precision = -1
    BY <1>10 DEF Bare
  <2>2. ~zero
    BY <2>1
  <2>3. ft_precision(directive, t) = t /\ ft_width(directive, t, value) = t
    BY <1>1, <1>2, <1>10, BareText
  <2>4. goal = t
    BY <1>4, <2>2, <2>3, Zenon
  <2>5. CallsD = (<<ltoa>> \o <<>>) \o tail
    BY <1>10, Zenon DEF CallsD, When
  <2>6. <<ltoa>> \o <<>> = <<ltoa>>
    OBVIOUS
  <2>7. Triple(N, <<ltoa>>, M)
    BY <1>6, <2>4, Zenon
  <2> HIDE DEF N, O, M, tail
  <2>8. Triple(N, <<ltoa>> \o tail, O)
    BY <1>7, <1>8, <1>9, <2>7, JoinTriple
  <2> QED
    BY <1>5, <2>5, <2>6, <2>8, Zenon
<1>11. CASE ~Bare /\ zero
  <2> DEFINE calls == Replace("result", <<ft_strdup("result", <<>>)>>)
             enter == <<Enter("ft_width")>>
  <2>1. CallsD = (<<ltoa>> \o (calls \o enter)) \o tail
    BY <1>11, Zenon DEF CallsD, When
  <2>2. Triple(T, calls, Z)
    BY <1>2, <1>5, ZeroTriple
  <2>3. Triple(Z, enter, G)
    <3>1. Triple(Z, enter, Only("result", "own", ft_width(directive, <<>>, value), {}, goal))
      BY <1>1, <1>2, <1>5, WidthEnter
    <3>2. goal = ft_width(directive, <<>>, value)
      BY <1>4, <1>11, Zenon
    <3> QED
      BY <3>1, <3>2, Zenon
  <2> HIDE DEF N, O, T, Z, G, tail, calls, enter
  <2>4. Triple(T, calls \o enter, G)
    BY <1>8, <2>2, <2>3, JoinTriple
  <2>5. Triple(N, <<ltoa>> \o (calls \o enter), G)
    BY <1>6, <1>7, <1>8, <2>4, JoinTriple
  <2>6. Triple(N, (<<ltoa>> \o (calls \o enter)) \o tail, O)
    BY <1>7, <1>8, <1>9, <2>5, JoinTriple
  <2> QED
    BY <1>5, <2>1, <2>6, Zenon
<1>12. CASE ~Bare /\ ~zero
  <2> DEFINE calls == <<Enter("ft_precision"), Enter("ft_width")>>
  <2>1. CallsD = (<<ltoa>> \o (<<Enter("ft_precision")>> \o <<Enter("ft_width")>>)) \o tail
    BY <1>12, Zenon DEF CallsD, When
  <2>2. CallsD = (<<ltoa>> \o calls) \o tail
    BY <2>1, TwoCalls, Zenon
  <2>3. Triple(T, calls, Only("result", "own", ft_width(directive, ft_precision(directive, t),
                                                        value), CutLoses(t), goal))
    BY <1>1, <1>2, <1>5, FieldTriple, Zenon
  <2>4. goal = ft_width(directive, ft_precision(directive, t), value)
    BY <1>4, <1>12, Zenon
  <2>5. Triple(T, calls, G)
    BY <1>3, <2>3, <2>4, Zenon
  <2> HIDE DEF N, O, T, G, tail, calls
  <2>6. Triple(N, <<ltoa>> \o calls, G)
    BY <1>6, <1>7, <1>8, <2>5, JoinTriple
  <2>7. Triple(N, (<<ltoa>> \o calls) \o tail, O)
    BY <1>7, <1>8, <1>9, <2>6, JoinTriple
  <2> QED
    BY <1>5, <2>2, <2>7, Zenon
<1> QED
  BY <1>10, <1>11, <1>12, Zenon

\* ft_ltoa_base: the text of p, o, u, b, x and X.
LEMMA BaseTriple ==
  ASSUME MemoryTyped, directive.spec \in SpecsPOUBX, NEW goal \in MemText
  PROVE  Triple(Nothing({}, goal), <<base_text>>,
                Only("result", "made", ft_base(directive, value), {}, goal))
<1> DEFINE t == ft_base(directive, value)
           c == base_text
<1>1. t \in MemText /\ Len(t) = nbase_length(value, Base[directive.spec])
  BY BaseText
<1>2. Len(t) \in Nat
  BY <1>1, TextParts
<1>3. CASE directive.spec = "u" /\ value = 0
  <2>1. c = ft_strdup("result", t)
    BY <1>3, Zenon DEF base_text
  <2> HIDE DEF t, c
  <2>2. Triple(Nothing({}, goal), <<ft_strdup("result", t)>>, Only("result", "made", t, {}, goal))
    BY <1>1, FirstDup
  <2>3. Triple(Nothing({}, goal), <<c>>, Only("result", "made", t, {}, goal))
    BY <2>1, <2>2, Zenon
  <2> QED
    BY <2>3 DEF t, c
<1>4. CASE directive.spec = "u" /\ value # 0
  <2>1. c = Make("result", t, Len(t), Len(t) + 1, "null")
    BY <1>4, Zenon DEF base_text
  <2> HIDE DEF t
  <2>2. /\ c.op = "make" /\ c.to = "result" /\ c.text = t /\ c.size = Len(t) /\ c.used = Len(t) + 1
        /\ c.lack = "null"
    BY <2>1 DEF Make
  <2> HIDE DEF c
  <2>3. {c.size, c.used} \subseteq Int /\ c.lack \in {"null", "fault"}
    BY <1>2, <2>2
  <2>4. BlockSized([text |-> c.text, size |-> c.size, used |-> c.used, for |-> c.to])
    BY <1>2, <1>4, <2>2 DEF BlockSized
  <2>5. Triple(Nothing({}, goal), <<c>>, Only("result", "made", t, {}, goal))
    BY <1>1, <2>2, <2>3, <2>4, FirstMade
  <2> QED
    BY <2>5 DEF t, c
<1>5. CASE directive.spec # "u"
  <2>1. c = Make("result", t, nbase_length(value, Base[directive.spec]) + 1, Len(t) + 1, "fault")
    BY <1>5, Zenon DEF base_text
  <2>2. c = Make("result", t, Len(t) + 1, Len(t) + 1, "fault")
    BY <1>1, <2>1, Zenon
  <2> HIDE DEF t
  <2>3. /\ c.op = "make" /\ c.to = "result" /\ c.text = t /\ c.size = Len(t) + 1
        /\ c.used = Len(t) + 1 /\ c.lack = "fault"
    BY <2>2 DEF Make
  <2> HIDE DEF c
  <2>4. {c.size, c.used} \subseteq Int /\ c.lack \in {"null", "fault"}
    BY <1>2, <2>3
  <2>5. BlockSized([text |-> c.text, size |-> c.size, used |-> c.used, for |-> c.to])
    BY <1>2, <2>3 DEF BlockSized
  <2>6. Triple(Nothing({}, goal), <<c>>, Only("result", "made", t, {}, goal))
    BY <1>1, <2>3, <2>4, <2>5, FirstMade
  <2> QED
    BY <2>6 DEF t, c
<1> QED
  BY <1>3, <1>4, <1>5

\* ft_print_poubx.
LEMMA PoubxTriple ==
  ASSUME MemoryTyped, directive.spec \in SpecsPOUBX
  PROVE  Promised \in MemText /\ Triple(Nothing({}, Promised), CallsPoubx, Over({}, Promised))
<1> DEFINE zero == value = 0 /\ directive.precision = 0
           t == IF zero THEN <<>> ELSE ft_base(directive, value)
           goal == Promised
           first == IF zero THEN <<ft_strdup("result", <<>>)>> ELSE <<base_text>>
           tail == <<ft_putstr("result"), ft_strdel("result")>>
           enter == <<Enter("ft_precision"), Enter("ft_width")>>
           front == <<ft_strdup("new", <<"0", "x">>), ft_strjoin_free("result", "new", "result")>>
           N == Nothing({}, goal)
           O == Over({}, goal)
           T == Only("result", "made", t, {}, goal)
           G == Only("result", "own", goal, {}, goal)
           M == Only("result", "made", goal, {}, goal)
<1> SUFFICES goal \in MemText /\ Triple(N, CallsPoubx, O)
  OBVIOUS
<1>1. directive.spec \in Formatted \ {"f"} /\ directive.spec \in Formatted
      /\ directive.spec # "s" /\ {} \in SUBSET Pointers
      /\ directive.spec # "d" /\ directive.spec # "i" /\ directive.spec # "f"
  BY SpecSets DEF Formatted
<1>2. t \in MemText /\ FieldText(t) /\ <<>> \in MemText
  <2>1. <<>> \in MemText /\ FieldText(<<>>)
    BY DEF FieldText, MemText
  <2>2. ft_base(directive, value) \in MemText /\ FieldText(ft_base(directive, value))
    BY <1>1, BaseText DEF FieldText
  <2> QED
    BY <2>1, <2>2
<1>3. CutLoses(t) = {}
  BY <1>1 DEF CutLoses
<1>4. goal = ft_width(directive, ft_precision(directive, t), value)
  <2>1. Promised = ft_print_poubx(directive, value)
    BY SpecCases
  <2> QED
    BY <2>1, Zenon DEF ft_print_poubx
<1>5. goal \in MemText
  BY <1>1, <1>2, <1>4, FieldTriple, Zenon
<1>6. Triple(N, first, T)
  <2>1. CASE zero
    <3>1. Triple(Nothing({}, goal), <<ft_strdup("result", <<>>)>>,
                 Only("result", "made", <<>>, {}, goal))
      BY <1>2, <1>5, FirstDup
    <3> QED
      BY <2>1, <3>1, Zenon
  <2>2. CASE ~zero
    <3>1. Triple(Nothing({}, goal), <<base_text>>,
                 Only("result", "made", ft_base(directive, value), {}, goal))
      BY <1>5, BaseTriple
    <3> QED
      BY <2>2, <3>1, Zenon
  <2> QED
    BY <2>1, <2>2, Zenon
<1>7. CallsPoubx = (first \o (IF ~Bare THEN enter ELSE When(directive.spec = "p", front))) \o tail
  BY Zenon DEF CallsPoubx
<1> HIDE DEF t, goal, first
<1>8. N \in Description /\ O \in Description
  BY <1>1, <1>5, NothingFacts, OverFacts
<1>9. T \in Description /\ G \in Description /\ M \in Description
  BY <1>1, <1>2, <1>5, ResultIn
<1>10. Triple(G, tail, O) /\ Triple(M, tail, O)
  BY <1>1, <1>5, PrintTail
<1>11. ASSUME NEW calls, NEW E \in Description, Triple(T, calls, E), Triple(E, tail, O)
       PROVE  Triple(N, (first \o calls) \o tail, O)
  <2> HIDE DEF N, O, T, tail
  <2>1. Triple(N, first \o calls, E)
    BY <1>6, <1>8, <1>9, <1>11, JoinTriple
  <2> QED
    BY <1>8, <1>11, <2>1, JoinTriple
<1>12. CASE ~Bare
  <2>1. Triple(T, enter, Only("result", "own", ft_width(directive, ft_precision(directive, t),
                                                        value), CutLoses(t), goal))
    BY <1>1, <1>2, <1>5, FieldTriple, Zenon
  <2>2. Triple(T, enter, G)
    BY <1>3, <1>4, <2>1, Zenon
  <2>3. CallsPoubx = (first \o enter) \o tail
    BY <1>7, <1>12, Zenon
  <2> HIDE DEF N, O, T, G, tail, enter
  <2>4. Triple(N, (first \o enter) \o tail, O)
    BY <1>9, <1>10, <1>11, <2>2
  <2> QED
    BY <1>5, <2>3, <2>4, Zenon
<1>13. CASE Bare
  <2>1. goal = IF directive.spec = "p" THEN <<"0", "x">> \o t ELSE t
    BY <1>2, <1>4, <1>13, BareText, Zenon
  <2>2. CallsPoubx = (first \o When(directive.spec = "p", front)) \o tail
    BY <1>7, <1>13, Zenon
  <2>3. Triple(T, When(directive.spec = "p", front), M)
    <3>1. CASE directive.spec = "p"
      <4>1. <<"0", "x">> \in MemText
        <5>1. "0" \in MemChar /\ "x" \in MemChar
          BY OwnMemChars
        <5> QED
          BY <5>1 DEF MemText
      <4>2. Triple(T, front, Only("result", "made", <<"0", "x">> \o t, {}, goal))
        BY <1>1, <1>2, <1>5, <4>1, OnlyFront
      <4> QED
        BY <2>1, <3>1, <4>2, Zenon DEF When
    <3>2. CASE directive.spec # "p"
      <4>1. T = M
        BY <2>1, <3>2, Zenon
      <4>2. Triple(T, <<>>, T)
        BY <1>9, IdleTriple
      <4> QED
        BY <3>2, <4>1, <4>2, Zenon DEF When
    <3> QED
      BY <3>1, <3>2
  <2> HIDE DEF N, O, T, M, tail, front
  <2>4. Triple(N, (first \o When(directive.spec = "p", front)) \o tail, O)
    BY <1>9, <1>10, <1>11, <2>3
  <2> QED
    BY <1>5, <2>2, <2>4, Zenon
<1> QED
  BY <1>12, <1>13, Zenon

\* ft_print_s once it has a string.
StringCalls ==
  When(~Bare, <<Enter("ft_precision"), Enter("ft_width")>>) \o <<ft_putstr("result"),
                                                                 ft_strdel("result")>>

\* It prints the text of that string.
LEMMA StringTriple ==
  ASSUME MemoryTyped, directive.spec = "s", NEW t \in MemText
  PROVE  LET goal == ft_print_s(directive, t)
         IN /\ goal \in MemText /\ CutLoses(t) \in SUBSET Pointers
            /\ Triple(Only("result", "made", t, {}, goal), StringCalls, Over(CutLoses(t), goal))
<1> DEFINE goal == ft_print_s(directive, t)
           tail == <<ft_putstr("result"), ft_strdel("result")>>
           enter == <<Enter("ft_precision"), Enter("ft_width")>>
           lost == CutLoses(t)
           O == Over(lost, goal)
           T == Only("result", "made", t, {}, goal)
           G == Only("result", "own", goal, lost, goal)
<1> SUFFICES goal \in MemText /\ lost \in SUBSET Pointers /\ Triple(T, StringCalls, O)
  OBVIOUS
<1>1. directive.spec \in Formatted \ {"f"} /\ directive.spec \in Formatted /\ {} \in SUBSET Pointers
      /\ directive.spec \notin {"d", "i", "u", "f"}
  BY DEF Formatted
<1>2. FieldText(t)
  BY <1>1 DEF FieldText
<1>3. goal = ft_width(directive, ft_precision(directive, t), value)
  BY DEF ft_print_s, ft_width
<1>4. goal \in MemText /\ lost \in SUBSET Pointers
  BY <1>1, <1>2, <1>3, FieldTriple, Zenon
<1>5. StringCalls = When(~Bare, enter) \o tail
  BY Zenon DEF StringCalls
<1>6. CASE ~Bare
  <2> HIDE DEF goal
  <2>1. Triple(T, enter, Only("result", "own", ft_width(directive, ft_precision(directive, t),
                                                        value), lost, goal))
    BY <1>1, <1>2, <1>4, FieldTriple, Zenon
  <2>2. Triple(T, enter, G)
    BY <1>3, <2>1, Zenon
  <2>3. Triple(G, tail, O)
    BY <1>4, PrintTail
  <2>4. T \in Description /\ G \in Description /\ O \in Description
    BY <1>1, <1>4, ResultIn, OverFacts
  <2>5. StringCalls = enter \o tail
    BY <1>5, <1>6, Zenon DEF When
  <2> HIDE DEF T, G, O, enter, tail, lost
  <2>6. Triple(T, enter \o tail, O)
    BY <2>2, <2>3, <2>4, JoinTriple
  <2> QED
    BY <1>4, <2>5, <2>6, Zenon
<1>7. CASE Bare
  <2>1. lost = {}
    <3>1. directive.precision # 0
      BY <1>7 DEF Bare
    <3> QED
      BY <3>1, Zenon DEF CutLoses
  <2>2. goal = t
    <3>1. ft_precision(directive, t) = t /\ ft_width(directive, t, value) = t
      BY <1>1, <1>2, <1>7, BareText
    <3> QED
      BY <1>3, <3>1, Zenon
  <2>3. StringCalls = <<>> \o tail
    BY <1>5, <1>7, Zenon DEF When
  <2>4. <<>> \o tail = tail
    OBVIOUS
  <2> HIDE DEF goal, lost, tail
  <2>5. Triple(Only("result", "made", goal, lost, goal), tail, O)
    BY <1>4, PrintTail DEF tail
  <2>6. T = Only("result", "made", goal, lost, goal)
    BY <2>1, <2>2, Zenon
  <2> QED
    BY <1>4, <2>3, <2>4, <2>5, <2>6, Zenon
<1> QED
  BY <1>6, <1>7

-----------------------------------------------------------------------------
\* The printer of the floats

\* What is said of the parts before anything is called, and once there is a word.
Clear(D, goal) ==
  /\ D \in Description /\ D.lost = {} /\ D.goal = goal /\ ~D.printed
  /\ D.mode["decimal"] = "null" /\ D.mode["fract"] = "null"
  /\ \A q \in Pointers \ {"mantiss", "decimal", "fract"} : D.mode[q] = "any"
FloatStart(goal) == With(With(Nothing({}, goal), "decimal", "null", <<>>), "fract", "null", <<>>)

\* Both parts are NULL.
LEMMA ClearFacts ==
  ASSUME NEW A, NEW goal, A \in Description, A.lost = {}, A.goal = goal, ~A.printed,
         \A q \in Pointers \ {"mantiss"} : A.mode[q] = "any"
  PROVE  LET E == With(With(A, "decimal", "null", <<>>), "fract", "null", <<>>)
         IN /\ Clear(E, goal) /\ E.mode["mantiss"] = A.mode["mantiss"]
            /\ E.text["mantiss"] = A.text["mantiss"]
<1> DEFINE B == With(A, "decimal", "null", <<>>)
           E == With(B, "fract", "null", <<>>)
<1>1. /\ "null" \in Modes /\ "mantiss" \in Pointers /\ "decimal" \in Pointers
      /\ "fract" \in Pointers /\ <<>> \in MemText
  BY PartNames DEF MemText
<1>2. Renews(A, B, {}, "decimal", "null", <<>>)
  BY <1>1, WithRenews
<1>3. B \in Description
  BY <1>2, Zenon DEF Renews
<1> HIDE DEF B
<1>4. Renews(B, E, {}, "fract", "null", <<>>)
  BY <1>1, <1>3, WithRenews
<1> HIDE DEF E
<1>5. /\ Clear(E, goal) /\ E.mode["mantiss"] = A.mode["mantiss"]
      /\ E.text["mantiss"] = A.text["mantiss"]
  BY <1>1, <1>2, <1>4 DEF Renews, Clear
<1> QED
  BY <1>5 DEF E, B

\* FloatStart and Word are such descriptions.
LEMMA StartClear ==
  ASSUME MemoryTyped, directive.spec = "f", NEW goal \in MemText
  PROVE  /\ Clear(FloatStart(goal), goal) /\ FloatStart(goal).mode["mantiss"] = "any"
         /\ Clear(Word(goal), goal) /\ Word(goal).mode["mantiss"] = "made"
         /\ Word(goal).text["mantiss"] = value.word
<1> DEFINE N == Nothing({}, goal)
           A == Only("mantiss", "made", value.word, {}, goal)
<1>1. /\ N \in Description /\ N.lost = {} /\ N.goal = goal /\ ~N.printed
      /\ \A q \in Pointers : N.mode[q] = "any"
  BY NothingFacts
<1>2. value.word \in MemText
  BY FloatPartsText
<1>3. IsOnly(A, "mantiss", "made", value.word, {}, goal)
  BY <1>2, PartNames, OnlyFacts, Zenon
<1>4. FloatStart(goal) = With(With(N, "decimal", "null", <<>>), "fract", "null", <<>>)
      /\ Word(goal) = With(With(A, "decimal", "null", <<>>), "fract", "null", <<>>)
  BY Zenon DEF FloatStart, Word
<1> HIDE DEF N, A
<1>5. Clear(FloatStart(goal), goal) /\ FloatStart(goal).mode["mantiss"] = "any"
  <2>1. N.mode["mantiss"] = "any"
    BY <1>1, PartNames
  <2> QED
    BY <1>1, <1>4, <2>1, ClearFacts
<1>6. /\ Clear(Word(goal), goal) /\ Word(goal).mode["mantiss"] = "made"
      /\ Word(goal).text["mantiss"] = value.word
  <2>1. /\ A \in Description /\ A.lost = {} /\ A.goal = goal /\ ~A.printed
        /\ \A q \in Pointers \ {"mantiss"} : A.mode[q] = "any"
    BY <1>3 DEF IsOnly
  <2>2. A.mode["mantiss"] = "made" /\ A.text["mantiss"] = value.word
    BY <1>3 DEF IsOnly
  <2> QED
    BY <1>4, <2>1, <2>2, ClearFacts
<1> QED
  BY <1>5, <1>6

\* The mantissa becomes the result.
LEMMA ResultMoved ==
  ASSUME NEW t \in MemText, NEW lost \in SUBSET Pointers, NEW goal \in MemText
  PROVE  Triple(Only("mantiss", "made", t, lost, goal), <<Move("result", "mantiss")>>,
                Only("result", "own", t, lost, goal))
<1> DEFINE D == Only("mantiss", "made", t, lost, goal)
           A == Moved(D, "result", "mantiss")
           E == Only("result", "own", t, lost, goal)
<1>1. "mantiss" \in Pointers /\ "result" \in Pointers /\ "made" \in Modes /\ "mantiss" # "result"
  BY PartNames
<1>2. IsOnly(D, "mantiss", "made", t, lost, goal)
  BY <1>1, OnlyFacts, Zenon
<1>3. IsOnly(E, "result", "own", t, lost, goal) /\ E \in Description
  BY ResultIn
<1>4. D \in Description
  BY <1>2, Zenon DEF IsOnly
<1> HIDE DEF D, E
<1>5. Moves(Move("result", "mantiss"), D, A) /\ Shifts(D, A, "result", "mantiss")
  <2>1. ~Owns(D, "result") /\ D.mode["mantiss"] \in {"own", "made"}
    BY <1>1, <1>2 DEF IsOnly, Owns
  <2> QED
    BY <1>1, <1>4, <2>1, MoveMoves
<1>6. A \in Description
  BY <1>5, Zenon DEF Shifts
<1> HIDE DEF A
<1>7. Weaker(A, E)
  <2>1. /\ A.mode["result"] = "own" /\ A.text["result"] = t
        /\ (\A q \in Pointers : q # "result" => ~Owns(A, q))
        /\ A.lost = lost /\ A.goal = goal /\ ~A.printed
    BY <1>1, <1>2, <1>5 DEF Shifts, Owns, IsOnly
  <2> QED
    BY <1>1, <1>3, <1>6, <2>1, WeakerOnly
<1>8. Moves(Move("result", "mantiss"), D, E)
  BY <1>5, <1>7, MovesWeaker
<1>9. Triple(D, <<Move("result", "mantiss")>>, E)
  BY <1>3, <1>4, <1>8, OneTriple
<1> QED
  BY <1>9 DEF D, E

\* What is promised of a float.
LEMMA FloatPromise ==
  ASSUME MemoryTyped, directive.spec = "f"
  PROVE  /\ Promised = ft_width(directive, FloatText, value) /\ Promised \in MemText
         /\ Printer = CallsF
<1>1. FloatText \in MemText /\ FieldText(FloatText)
  BY FloatPartsText
<1>2. Promised = ft_width(directive, FloatText, 0) /\ Printer = CallsF
  BY SpecCases
<1>3. ft_width(directive, FloatText, 0) = ft_width(directive, FloatText, value)
  BY Zenon DEF ft_width
<1>4. ft_width(directive, FloatText, value) \in MemText
  BY <1>1, WidthText
<1> QED
  BY <1>2, <1>3, <1>4

\* ft_print_f once the text is joined.
LEMMA FloatTail ==
  ASSUME MemoryTyped, directive.spec = "f", NEW lost \in SUBSET Pointers
  PROVE  Triple(Only("mantiss", "made", FloatText, lost, Promised),
                <<Move("result", "mantiss"), Enter("ft_width"), ft_putstr("result"),
                  ft_strdel("result")>>,
                Over(lost, Promised))
<1> DEFINE t == FloatText
           goal == Promised
           D == Only("mantiss", "made", t, lost, goal)
           A == Only("result", "own", t, lost, goal)
           B == Only("result", "own", goal, lost, goal)
           E == Over(lost, goal)
           width == <<Enter("ft_width")>>
           last == <<ft_putstr("result"), ft_strdel("result")>>
<1>1. t \in MemText /\ FieldText(t) /\ goal \in MemText /\ goal = ft_width(directive, t, value)
  BY FloatPartsText, FloatPromise
<1>2. directive.spec \in Formatted
  BY DEF Formatted
<1>3. "mantiss" \in Pointers /\ "made" \in Modes
  BY PartNames
<1> HIDE DEF t, goal
<1>4. IsOnly(D, "mantiss", "made", t, lost, goal)
  BY <1>1, <1>3, OnlyFacts, Zenon
<1>5. D \in Description
  BY <1>4, Zenon DEF IsOnly
<1>6. A \in Description /\ B \in Description /\ E \in Description
  BY <1>1, ResultIn, OverFacts
<1>7. Triple(D, <<Move("result", "mantiss")>>, A)
  BY <1>1, ResultMoved
<1>8. Triple(A, width, B)
  <2>1. Triple(A, width, Only("result", "own", ft_width(directive, t, value), lost, goal))
    BY <1>1, <1>2, WidthEnter
  <2> QED
    BY <1>1, <2>1, Zenon
<1>9. Triple(B, last, E)
  BY <1>1, PrintTail
<1> HIDE DEF D, A, B, E, width, last
<1>10. Triple(A, width \o last, E)
  BY <1>6, <1>8, <1>9, JoinTriple
<1>11. Triple(D, <<Move("result", "mantiss")>> \o (width \o last), E)
  BY <1>5, <1>6, <1>7, <1>10, JoinTriple
<1>12. width \o last = <<Enter("ft_width"), ft_putstr("result"), ft_strdel("result")>>
  BY ThreeCalls, Zenon DEF width, last
<1>13. Triple(D, <<Move("result", "mantiss"), Enter("ft_width"), ft_putstr("result"),
                   ft_strdel("result")>>, E)
  BY <1>11, <1>12, FourCalls, Zenon
<1> QED
  BY <1>13 DEF D, E, t, goal

\* ft_print_f from the call that joins the text.
JoinCalls ==
  <<Enter("join_dot_to_decimal"), Move("result", "mantiss"), Enter("ft_width"), ft_putstr("result"),
    ft_strdel("result")>>

\* It prints the text.
LEMMA JoinCallsTriple ==
  ASSUME MemoryTyped, directive.spec = "f", NEW D \in Description, NEW lost \in SUBSET Pointers,
         JoinContract(D, Only("mantiss", "made", FloatText, lost, Promised))
  PROVE  Triple(D, JoinCalls, Over(lost, Promised))
<1> DEFINE A == Only("mantiss", "made", FloatText, lost, Promised)
           E == Over(lost, Promised)
           tail == <<Move("result", "mantiss"), Enter("ft_width"), ft_putstr("result"),
                     ft_strdel("result")>>
<1>1. FloatText \in MemText /\ Promised \in MemText
  BY FloatPartsText, FloatPromise
<1>2. Triple(A, tail, E)
  BY FloatTail
<1>3. A \in Description /\ E \in Description
  <2>1. IsOnly(A, "mantiss", "made", FloatText, lost, Promised)
    BY <1>1, PartNames, OnlyFacts, Zenon
  <2> QED
    BY <1>1, <2>1, OverFacts DEF IsOnly
<1>4. Contract("join_dot_to_decimal", D, A)
  BY Zenon DEF Contract
<1> HIDE DEF A, E, tail
<1>5. \A p \in ReadsOf("join_dot_to_decimal") : p \in Pointers /\ Owns(D, p)
  BY DEF ReadsOf
<1>6. Moves(Enter("join_dot_to_decimal"), D, A)
  BY <1>3, <1>4, <1>5, EnterMoves
<1>7. Triple(D, <<Enter("join_dot_to_decimal")>> \o tail, E)
  BY <1>2, <1>3, <1>6, MoreTriple
<1>8. <<Enter("join_dot_to_decimal")>> \o tail = JoinCalls
  BY FiveCalls, Zenon DEF tail, JoinCalls
<1>9. Triple(D, JoinCalls, E)
  BY <1>7, <1>8, Zenon
<1> QED
  BY <1>9 DEF E

\* Entering a function that works on a float.
LEMMA FloatEnter ==
  ASSUME directive.spec = "f", value.word = <<>>, NEW f, NEW D \in Description,
         NEW E \in Description,
         FloatContract(f, D, E), \A p \in ReadsOf(f) : p \in Pointers /\ Owns(D, p)
  PROVE  Triple(D, <<Enter(f)>>, E)
<1>1. Contract(f, D, E)
  BY Zenon DEF Contract
<1>2. Moves(Enter(f), D, E)
  BY <1>1, EnterMoves
<1> QED
  BY <1>2, OneTriple

\* The mantissa is freed once its digits are in the parts.
LEMMA MantissaDel ==
  ASSUME MemoryTyped, directive.spec = "f", NEW goal \in MemText
  PROVE  Triple(Parts("blur", "made", {}, goal), <<ft_strdel("mantiss")>>,
                Parts("null", "made", {}, goal))
<1> DEFINE D == Parts("blur", "made", {}, goal)
           A == Renewed(D, {"mantiss"}, "mantiss", "null", <<>>)
           E == Parts("null", "made", {}, goal)
<1>1. IsParts(D, "blur", "made", {}, goal) /\ IsParts(E, "null", "made", {}, goal)
  BY PartsFacts, PartNames
<1>2. D \in Description /\ E \in Description
  BY <1>1, Zenon DEF IsParts
<1>3. "mantiss" \in Pointers /\ "decimal" \in Pointers /\ "fract" \in Pointers
  BY PartNames
<1> HIDE DEF D, E
<1>4. Moves(ft_strdel("mantiss"), D, A) /\ Renews(D, A, {"mantiss"}, "mantiss", "null", <<>>)
  <2>1. Owns(D, "mantiss") /\ Unseen(D)
    BY <1>1, <1>3 DEF Owns, Unseen, IsParts
  <2> QED
    BY <1>2, <1>3, <2>1, DelMoves
<1>5. A \in Description
  BY <1>4, Zenon DEF Renews
<1> HIDE DEF A
<1>6. /\ A.mode["mantiss"] = "null"
      /\ A.mode["decimal"] = "made" /\ A.text["decimal"] = value.decimal
      /\ A.mode["fract"] = "made" /\ A.text["fract"] = value.fract
      /\ (\A q \in Pointers \ {"mantiss", "decimal", "fract"} : ~Owns(A, q))
      /\ A.lost = {} /\ A.goal = goal /\ ~A.printed
  BY <1>1, <1>3, <1>4 DEF Renews, IsParts, Owns
<1>7. Weaker(A, E)
  BY <1>1, <1>5, <1>6, WeakerParts
<1>8. Moves(ft_strdel("mantiss"), D, E)
  BY <1>4, <1>7, MovesWeaker
<1>9. Triple(D, <<ft_strdel("mantiss")>>, E)
  BY <1>2, <1>8, OneTriple
<1> QED
  BY <1>9 DEF D, E

\* The functions that make the parts of a float.
LEMMA PartsTriple ==
  ASSUME MemoryTyped, directive.spec = "f", value.word = <<>>, NEW goal \in MemText
  PROVE  Triple(Nothing({}, goal),
                <<Enter("get_mantissa"), Enter("save_parts"), Enter("fract_length"),
                  ft_strdel("mantiss"),
                  Enter("ft_fround")>>,
                Parts("null", "own", Leaves, goal))
<1> DEFINE D == Nothing({}, goal)
           A == Only("mantiss", "blur", <<>>, {}, goal)
           B == Parts("blur", "made", {}, goal)
           C == Parts("null", "made", {}, goal)
           E == Parts("null", "own", Leaves, goal)
<1>1. D \in Description /\ A \in Description /\ IsOnly(A, "mantiss", "blur", <<>>, {}, goal)
  BY BlurFacts DEF Blur
<1>2. /\ IsParts(B, "blur", "made", {}, goal) /\ IsParts(C, "null", "made", {}, goal)
      /\ IsParts(E, "null", "own", Leaves, goal)
  BY PartsFacts, PartNames
<1>3. B \in Description /\ C \in Description /\ E \in Description
  BY <1>2, Zenon DEF IsParts
<1>4. /\ FloatContract("get_mantissa", D, A) /\ FloatContract("save_parts", A, B)
      /\ FloatContract("fract_length", B, B) /\ FloatContract("ft_fround", C, E)
  <2>1. FloatContract("get_mantissa", D, A)
    BY Zenon DEF FloatContract
  <2>2. FloatContract("save_parts", A, B)
    BY Zenon DEF FloatContract
  <2>3. FloatContract("fract_length", B, B)
    BY Zenon DEF FloatContract
  <2>4. FloatContract("ft_fround", C, E)
    BY Zenon DEF FloatContract
  <2> QED
    BY <2>1, <2>2, <2>3, <2>4
<1>5. Triple(B, <<ft_strdel("mantiss")>>, C)
  BY MantissaDel
<1> HIDE DEF D, A, B, C, E
<1>6. ReadsOf("get_mantissa") = {} /\ ReadsOf("save_parts") = {"mantiss"}
      /\ ReadsOf("fract_length") = {"fract"}
      /\ ReadsOf("ft_fround") = {"fract"}
  BY DEF ReadsOf
<1>7. /\ Owns(A, "mantiss") /\ Owns(B, "fract") /\ Owns(C, "fract") /\ "mantiss" \in Pointers
      /\ "fract" \in Pointers
  BY <1>1, <1>2, PartNames DEF IsOnly, IsParts, Owns
<1>8. Triple(D, <<Enter("get_mantissa")>>, A)
  BY <1>1, <1>4, <1>6, FloatEnter
<1>9. Triple(A, <<Enter("save_parts")>>, B)
  BY <1>1, <1>3, <1>4, <1>6, <1>7, FloatEnter
<1>10. Triple(B, <<Enter("fract_length")>>, B)
  BY <1>3, <1>4, <1>6, <1>7, FloatEnter
<1>11. Triple(C, <<Enter("ft_fround")>>, E)
  BY <1>3, <1>4, <1>6, <1>7, FloatEnter
<1>12. Triple(B, <<ft_strdel("mantiss"), Enter("ft_fround")>>, E)
  <2>1. Triple(B, <<ft_strdel("mantiss")>> \o <<Enter("ft_fround")>>, E)
    BY <1>3, <1>5, <1>11, JoinTriple
  <2> QED
    BY <2>1, TwoCalls, Zenon
<1>13. Triple(B, <<Enter("fract_length"), ft_strdel("mantiss"), Enter("ft_fround")>>, E)
  <2>1. Triple(B, <<Enter("fract_length")>> \o <<ft_strdel("mantiss"), Enter("ft_fround")>>, E)
    BY <1>3, <1>10, <1>12, JoinTriple
  <2> QED
    BY <2>1, ThreeCalls, Zenon
<1>14. Triple(A, <<Enter("save_parts"), Enter("fract_length"), ft_strdel("mantiss"),
                   Enter("ft_fround")>>, E)
  <2>1. Triple(A, <<Enter("save_parts")>> \o <<Enter("fract_length"), ft_strdel("mantiss"),
                                               Enter("ft_fround")>>, E)
    BY <1>1, <1>3, <1>9, <1>13, JoinTriple
  <2> QED
    BY <2>1, FourCalls, Zenon
<1>15. Triple(D, <<Enter("get_mantissa"), Enter("save_parts"), Enter("fract_length"),
                   ft_strdel("mantiss"),
                   Enter("ft_fround")>>, E)
  <2>1. Triple(D, <<Enter("get_mantissa")>>
                    \o <<Enter("save_parts"), Enter("fract_length"), ft_strdel("mantiss"),
                         Enter("ft_fround")>>, E)
    BY <1>1, <1>3, <1>8, <1>14, JoinTriple
  <2> QED
    BY <2>1, FiveCalls, Zenon
<1> QED
  BY <1>15 DEF D, E

\* ft_print_f.
LEMMA FloatTriple ==
  ASSUME MemoryTyped, directive.spec = "f"
  PROVE  /\ value.word # <<>> => Triple(FloatStart(Promised), CallsF, Over({}, Promised))
         /\ value.word = <<>> => Triple(Nothing({}, Promised), CallsF, Over(Leaves, Promised))
<1> DEFINE goal == Promised
           first == IF value.word # <<>> THEN <<ft_strdup("mantiss", value.word)>>
                    ELSE <<Enter("get_mantissa"), Enter("save_parts"), Enter("fract_length"),
                           ft_strdel("mantiss"),
                           Enter("ft_fround")>>
<1>1. goal \in MemText /\ FloatText \in MemText /\ value.word \in MemText
  BY FloatPromise, FloatPartsText
<1>2. CallsF = first \o JoinCalls
  BY Zenon DEF CallsF, JoinCalls
<1>3. ASSUME NEW lost \in SUBSET Pointers
      PROVE  Over(lost, goal) \in Description
  BY <1>1, OverFacts
<1>4. CASE value.word # <<>>
  <2> DEFINE D == FloatStart(goal)
             A == Renewed(D, {}, "mantiss", "made", value.word)
             W == Word(goal)
             E == Over({}, goal)
  <2>1. Clear(D, goal) /\ D.mode["mantiss"] = "any"
        /\ Clear(W, goal) /\ W.mode["mantiss"] = "made" /\ W.text["mantiss"] = value.word
    BY <1>1, StartClear
  <2>2. D \in Description /\ W \in Description /\ E \in Description /\ "mantiss" \in Pointers
    BY <1>3, <2>1, PartNames DEF Clear
  <2>3. JoinContract(W, Only("mantiss", "made", FloatText, {}, goal))
    BY <1>1, <1>4, Zenon DEF JoinContract
  <2>4. Triple(W, JoinCalls, E)
    BY <2>2, <2>3, PartNames, JoinCallsTriple
  <2> HIDE DEF D, W, E
  <2>5. /\ Moves(ft_strdup("mantiss", value.word), D, A)
        /\ Renews(D, A, {}, "mantiss", "made", value.word)
    <3>1. ~Owns(D, "mantiss")
      BY <2>1 DEF Owns
    <3> QED
      BY <1>1, <2>2, <3>1, DupMoves
  <2> HIDE DEF A
  <2>6. Weaker(A, W)
    <3>1. /\ A.mode["mantiss"] = "made" /\ A.text["mantiss"] = value.word
          /\ \A q \in Pointers \ {"mantiss"} : A.mode[q] = W.mode[q] /\ ~Knows(W, q)
      BY <2>1, <2>5 DEF Renews, Clear, Knows
    <3>2. A.printed = FALSE /\ W.printed = FALSE
      BY <2>1, <2>2, <2>5 DEF Renews, Clear, Description
    <3>3. A.lost = {} /\ W.lost = {} /\ A.goal = W.goal
      BY <2>1, <2>5 DEF Renews, Clear
    <3> QED
      BY <2>1, <3>1, <3>2, <3>3 DEF Weaker
  <2>7. Moves(ft_strdup("mantiss", value.word), D, W)
    BY <2>5, <2>6, MovesWeaker
  <2>8. Triple(D, <<ft_strdup("mantiss", value.word)>> \o JoinCalls, E)
    BY <2>2, <2>4, <2>7, MoreTriple
  <2>9. CallsF = <<ft_strdup("mantiss", value.word)>> \o JoinCalls
    BY <1>2, <1>4, Zenon
  <2>10. Triple(D, CallsF, E)
    BY <2>8, <2>9, Zenon
  <2> QED
    BY <1>4, <2>10 DEF D, E
<1>5. CASE value.word = <<>>
  <2> DEFINE D == Nothing({}, goal)
             A == Parts("null", "own", Leaves, goal)
             E == Over(Leaves, goal)
             parts == <<Enter("get_mantissa"), Enter("save_parts"), Enter("fract_length"),
                        ft_strdel("mantiss"),
                        Enter("ft_fround")>>
  <2>1. Triple(D, parts, A)
    BY <1>1, <1>5, PartsTriple
  <2>2. IsParts(A, "null", "own", Leaves, goal)
    BY <1>1, PartsFacts, PartNames
  <2>3. D \in Description /\ A \in Description /\ E \in Description
    BY <1>1, <1>3, <2>2, BlurFacts, PartNames DEF IsParts
  <2>4. JoinContract(A, Only("mantiss", "made", FloatText, Leaves, goal))
    BY <1>1, <1>5, Zenon DEF JoinContract
  <2>5. Triple(A, JoinCalls, E)
    BY <2>3, <2>4, PartNames, JoinCallsTriple
  <2>6. CallsF = parts \o JoinCalls
    BY <1>2, <1>5, Zenon
  <2> HIDE DEF D, A, E, parts
  <2>7. Triple(D, parts \o JoinCalls, E)
    BY <2>1, <2>3, <2>5, JoinTriple
  <2>8. Triple(D, CallsF, E)
    BY <2>6, <2>7, Zenon
  <2> QED
    BY <1>5, <2>8 DEF D, E
<1> QED
  BY <1>4, <1>5

-----------------------------------------------------------------------------
\* Characters that are no specifiers

\* Freeing what has been printed.
LEMMA DelLast ==
  ASSUME NEW D \in Description, Owns(D, "result"), Unseen(D),
         \A q \in Pointers : q # "result" => ~Owns(D, q),
         D.printed, NEW lost \in SUBSET Pointers, NEW goal \in MemText, D.lost = lost, D.goal = goal
  PROVE  Triple(D, <<ft_strdel("result")>>, Over(lost, goal))
<1> DEFINE B == Renewed(D, {"result"}, "result", "null", <<>>)
           E == Over(lost, goal)
<1>1. "result" \in Pointers
  BY PartNames
<1>2. /\ E \in Description /\ E.lost = lost /\ E.goal = goal /\ E.printed
      /\ \A q \in Pointers : E.mode[q] = "any"
  BY OverFacts
<1>3. Moves(ft_strdel("result"), D, B) /\ Renews(D, B, {"result"}, "result", "null", <<>>)
  BY <1>1, DelMoves
<1> HIDE DEF B, E
<1>4. Weaker(B, E)
  <2>1. \A q \in Pointers : ~Owns(B, q)
    BY <1>1, <1>3 DEF Renews, Owns
  <2>2. B.lost = lost /\ B.goal = goal /\ B.printed = D.printed
    BY <1>3 DEF Renews
  <2>3. D.printed = TRUE /\ E.printed = TRUE
    BY <1>2 DEF Description
  <2> QED
    BY <1>2, <2>1, <2>2, <2>3 DEF Weaker
<1>5. Moves(ft_strdel("result"), D, E)
  BY <1>3, <1>4, MovesWeaker
<1>6. Triple(D, <<ft_strdel("result")>>, E)
  BY <1>2, <1>5, OneTriple
<1> QED
  BY <1>6 DEF E

\* Writing the result.
LEMMA PutResult ==
  ASSUME NEW D \in Description, Knows(D, "result"), D.text["result"] = D.goal, ~D.printed
  PROVE  \E A \in Description : /\ Triple(D, <<ft_putstr("result")>>,
                                          A) /\ A.mode = D.mode /\ A.lost = D.lost
                                /\ A.goal = D.goal /\ A.printed
<1> DEFINE A == [D EXCEPT !.printed = TRUE]
<1>1. "result" \in Pointers
  BY PartNames
<1>2. Moves(ft_putstr("result"), D, A) /\ A \in Description
  BY <1>1, PutMoves
<1>3. A.mode = D.mode /\ A.lost = D.lost /\ A.goal = D.goal /\ A.printed
  BY DEF Description
<1> HIDE DEF A
<1>4. Triple(D, <<ft_putstr("result")>>, A)
  BY <1>2, OneTriple
<1> QED
  BY <1>2, <1>3, <1>4

\* Without a width the character is written as it is.
LEMMA CharPlain ==
  ASSUME NEW goal \in MemText
  PROVE  Triple(Nothing({}, goal), (<<ft_strdup("result", goal)>> \o <<ft_putstr("result")>>) \o <<ft_strdel("result")>>,
                Over({}, goal))
<1> DEFINE N == Nothing({}, goal)
           T == Only("result", "made", goal, {}, goal)
           O == Over({}, goal)
<1>1. IsOnly(T, "result", "made", goal, {}, goal) /\ T \in Description
  BY PartNames, ResultIn
<1>2. N \in Description /\ O \in Description
  BY NothingFacts, OverFacts, PartNames
<1>3. Triple(N, <<ft_strdup("result", goal)>>, T)
  BY FirstDup
<1> HIDE DEF N, T
<1>4. PICK A \in Description : /\ Triple(T, <<ft_putstr("result")>>, A) /\ A.mode = T.mode
                               /\ A.lost = {}
                               /\ A.goal = goal /\ A.printed
  <2>1. /\ Knows(T, "result") /\ T.text["result"] = T.goal /\ ~T.printed /\ T.lost = {}
        /\ T.goal = goal
    BY <1>1 DEF IsOnly, Knows
  <2> QED
    BY <1>1, <2>1, PutResult
<1>5. Owns(A, "result") /\ Unseen(A) /\ \A q \in Pointers : q # "result" => ~Owns(A, q)
  BY <1>1, <1>4 DEF IsOnly, Owns, Unseen
<1>6. Triple(A, <<ft_strdel("result")>>, O)
  BY <1>4, <1>5, PartNames, DelLast
<1> HIDE DEF O
<1>7. Triple(N, <<ft_strdup("result", goal)>> \o <<ft_putstr("result")>>, A)
  BY <1>1, <1>2, <1>3, <1>4, JoinTriple
<1>8. Triple(N, (<<ft_strdup("result", goal)>> \o <<ft_putstr("result")>>) \o <<ft_strdel("result")>>, O)
  BY <1>2, <1>4, <1>6, <1>7, JoinTriple
<1> QED
  BY <1>8 DEF N, O

\* With a width the padded string is written before the old one is freed.
LEMMA CharPadded ==
  ASSUME NEW goal \in MemText, NEW t \in MemText, NEW n, NEW ch, NEW side,
         goal = padd(t, n, ch, side)
  PROVE  Triple(Nothing({}, goal),
                (<<ft_strdup("result", t)>>
                   \o Replace("result", <<Padded("result", "result", 0, n, ch, side),
                                          ft_putstr("result")>>))
                   \o <<ft_strdel("result")>>,
                Over({}, goal))
<1> DEFINE N == Nothing({}, goal)
           T == Only("result", "made", t, {}, goal)
           O == Over({}, goal)
           A == Moved(T, "tmp", "result")
           P == Renewed(A, {}, "result", "made", goal)
           pad == Padded("result", "result", 0, n, ch, side)
           put == ft_putstr("result")
<1>1. IsOnly(T, "result", "made", t, {}, goal) /\ T \in Description
  BY PartNames, ResultIn
<1>2. N \in Description /\ O \in Description
  BY NothingFacts, OverFacts, PartNames
<1>3. Triple(N, <<ft_strdup("result", t)>>, T)
  BY FirstDup
<1>4. "tmp" \in Pointers /\ "result" \in Pointers /\ "tmp" # "result"
  BY PartNames
<1> HIDE DEF N, T
<1>5. Shifts(T, A, "tmp", "result")
  BY <1>1, <1>4, MovedFacts, Zenon
<1>6. A \in Description
  BY <1>5, Zenon DEF Shifts
<1>7. /\ A.mode["tmp"] = "own" /\ A.mode["result"] = "see" /\ A.text["result"] = t
      /\ (\A q \in Pointers \ {"tmp", "result"} : A.mode[q] = "any") /\ A.lost = {} /\ A.goal = goal
      /\ ~A.printed
  BY <1>1, <1>4, <1>5 DEF Shifts, IsOnly
<1>8. Moves(pad, A, P) /\ Renews(A, P, {}, "result", "made", goal)
  <2>1. Knows(A, "result") /\ ~Owns(A, "result")
    BY <1>7 DEF Knows, Owns
  <2>2. SubSeq(t, 0 + 1, Len(t)) = t
    <3>1. SubSeq(t, 1, Len(t)) = t
      BY TextParts
    <3> QED
      BY <3>1
  <2>3. goal = padd(SubSeq(A.text["result"], 0 + 1, Len(A.text["result"])), n, ch, side)
    BY <1>7, <2>2, Zenon
  <2> HIDE DEF A
  <2> QED
    BY <1>4, <1>6, <2>1, <2>3, PaddMoves
<1>9. P \in Description
  BY <1>8, Zenon DEF Renews
<1>10. Triple(A, <<pad>>, P)
  <2> HIDE DEF A, P, pad
  <2> QED
    BY <1>6, <1>8, <1>9, OneTriple
<1> HIDE DEF P
<1>11. /\ P.mode["tmp"] = "own" /\ P.mode["result"] = "made" /\ P.text["result"] = goal
       /\ (\A q \in Pointers \ {"tmp", "result"} : P.mode[q] = "any") /\ P.lost = {}
       /\ P.goal = goal /\ ~P.printed
  BY <1>4, <1>7, <1>8 DEF Renews
<1>12. PICK M \in Description : /\ Triple(P, <<put>>, M) /\ M.mode = P.mode /\ M.lost = {}
                                /\ M.goal = goal /\ M.printed
  <2>1. Knows(P, "result") /\ P.text["result"] = P.goal
    BY <1>11 DEF Knows
  <2> QED
    BY <1>9, <1>11, <2>1, PutResult
<1>13. Triple(A, <<pad, put>>, M)
  <2>1. Triple(A, <<pad>> \o <<put>>, M)
    BY <1>6, <1>9, <1>10, <1>12, JoinTriple
  <2> QED
    BY <2>1, TwoCalls, Zenon
<1> DEFINE E == Renewed(M, {"tmp"}, "tmp", "null", <<>>)
<1>14. Triple(T, Replace("result", <<pad, put>>), E) /\ Renews(M, E, {"tmp"}, "tmp", "null", <<>>)
  <2>1. T.mode["result"] \in {"own", "made"} /\ T.mode["tmp"] = "any"
    BY <1>1, <1>4 DEF IsOnly
  <2>2. M.mode["tmp"] = "own" /\ Unseen(M)
    BY <1>4, <1>11, <1>12 DEF Unseen
  <2> HIDE DEF pad, put
  <2> QED
    BY <1>1, <1>4, <1>13, <2>1, <2>2, ReplaceTriple DEF A
<1>15. E \in Description
  BY <1>14, Zenon DEF Renews
<1> HIDE DEF E, A, pad, put
<1>16. Triple(E, <<ft_strdel("result")>>, O)
  <2>1. /\ Owns(E, "result") /\ Unseen(E) /\ (\A q \in Pointers : q # "result" => ~Owns(E, q))
    BY <1>4, <1>11, <1>12, <1>14 DEF Renews, Owns, Unseen
  <2>2. E.lost = {} /\ E.goal = goal /\ E.printed
    BY <1>12, <1>14 DEF Renews
  <2> QED
    BY <1>15, <2>1, <2>2, PartNames, DelLast
<1> HIDE DEF O
<1>17. Triple(N, <<ft_strdup("result", t)>> \o Replace("result", <<pad, put>>), E)
  BY <1>1, <1>2, <1>3, <1>14, <1>15, JoinTriple
<1>18. Triple(N, (<<ft_strdup("result", t)>> \o Replace("result",
                                                        <<pad, put>>)) \o <<ft_strdel("result")>>, O)
  BY <1>2, <1>15, <1>16, <1>17, JoinTriple
<1> QED
  BY <1>18 DEF N, O, pad, put

\* non_spec_char.
LEMMA CharTriple ==
  ASSUME MemoryTyped, directive.spec \notin Formatted
  PROVE  Promised \in MemText /\ Triple(Nothing({}, Promised), non_spec_char, Over({}, Promised))
<1> DEFINE t == <<directive.spec>>
           ch == IF "ZERO" \in directive.flag THEN "0" ELSE " "
           n == directive.width - 1
           goal == padd(t, n, ch, Side)
<1>1. t \in MemText /\ n \in Int /\ directive.width \in Int /\ ch \in MemChar
  <2>1. directive.spec \in STRING /\ directive.width \in Int
    BY ConversionFacts
  <2>2. "0" \in MemChar /\ " " \in MemChar
    BY OwnMemChars
  <2>3. directive.spec \in MemChar
    BY <2>1 DEF MemChar
  <2>4. t \in MemText
    BY <2>3 DEF MemText
  <2>5. ch \in MemChar
    BY <2>2
  <2>6. n \in Int
    BY <2>1
  <2> QED
    BY <2>1, <2>4, <2>5, <2>6
<1>2. Promised = goal
  <2>1. Promised = ft_print_c(directive, directive.spec)
    BY SpecCases DEF Formatted
  <2>2. Side = IF "MINUS" \in directive.flag THEN "R" ELSE "L"
    BY Zenon DEF Side
  <2>3. ch = IF "ZERO" \in directive.flag THEN "0" ELSE Blank
    BY DEF Blank
  <2> QED
    BY <2>1, <2>2, <2>3, Zenon DEF ft_print_c
<1> DEFINE first == <<ft_strdup("result", t)>>
           last == <<ft_strdel("result")>>
<1>3. non_spec_char = (first \o (IF directive.width <= 0 THEN <<ft_putstr("result")>>
                                 ELSE Replace("result", <<Padded("result", "result", 0, n, ch,
                                                                 Side), ft_putstr("result")>>)))
                        \o last
  BY Zenon DEF non_spec_char
<1> HIDE DEF t, ch
<1>4. goal \in MemText /\ (n <= 0 => goal = t)
  BY <1>1, PaddedText
<1>5. CASE directive.width <= 0
  <2>1. n <= 0
    BY <1>1, <1>5
  <2>2. Triple(Nothing({}, t), (<<ft_strdup("result", t)>> \o <<ft_putstr("result")>>) \o <<ft_strdel("result")>>, Over({}, t))
    BY <1>1, CharPlain
  <2>3. non_spec_char = (first \o <<ft_putstr("result")>>) \o last
    BY <1>3, <1>5, Zenon
  <2>4. t = Promised
    BY <1>2, <1>4, <2>1, Zenon
  <2> QED
    BY <1>1, <2>2, <2>3, <2>4, Zenon
<1>6. CASE ~(directive.width <= 0)
  <2> HIDE DEF goal, n
  <2>1. Triple(Nothing({}, goal), (<<ft_strdup("result", t)>>
                   \o Replace("result", <<Padded("result", "result", 0, n, ch, Side),
                                          ft_putstr("result")>>))
                   \o <<ft_strdel("result")>>, Over({}, goal))
    <3>1. goal = padd(t, n, ch, Side)
      BY Zenon DEF goal
    <3> QED
      BY <1>1, <1>4, <3>1, CharPadded
  <2>2. non_spec_char = (first \o Replace("result", <<Padded("result", "result", 0, n, ch, Side),
                                                      ft_putstr("result")>>)) \o last
    BY <1>3, <1>6, Zenon
  <2> QED
    BY <1>2, <1>4, <2>1, <2>2, Zenon
<1> QED
  BY <1>5, <1>6, Zenon

-----------------------------------------------------------------------------
\* ft_print_s until it has a string
NullCalls == <<Enter("null_string")>> \o StringCalls

\* The calls of ft_print_s.
StringOps ==
  {ft_strdup("result", value), Enter("null_string"), Enter("ft_precision"), Enter("ft_width"),
   ft_putstr("result"), ft_strdel("result")}

\* One call in front of others.
LEMMA FirstCall ==
  ASSUME NEW S, NEW c \in S, NEW s \in Seq(S)
  PROVE  <<c>> \o s # <<>> /\ Head(<<c>> \o s) = c /\ Tail(<<c>> \o s) = s
<1> DEFINE t == <<c>> \o s
           u == Tail(t)
<1>1. t \in Seq(S) /\ Len(t) = Len(s) + 1 /\ t[1] = c /\ Len(s) \in Nat
  BY ConcatProperties
<1>2. \A k \in 1 .. Len(s) : t[k + 1] = s[k]
  <2>1. \A k \in 1 .. Len(<<c>>) + Len(s) : t[k] = IF k <= Len(<<c>>) THEN <<c>>[k] ELSE s[k - Len(<<c>>)]
    BY ConcatProperties
  <2>2. Len(<<c>>) = 1
    OBVIOUS
  <2> HIDE DEF t
  <2> QED
    BY <1>1, <2>1, <2>2, SMTT(30)
<1> HIDE DEF t
<1>3. t # <<>>
  BY <1>1
<1>4. Head(t) = c
  BY <1>1, <1>3
<1>5. u \in Seq(S) /\ Len(u) = Len(s) /\ \A k \in 1 .. Len(s) : u[k] = t[k + 1]
  BY <1>1, <1>3
<1> HIDE DEF u
<1>6. u = s
  BY <1>1, <1>2, <1>5, SeqEqual
<1> QED
  BY <1>3, <1>4, <1>6 DEF t, u

\* What ft_print_s calls.
LEMMA StringCallsAre ==
  /\ StringCalls \in Seq(StringOps) /\ NullCalls \in Seq(StringOps)
  /\ CallsS = IF value # NoString THEN <<ft_strdup("result", value)>> \o NullCalls ELSE NullCalls
<1> DEFINE A == When(value # NoString, <<ft_strdup("result", value)>>)
           B == <<Enter("null_string")>>
           C == When(~Bare, <<Enter("ft_precision"), Enter("ft_width")>>)
           D == <<ft_putstr("result"), ft_strdel("result")>>
           S == StringOps
<1>1. A \in Seq(S) /\ B \in Seq(S) /\ C \in Seq(S) /\ D \in Seq(S)
  <2>1. \A x, y \in S : <<x>> \in Seq(S) /\ <<x, y>> \in Seq(S) /\ <<>> \in Seq(S)
    OBVIOUS
  <2>2. /\ ft_strdup("result", value) \in S /\ Enter("null_string") \in S
        /\ Enter("ft_precision") \in S
        /\ Enter("ft_width") \in S /\ ft_putstr("result") \in S /\ ft_strdel("result") \in S
    BY Zenon DEF StringOps
  <2> HIDE DEF S
  <2> QED
    BY <2>1, <2>2, Zenon DEF When
<1>2. StringCalls = C \o D /\ NullCalls = B \o (C \o D) /\ CallsS = ((A \o B) \o C) \o D
  BY Zenon DEF StringCalls, NullCalls, CallsS
<1>3. A = IF value # NoString THEN <<ft_strdup("result", value)>> ELSE <<>>
  BY Zenon DEF When
<1> HIDE DEF A, B, C, D, S
<1>4. C \o D \in Seq(S)
  BY <1>1, ConcatProperties
<1>5. B \o (C \o D) \in Seq(S) /\ A \o B \in Seq(S)
  BY <1>1, <1>4, ConcatProperties, SMTT(30)
<1>6. ((A \o B) \o C) \o D = (A \o B) \o (C \o D)
  BY <1>1, <1>5, ConcatAssociative, SMTT(30)
<1>7. (A \o B) \o (C \o D) = A \o (B \o (C \o D))
  BY <1>1, <1>4, ConcatAssociative, SMTT(30)
<1>8. CallsS = A \o NullCalls
  BY <1>2, <1>6, <1>7, Zenon
<1>9. <<>> \o NullCalls = NullCalls
  BY <1>2, <1>5, ConcatEmptySeq
<1>10. CallsS = IF value # NoString THEN <<ft_strdup("result", value)>> \o NullCalls ELSE NullCalls
  BY <1>3, <1>8, <1>9, Zenon
<1> QED
  BY <1>2, <1>4, <1>5, <1>10 DEF S

\* The text for no string.
LEMMA NullIsText == Null \in MemText
BY DEF Null, MemText, MemChar, Letters

\* A string is a text.
LEMMA GivenText ==
  ASSUME MemoryTyped, directive.spec = "s"
  PROVE  value \in MemText
<1>1. value \in Seq(STRING)
  BY ConversionFacts
<1>2. \A k \in 1 .. Len(value) : value[k] \in MemChar
  BY <1>1 DEF MemChar
<1> QED
  BY <1>1, <1>2 DEF MemText

\* ft_print_s with the text for no string.
LEMMA NullTriple ==
  ASSUME MemoryTyped, directive.spec = "s"
  PROVE  /\ NullText \in MemText
         /\ Triple(Nothing({}, NullText), <<ft_strdup("result", Null)>> \o StringCalls,
                   Over({}, NullText))
<1> DEFINE N == Nothing({}, NullText)
           T == Only("result", "made", Null, {}, NullText)
           O == Over({}, NullText)
<1>1. Null \in MemText /\ NullText = ft_print_s(directive, Null) /\ CutLoses(Null) = {}
  <2>1. CutLoses(Null) = {}
    BY DEF CutLoses, Null
  <2> QED
    BY <2>1, NullIsText DEF NullText
<1>2. NullText \in MemText /\ Triple(T, StringCalls, O)
  BY <1>1, StringTriple, Zenon
<1>3. Triple(N, <<ft_strdup("result", Null)>>, T)
  BY <1>1, <1>2, FirstDup
<1>4. N \in Description /\ T \in Description /\ O \in Description
  BY <1>1, <1>2, NothingFacts, ResultIn, OverFacts, PartNames
<1> HIDE DEF N, T, O
<1>5. Triple(N, <<ft_strdup("result", Null)>> \o StringCalls, O)
  BY <1>2, <1>3, <1>4, JoinTriple
<1> QED
  BY <1>2, <1>5 DEF N, O

-----------------------------------------------------------------------------
(***************************************************************************)
(* The invariant.  While the program runs the memory is as a description   *)
(* says, and the calls to come lead from it to the one of a memory in      *)
(* which everything is printed and nothing but lost is left.               *)
(***************************************************************************)
LostFits(lost) ==
  \/ failed
  \/ IF directive.spec = "s" /\ directive.precision = 0 /\ value = <<>> THEN lost = {"result"}
     ELSE IF directive.spec = "f" /\ value.word = <<>> THEN lost \subseteq Leaves
     ELSE lost = {}
Going(E) == \E D \in Description : Fits(D) /\ \E calls : Triple(D, calls, E) /\ calls = todo
Running == \E lost \in SUBSET Pointers, goal \in MemText : LostFits(lost) /\ Going(Over(lost, goal))
\* null_string looks at the result: what is printed is known after it only.
Copied(D) == Weaker(D, IF value = NoString THEN Only("result", "null", <<>>, {}, Promised)
                       ELSE Only("result", "made", value, {}, Promised))
Copying ==
  \/ value # NoString /\ todo = <<ft_strdup("result", value)>> \o NullCalls /\ Fits(Nothing({},
                                                                                            Promised))
  \/ todo = NullCalls /\ \E D \in Description : Fits(D) /\ Copied(D)
AllPrinted == \E lost \in SUBSET Pointers, goal \in MemText : LostFits(lost) /\ Fits(Over(lost, goal))
TextRight == written \in {<<>>, Promised} \/ (failed /\ directive.spec = "s" /\ written = NullText)

MemoryInv ==
  /\ MemoryTyped /\ end \in {"", "done", "fault"} /\ (end = "fault" => failed) /\ TextRight
  /\ end = "" => Running \/ (directive.spec = "s" /\ Copying)
  /\ end = "done" => AllPrinted

\* What is written is right as long as a description is.
LEMMA FitsText ==
  ASSUME NEW D
  PROVE  (Fits(D) => TextRight) /\ (Fits(D)' => TextRight')
BY DEF Fits, OutFits, GoalFits, TextRight

\* Before anything is called a description is right that asks for no block.
LEMMA StartFits ==
  ASSUME MemoryInit, NEW D \in Description, D.lost = {}, D.goal = Promised, ~D.printed,
         \A p \in Pointers : D.mode[p] = "any" \/ (D.mode[p] = "null" /\ p \in {"result", "decimal",
                                                                                "fract"})
  PROVE  Fits(D)
<1>1. \A p \in {"result", "decimal", "fract"} : IsNull(p)
  BY DEF MemoryInit, Pointers, IsNull
<1>2. DOMAIN heap = {} /\ written = <<>> /\ failed = FALSE
  BY DEF MemoryInit
<1>3. \A p \in Pointers : ~Owns(D, p) /\ ~Knows(D, p)
  BY DEF Owns, Knows
<1>4. \A p \in Pointers : PointerFits(D, p)
  BY <1>1, <1>3 DEF PointerFits
<1>5. Apart(D)
  BY <1>3 DEF Apart
<1>6. Accounted(D)
  BY <1>2 DEF Accounted
<1>7. OutFits(D) /\ GoalFits(D)
  BY <1>2 DEF OutFits, GoalFits
<1> QED
  BY <1>4, <1>5, <1>6, <1>7 DEF Fits

\* The types hold when the conversion starts.
LEMMA StartTyped ==
  ASSUME MemoryInit
  PROVE  MemoryTyped
<1>1. ptr \in [Pointers -> Int]
  <2>1. ptr = [p \in Pointers |-> IF p \in {"result", "decimal", "fract"} THEN NULL ELSE Wild]
    BY DEF MemoryInit
  <2>2. NULL \in Int /\ Wild \in Int
    BY DEF NULL, Wild
  <2> QED
    BY <2>1, <2>2
<1>2. DOMAIN heap = {} /\ blocks = 0 /\ failed = FALSE /\ heap = [b \in {} |-> NULL]
  BY DEF MemoryInit
<1>3. heap \in [DOMAIN heap -> Block]
  BY <1>2
<1>4. \E c \in Conversion : directive = c[1] /\ value = c[2]
  BY DEF MemoryInit
<1> QED
  BY <1>1, <1>2, <1>3, <1>4 DEF MemoryTyped

\* Every printer but that of the strings starts with calls that lead to the end.
LEMMA PrinterStarts ==
  ASSUME MemoryInit, directive.spec # "s"
  PROVE  Running
<1>1. MemoryTyped
  BY StartTyped
<1>2. todo = Printer
  BY DEF MemoryInit
<1>3. ASSUME NEW goal \in MemText, goal = Promised
      PROVE  Nothing({}, goal) \in Description /\ Fits(Nothing({}, goal))
  <2> DEFINE N == Nothing({}, goal)
  <2>1. /\ N \in Description /\ N.lost = {} /\ N.goal = goal /\ ~N.printed
        /\ \A q \in Pointers : N.mode[q] = "any"
    BY NothingFacts
  <2> HIDE DEF N
  <2>2. Fits(N)
    BY <1>3, <2>1, StartFits
  <2> QED
    BY <2>1, <2>2 DEF N
<1>4. ASSUME NEW D \in Description, NEW lost \in SUBSET Pointers, NEW goal \in MemText,
             LostFits(lost), Fits(D), Triple(D, Printer, Over(lost, goal))
      PROVE  Running
  BY <1>2, <1>4, Zenon DEF Running, Going
<1>5. ASSUME directive.spec # "f"
      PROVE  LostFits({})
  BY <1>5 DEF LostFits
<1>6. {} \in SUBSET Pointers /\ Leaves \in SUBSET Pointers
  BY PartNames
<1>7. CASE directive.spec \in SpecsDI
  <2>1. /\ Promised \in MemText /\ Triple(Nothing({}, Promised), Printer, Over({}, Promised))
        /\ directive.spec # "f"
    BY <1>1, <1>7, DTriple, SpecCases, SpecSets, Zenon
  <2> QED
    BY <1>3, <1>4, <1>5, <1>6, <2>1
<1>8. CASE directive.spec \in SpecsPOUBX
  <2>1. /\ Promised \in MemText /\ Triple(Nothing({}, Promised), Printer, Over({}, Promised))
        /\ directive.spec # "f"
    BY <1>1, <1>8, PoubxTriple, SpecCases, SpecSets, Zenon
  <2> QED
    BY <1>3, <1>4, <1>5, <1>6, <2>1
<1>9. CASE directive.spec \notin Formatted
  <2>1. directive.spec \notin SpecsDI \cup SpecsPOUBX \cup {"s", "f"}
    BY <1>9 DEF Formatted
  <2>2. /\ Promised \in MemText /\ Triple(Nothing({}, Promised), Printer, Over({}, Promised))
        /\ directive.spec # "f"
    BY <1>1, <1>9, <2>1, CharTriple, SpecCases DEF Formatted
  <2> QED
    BY <1>3, <1>4, <1>5, <1>6, <2>2
<1>10. CASE directive.spec = "f" /\ value.word = <<>>
  <2>1. Promised \in MemText /\ Triple(Nothing({}, Promised), Printer, Over(Leaves, Promised))
    BY <1>1, <1>10, FloatPromise, FloatTriple, Zenon
  <2>2. LostFits(Leaves)
    BY <1>10 DEF LostFits
  <2> QED
    BY <1>3, <1>4, <1>6, <2>1, <2>2
<1>11. CASE directive.spec = "f" /\ value.word # <<>>
  <2>1. Promised \in MemText /\ Triple(FloatStart(Promised), Printer, Over({}, Promised))
    BY <1>1, <1>11, FloatPromise, FloatTriple, Zenon
  <2>2. LostFits({})
    BY <1>11 DEF LostFits
  <2> DEFINE D == FloatStart(Promised)
  <2>3. Clear(D, Promised) /\ D.mode["mantiss"] = "any"
    BY <1>1, <1>11, <2>1, StartClear
  <2> HIDE DEF D
  <2>4. D \in Description /\ Fits(D)
    <3>1. /\ D \in Description /\ D.lost = {} /\ D.goal = Promised /\ ~D.printed
          /\ \A p \in Pointers : D.mode[p] = "any" \/ (D.mode[p] = "null" /\ p \in {"result",
                                                                                    "decimal", "fract"})
      BY <2>3 DEF Clear
    <3> QED
      BY <3>1, StartFits
  <2> QED
    BY <1>4, <1>6, <2>1, <2>2, <2>4 DEF D
<1> QED
  BY <1>7, <1>8, <1>9, <1>10, <1>11 DEF Formatted

\* The printer of the strings starts before null_string.
LEMMA StringStarts ==
  ASSUME MemoryInit, directive.spec = "s"
  PROVE  Copying
<1>1. MemoryTyped
  BY StartTyped
<1>2. todo = CallsS
  <2>1. Printer = CallsS
    BY SpecCases
  <2> QED
    BY <2>1 DEF MemoryInit
<1>3. Promised \in MemText
  <2>1. Promised = ft_print_s(directive, IF value = NoString THEN Null ELSE value)
    BY SpecCases
  <2>2. (IF value = NoString THEN Null ELSE value) \in MemText
    BY <1>1, NullIsText, GivenText
  <2> QED
    BY <1>1, <2>1, <2>2, StringTriple, Zenon
<1>4. CASE value # NoString
  <2> DEFINE N == Nothing({}, Promised)
  <2>1. /\ N \in Description /\ N.lost = {} /\ N.goal = Promised /\ ~N.printed
        /\ \A q \in Pointers : N.mode[q] = "any"
    <3>1. {} \in SUBSET Pointers
      BY PartNames
    <3> HIDE DEF N
    <3> QED
      BY <1>3, <3>1, NothingFacts DEF N
  <2> HIDE DEF N
  <2>2. Fits(N)
    BY <2>1, StartFits
  <2>3. todo = <<ft_strdup("result", value)>> \o NullCalls
    BY <1>2, <1>4, StringCallsAre, Zenon
  <2> QED
    BY <1>4, <2>2, <2>3 DEF Copying, N
<1>5. CASE value = NoString
  <2> DEFINE D == Only("result", "null", <<>>, {}, Promised)
  <2>1. IsOnly(D, "result", "null", <<>>, {}, Promised)
    <3>1. <<>> \in MemText
      BY DEF MemText
    <3> QED
      BY <1>3, <3>1, PartNames, OnlyFacts, Zenon
  <2>2. Copied(D)
    BY <1>5, WeakerSelf, Zenon DEF Copied
  <2> HIDE DEF D
  <2>3. Fits(D) /\ D \in Description
    <3>1. /\ D \in Description /\ D.lost = {} /\ D.goal = Promised /\ ~D.printed
          /\ \A p \in Pointers : D.mode[p] = "any" \/ (D.mode[p] = "null" /\ p \in {"result",
                                                                                    "decimal", "fract"})
      BY <2>1 DEF IsOnly
    <3> QED
      BY <3>1, StartFits
  <2>4. todo = NullCalls
    BY <1>2, <1>5, StringCallsAre, Zenon
  <2> QED
    BY <2>2, <2>3, <2>4, Zenon DEF Copying
<1> QED
  BY <1>4, <1>5

-----------------------------------------------------------------------------
\* Every step keeps the invariant

\* What stays when directive and value do.
LEMMA LostStill ==
  ASSUME UNCHANGED <<directive, value>>, failed => failed', NEW lost, LostFits(lost)
  PROVE  LostFits(lost)'
BY DEF LostFits

\* What has been promised stays promised.
LEMMA PromiseStill ==
  ASSUME UNCHANGED <<directive, value>>
  PROVE  Promised' = Promised /\ NullText' = NullText
<1>1. directive' = directive /\ value' = value
  OBVIOUS
<1>2. NullText' = NullText
  BY <1>1 DEF NullText
<1>3. FloatText' = FloatText
  BY <1>1, Zenon DEF FloatText
<1>4. Promised' = Promised
  BY <1>1, <1>3, Zenon DEF Promised
<1> QED
  BY <1>2, <1>4

\* A fault keeps the invariant.
LEMMA FaultKeeps ==
  ASSUME MemoryInv, Faults
  PROVE  MemoryInv'
<1>1. end' = "fault" /\ failed' /\ UNCHANGED <<directive, value, todo, ptr, heap, blocks, written>>
  BY DEF Faults
<1>2. MemoryTyped /\ TextRight /\ failed' \in BOOLEAN
  <2>1. failed' = TRUE
    <3>1. MemoryTyped /\ failed \in BOOLEAN
      BY DEF MemoryInv, MemoryTyped
    <3> QED
      BY <1>1
  <2> QED
    BY <2>1 DEF MemoryInv
<1>3. MemoryTyped'
  BY <1>1, <1>2 DEF MemoryTyped, BlockSized
<1>4. TextRight'
  BY <1>1, <1>2, PromiseStill DEF TextRight
<1> QED
  BY <1>1, <1>3, <1>4 DEF MemoryInv

\* A step of calls that go on keeps it.
LEMMA GoingKeeps ==
  ASSUME MemoryInv, NEW lost \in SUBSET Pointers, NEW goal \in MemText, LostFits(lost),
         Proceeds(Over(lost, goal))
  PROVE  MemoryInv'
<1>1. PICK E : E = Over(lost, goal)
  OBVIOUS
<1>2. Proceeds(E)
  BY <1>1
<1>3. MemoryTyped' /\ end' = "" /\ (failed => failed') /\ UNCHANGED <<directive, value>>
  BY <1>2 DEF Proceeds
<1>4. PICK X \in Description : Fits(X)' /\ \E calls : Triple(X, calls, E)' /\ calls = todo'
  BY <1>2 DEF Proceeds
<1>5. Going(E)'
  BY <1>4 DEF Going
<1>6. LostFits(lost)'
  BY <1>3, LostStill
<1>7. Running'
  BY <1>1, <1>5, <1>6 DEF Running
<1>8. TextRight'
  BY <1>4, FitsText
<1> QED
  BY <1>3, <1>7, <1>8 DEF MemoryInv

\* A step of a printer that only has to go on.
LEMMA RunningKeeps ==
  ASSUME MemoryInv, end = "", Running, MemoryNext
  PROVE  MemoryInv'
<1>1. PICK lost \in SUBSET Pointers, goal \in MemText : LostFits(lost) /\ Going(Over(lost, goal))
  BY DEF Running
<1>2. PICK E : E = Over(lost, goal)
  OBVIOUS
<1>3. E \in Description
  BY <1>2, OverFacts
<1>4. PICK D \in Description : Fits(D) /\ Triple(D, todo, E)
  BY <1>1, <1>2 DEF Going
<1>5. MemoryTyped
  BY DEF MemoryInv
<1>6. CASE Proceeds(E)
  BY <1>1, <1>2, <1>6, GoingKeeps
<1>7. CASE Faults
  BY <1>7, FaultKeeps
<1>8. CASE todo = <<>> /\ Stop("done", "")
  <2>1. Fits(E)
    <3>1. Triple(D, <<>>, E)
      BY <1>4, <1>8, Zenon
    <3>2. Weaker(D, E)
      BY <3>1, EndTriple
    <3> QED
      BY <1>3, <1>4, <3>2, WeakerFits
  <2>2. /\ end' = "done" /\ failed' = (failed \/ "" = "no memory")
        /\ UNCHANGED <<directive, value, todo, ptr, heap, blocks, written>>
    BY <1>8, Zenon DEF Stop
  <2>3. failed' = failed
    <3>1. failed \in BOOLEAN
      BY <1>5 DEF MemoryTyped
    <3> QED
      BY <2>2, <3>1
  <2>4. MemoryTyped' /\ Fits(E)'
    BY <1>3, <1>5, <2>1, <2>2, <2>3, SameFits
  <2>5. LostFits(lost)'
    BY <1>1, <2>2, <2>3, LostStill
  <2>6. AllPrinted'
    BY <1>2, <2>4, <2>5 DEF AllPrinted
  <2>7. TextRight'
    BY <2>4, FitsText
  <2> QED
    BY <2>2, <2>4, <2>6, <2>7 DEF MemoryInv
<1> QED
  BY <1>3, <1>4, <1>5, <1>6, <1>7, <1>8, StepProceeds

\* Of nothing but the goal is known.
IsNothing(E, goal) ==
  E \in Description /\ E.lost = {} /\ E.goal = goal /\ ~E.printed /\ \A q \in Pointers : E.mode[q] = "any"

\* Nothing is such a description.
LEMMA NothingKnown ==
  ASSUME NEW goal \in MemText
  PROVE  IsNothing(Nothing({}, goal), goal)
BY PartNames, NothingFacts DEF IsNothing

\* null_string: the copy is there, or there was no string, or no memory.
LEMMA NullStringLeads ==
  ASSUME MemoryTyped, directive.spec = "s", NEW D \in Description, Fits(D), Copied(D)
  PROVE  \E lost \in SUBSET Pointers, goal \in MemText, X \in Description :
           LostFits(lost) /\ Fits(X) /\ Triple(X, NullString \o StringCalls, Over(lost, goal))
<1> DEFINE T == Only("result", "made", value, {}, Promised)
           Z == Only("result", "null", <<>>, {}, Promised)
<1>1. value \in MemText /\ Null \in MemText /\ <<>> \in MemText
  BY GivenText, NullIsText DEF MemText
<1>2. Promised = ft_print_s(directive, IF value = NoString THEN Null ELSE value)
  BY SpecCases
<1>3. Promised \in MemText
  <2>1. (IF value = NoString THEN Null ELSE value) \in MemText
    BY <1>1
  <2> QED
    BY <1>2, <2>1, StringTriple, Zenon
<1>4. /\ IsOnly(T, "result", "made", value, {}, Promised)
      /\ IsOnly(Z, "result", "null", <<>>, {}, Promised)
  BY <1>1, <1>3, PartNames, OnlyFacts, Zenon
<1>5. T \in Description /\ Z \in Description /\ "result" \in Pointers /\ {} \in SUBSET Pointers
  BY <1>4, PartNames DEF IsOnly
<1>6. StringCalls \in Seq(StringOps)
  BY StringCallsAre
<1>7. ASSUME ~IsNull("result")
      PROVE  \E lost \in SUBSET Pointers, goal \in MemText, X \in Description :
               LostFits(lost) /\ Fits(X) /\ Triple(X, NullString \o StringCalls, Over(lost, goal))
  <2>1. value # NoString
    <3>1. SUFFICES ASSUME value = NoString
                   PROVE  FALSE
      OBVIOUS
    <3>2. Weaker(D, Z)
      BY <3>1 DEF Copied
    <3>3. Fits(Z)
      BY <1>5, <3>2, WeakerFits
    <3> HIDE DEF Z
    <3> QED
      BY <1>4, <1>5, <1>7, <3>3 DEF Fits, PointerFits, IsOnly
  <2>2. Weaker(D, T)
    BY <2>1 DEF Copied
  <2>3. Promised = ft_print_s(directive, value)
    BY <1>2, <2>1, Zenon
  <2>4. /\ Triple(T, StringCalls, Over(CutLoses(value), Promised))
        /\ CutLoses(value) \in SUBSET Pointers
    BY <1>1, <2>3, StringTriple, Zenon
  <2>5. Triple(D, StringCalls, Over(CutLoses(value), Promised))
    BY <1>5, <2>2, <2>4, TripleFrom
  <2>6. NullString \o StringCalls = StringCalls
    <3>1. NullString = <<>>
      BY <1>7, Zenon DEF NullString, When, IsNull
    <3>2. <<>> \o StringCalls = StringCalls
      BY <1>6, ConcatEmptySeq
    <3> QED
      BY <3>1, <3>2, Zenon
  <2>7. LostFits(CutLoses(value))
    BY DEF LostFits, CutLoses
  <2>8. Triple(D, NullString \o StringCalls, Over(CutLoses(value), Promised))
    BY <2>5, <2>6, Zenon
  <2> QED
    BY <1>3, <2>4, <2>7, <2>8, Zenon
<1>8. ASSUME IsNull("result")
      PROVE  \E lost \in SUBSET Pointers, goal \in MemText, X \in Description :
               LostFits(lost) /\ Fits(X) /\ Triple(X, NullString \o StringCalls, Over(lost, goal))
  <2> DEFINE N == Nothing({}, NullText)
  <2>1. /\ NullText \in MemText
        /\ Triple(N, <<ft_strdup("result", Null)>> \o StringCalls, Over({}, NullText))
    BY NullTriple
  <2>2. NullString = <<ft_strdup("result", Null)>>
    BY <1>8, Zenon DEF NullString, When, IsNull
  <2>n. IsNothing(N, NullText)
    BY <2>1, NothingKnown, Zenon
  <2> HIDE DEF N
  <2>3. /\ N \in Description /\ N.lost = {} /\ N.goal = NullText /\ ~N.printed
        /\ \A q \in Pointers : N.mode[q] = "any"
    BY <2>n DEF IsNothing
  <2>4. CASE value = NoString
    <3>1. Promised = NullText
      BY <1>2, <2>4, Zenon DEF NullText
    <3>2. Fits(Z)
      BY <1>5, <2>4, WeakerFits, Zenon DEF Copied
    <3> HIDE DEF Z
    <3>3. Weaker(Z, N)
      <4>1. \A q \in Pointers : ~Owns(Z, q)
        BY <1>4 DEF IsOnly, Owns
      <4>2. Z.lost = {} /\ Z.goal = NullText /\ Z.printed = FALSE
        BY <1>4, <3>1 DEF IsOnly, Description
      <4>3. N.printed = FALSE
        BY <2>3 DEF Description
      <4> QED
        BY <2>3, <4>1, <4>2, <4>3 DEF Weaker
    <3>4. Fits(N)
      BY <1>5, <2>3, <3>2, <3>3, WeakerFits
    <3>5. LostFits({})
      <4>1. value # <<>>
        BY <2>4 DEF NoString
      <4> QED
        BY <4>1 DEF LostFits
    <3> QED
      BY <1>5, <2>1, <2>2, <2>3, <3>4, <3>5, Zenon
  <2>5. CASE value # NoString
    <3>1. Fits(T)
      BY <1>5, <2>5, WeakerFits, Zenon DEF Copied
    <3> HIDE DEF T
    <3>2. failed
      BY <1>4, <1>5, <1>8, <3>1 DEF Fits, PointerFits, IsOnly, Owns
    <3>3. written = <<>>
      BY <1>4, <3>1 DEF Fits, OutFits, IsOnly
    <3>4. Fits(N)
      <4>1. \A q \in Pointers : PointerFits(N, q) /\ ~Owns(N, q)
        BY <2>3 DEF PointerFits, Owns, Knows
      <4>2. Apart(N)
        BY <4>1 DEF Apart
      <4>3. OutFits(N) /\ GoalFits(N)
        BY <2>3, <3>2, <3>3 DEF OutFits, GoalFits
      <4> QED
        BY <3>2, <4>1, <4>2, <4>3 DEF Fits
    <3>5. LostFits({})
      BY <3>2 DEF LostFits
    <3> QED
      BY <1>5, <2>1, <2>2, <2>3, <3>4, <3>5, Zenon
  <2> QED
    BY <2>4, <2>5
<1> QED
  BY <1>7, <1>8

\* A step of ft_print_s before it has a string.
LEMMA CopyKeeps ==
  ASSUME MemoryInv, end = "", directive.spec = "s", Copying, MemoryNext
  PROVE  MemoryInv'
<1>1. MemoryTyped
  BY DEF MemoryInv
<1>2. StringCalls \in Seq(StringOps) /\ NullCalls \in Seq(StringOps)
  BY StringCallsAre
<1>3. CASE /\ value # NoString /\ todo = <<ft_strdup("result", value)>> \o NullCalls
           /\ Fits(Nothing({}, Promised))
  <2>1. PICK t, goal : t = value /\ goal = Promised
    OBVIOUS
  <2>2. t \in MemText /\ goal \in MemText
    <3>1. Promised = ft_print_s(directive, value)
      BY <1>3, SpecCases, Zenon
    <3>2. value \in MemText
      BY <1>1, GivenText
    <3>3. Promised \in MemText
      BY <1>1, <3>1, <3>2, StringTriple, Zenon
    <3> QED
      BY <2>1, <3>2, <3>3
  <2>3. PICK c : c = ft_strdup("result", t)
    OBVIOUS
  <2>4. todo # <<>> /\ call = c /\ Tail(todo) = NullCalls
    <3>1. c \in StringOps
      BY <2>1, <2>3 DEF StringOps
    <3> QED
      BY <1>2, <1>3, <2>1, <2>3, <3>1, FirstCall DEF call
  <2>5. /\ c.op = "make" /\ c.to = "result" /\ c.text = t /\ c.size = Len(t) + 1
        /\ c.used = Len(t) + 1 /\ c.lack = "null"
    BY <2>3 DEF ft_strdup, Make
  <2>6. Used = {} /\ Sound
    BY <2>4, <2>5 DEF Used, Sound
  <2>7. DoMake
    BY <2>4, <2>5, <2>6 DEF MemoryNext, Calls, DoMake, DoCopy, DoJoin, DoPadd, DoDigits, DoDel,
       DoMove, DoPut, DoEnter, Halt
  <2>8. PICK N : N = Nothing({}, goal)
    OBVIOUS
  <2>9. IsNothing(N, goal) /\ Fits(N)
    BY <1>3, <2>1, <2>2, <2>8, NothingKnown, Zenon
  <2>10. /\ N \in Description /\ N.lost = {} /\ N.goal = goal /\ ~N.printed
         /\ \A q \in Pointers : N.mode[q] = "any"
    BY <2>9 DEF IsNothing
  <2>11. "result" \in Pointers /\ "made" \in Modes
    BY PartNames
  <2>12. PICK A : A = Renewed(N, {}, "result", "made", t)
    OBVIOUS
  <2>13. Renews(N, A, {}, "result", "made", t)
    BY <2>2, <2>10, <2>11, <2>12, RenewedFacts, Zenon
  <2>14. A \in Description
    BY <2>13, Zenon DEF Renews
  <2>15. MakeEffect(c, N, A)
    <3>1. ~Owns(N, "result")
      BY <2>10, <2>11 DEF Owns
    <3>2. /\ BlockSized([text |-> t, size |-> Len(t) + 1, used |-> Len(t) + 1, for |-> "result"])
          /\ Len(t) + 1 \in Int
      BY <2>2, TextSized
    <3>3. BlockSized([text |-> c.text, size |-> c.size, used |-> c.used, for |-> c.to])
      BY <2>5, <3>2, Zenon
    <3>4. A = Renewed(N, {}, c.to, "made", c.text)
      BY <2>5, <2>12, Zenon
    <3> QED
      BY <2>2, <2>5, <2>11, <3>1, <3>2, <3>3, <3>4 DEF MakeEffect
  <2>16. Goes(A) \/ Faults
    BY <1>1, <2>4, <2>7, <2>9, <2>10, <2>15, MakeGoes
  <2>17. Weaker(A, Only("result", "made", t, {}, goal))
    <3>1. IsOnly(Only("result", "made", t, {}, goal), "result", "made", t, {}, goal)
      BY <2>2, PartNames, OnlyFacts, Zenon
    <3>2. /\ A.mode["result"] = "made" /\ A.text["result"] = t
          /\ (\A q \in Pointers : q # "result" => ~Owns(A, q))
          /\ A.lost = {} /\ A.goal = goal /\ ~A.printed
      BY <2>10, <2>11, <2>13 DEF Renews, Owns
    <3> QED
      BY <2>11, <2>14, <3>1, <3>2, WeakerOnly
  <2>18. ASSUME Goes(A)
         PROVE  MemoryInv'
    <3>1. /\ MemoryTyped' /\ Fits(A)' /\ todo' = NullCalls /\ end' = "" /\ (failed => failed')
          /\ directive' = directive /\ value' = value
      BY <2>4, <2>18 DEF Goes
    <3>2. Promised' = goal /\ value' = t /\ value' # NoString
      BY <1>3, <2>1, <3>1, PromiseStill
    <3>3. NullCalls' = NullCalls
      BY <3>1, Zenon DEF NullCalls, StringCalls, Bare
    <3>4. Copied(A)'
      BY <2>17, <3>2, Zenon DEF Copied
    <3>5. Copying'
      <4>1. todo' = NullCalls'
        BY <3>1, <3>3
      <4> QED
        BY <2>14, <3>1, <3>4, <4>1, Zenon DEF Copying
    <3>6. TextRight'
      BY <3>1, FitsText
    <3> QED
      BY <3>1, <3>5, <3>6 DEF MemoryInv
  <2> QED
    BY <2>16, <2>18, FaultKeeps
<1>4. CASE todo = NullCalls /\ \E D \in Description : Fits(D) /\ Copied(D)
  <2>1. PICK D \in Description : Fits(D) /\ Copied(D)
    BY <1>4
  <2> DEFINE c == Enter("null_string")
  <2>2. c \in StringOps /\ NullCalls = <<c>> \o StringCalls
    BY DEF StringOps, NullCalls
  <2>3. c.op = "enter" /\ c.f = "null_string"
    BY DEF Enter
  <2> HIDE DEF c
  <2>4. todo # <<>> /\ call = c /\ Tail(todo) = StringCalls
    BY <1>2, <1>4, <2>2, FirstCall DEF call
  <2>5. ReadsOf("null_string") = {}
    BY DEF ReadsOf
  <2>6. Used = {} /\ Sound
    BY <2>3, <2>4, <2>5 DEF Used, Sound
  <2>7. DoEnter
    BY <2>3, <2>4, <2>6 DEF MemoryNext, Calls, DoMake, DoCopy, DoJoin, DoPadd, DoDigits, DoDel,
       DoMove, DoPut, DoEnter, Halt
  <2>8. todo' = NullString \o StringCalls /\ end' = "" /\ UNCHANGED <<directive, value, ptr, heap,
                                                                      blocks, written, failed>>
    BY <2>3, <2>4, <2>5, <2>7, Bodies DEF DoEnter
  <2>9. PICK lost \in SUBSET Pointers, goal \in MemText, X \in Description :
          LostFits(lost) /\ Fits(X) /\ Triple(X, NullString \o StringCalls, Over(lost, goal))
    BY <1>1, <2>1, NullStringLeads
  <2>10. PICK next : next = todo'
    OBVIOUS
  <2>11. PICK E : E = Over(lost, goal)
    OBVIOUS
  <2>12. Triple(X, next, E)
    BY <2>8, <2>9, <2>10, <2>11, Zenon
  <2>13. Triple(X, next, E)'
    BY <2>8, <2>12, TripleStill
  <2>14. MemoryTyped' /\ Fits(X)'
    BY <1>1, <2>8, <2>9, SameFits
  <2>15. Proceeds(E)
    BY <2>8, <2>10, <2>13, <2>14 DEF Proceeds
  <2> QED
    BY <2>9, <2>11, <2>15, GoingKeeps
<1> QED
  BY <1>3, <1>4 DEF Copying

\* The invariant holds when nothing is done.
LEMMA StillKeeps ==
  ASSUME MemoryInv, UNCHANGED memoryVars
  PROVE  MemoryInv'
<1>1. UNCHANGED <<directive, value, todo, ptr, heap, blocks, written, end, failed>>
  BY DEF memoryVars
<1>2. MemoryTyped
  BY DEF MemoryInv
<1>3. MemoryTyped'
  BY <1>1, <1>2 DEF MemoryTyped, BlockSized
<1>4. TextRight'
  <2>1. TextRight
    BY DEF MemoryInv
  <2> QED
    BY <1>1, <2>1, PromiseStill DEF TextRight
<1>5. CASE end = ""
  <2>1. CASE Running
    <3>1. PICK lost \in SUBSET Pointers, goal \in MemText : /\ LostFits(lost)
                                                            /\ Going(Over(lost, goal))
      BY <2>1 DEF Running
    <3>2. PICK E : E = Over(lost, goal)
      OBVIOUS
    <3>3. PICK D \in Description : Fits(D) /\ Triple(D, todo, E)
      BY <3>1, <3>2 DEF Going
    <3>4. PICK next : next = todo'
      OBVIOUS
    <3>5. Triple(D, next, E)'
      <4>1. Triple(D, next, E)
        BY <1>1, <3>3, <3>4
      <4> QED
        BY <1>1, <4>1, TripleStill
    <3>6. Fits(D)'
      BY <1>1, <1>2, <3>3, SameFits
    <3>7. Proceeds(E)
      BY <1>1, <1>3, <1>5, <3>4, <3>5, <3>6 DEF Proceeds
    <3> QED
      BY <3>1, <3>2, <3>7, GoingKeeps
  <2>2. CASE directive.spec = "s" /\ Copying
    <3>1. directive' = directive /\ value' = value /\ todo' = todo
      BY <1>1
    <3>2. Promised' = Promised
      BY <3>1, PromiseStill
    <3>3. NullCalls' = NullCalls
      BY <3>1, Zenon DEF NullCalls, StringCalls, Bare
    <3>4. ASSUME NEW D \in Description, Fits(D)
          PROVE  Fits(D)'
      BY <1>1, <1>2, <3>4, SameFits
    <3>5. CASE /\ value # NoString /\ todo = <<ft_strdup("result", value)>> \o NullCalls
               /\ Fits(Nothing({}, Promised))
      <4>1. PICK goal : goal = Promised
        OBVIOUS
      <4>2. goal \in MemText
        <5>1. Promised = ft_print_s(directive, value)
          BY <2>2, <3>5, SpecCases, Zenon
        <5>2. value \in MemText
          BY <1>2, <2>2, GivenText
        <5> QED
          BY <1>2, <2>2, <4>1, <5>1, <5>2, StringTriple, Zenon
      <4>3. PICK N : N = Nothing({}, goal)
        OBVIOUS
      <4>4. IsNothing(N, goal) /\ Fits(N)
        BY <3>5, <4>1, <4>2, <4>3, NothingKnown, Zenon
      <4>5. Fits(N)'
        BY <3>4, <4>4 DEF IsNothing
      <4>6. Fits(Nothing({}, Promised))'
        BY <3>2, <4>1, <4>3, <4>5, Zenon
      <4>7. todo' = <<ft_strdup("result", value')>> \o NullCalls'
        BY <3>1, <3>3, <3>5, Zenon
      <4>8. value' # NoString
        BY <3>1, <3>5
      <4>9. Copying'
        BY <4>6, <4>7, <4>8, Zenon DEF Copying
      <4> QED
        BY <1>1, <1>3, <1>4, <1>5, <2>2, <4>9 DEF MemoryInv
    <3>6. CASE todo = NullCalls /\ \E D \in Description : Fits(D) /\ Copied(D)
      <4>1. PICK D \in Description : Fits(D) /\ Copied(D)
        BY <3>6
      <4>2. Fits(D)'
        BY <3>4, <4>1
      <4>3. Copied(D)'
        BY <3>1, <3>2, <4>1, Zenon DEF Copied
      <4>4. todo' = NullCalls'
        BY <3>1, <3>3, <3>6
      <4>5. Copying'
        BY <4>1, <4>2, <4>3, <4>4, Zenon DEF Copying
      <4> QED
        BY <1>1, <1>3, <1>4, <1>5, <2>2, <4>5 DEF MemoryInv
    <3> QED
      BY <2>2, <3>5, <3>6 DEF Copying
  <2> QED
    BY <1>5, <2>1, <2>2 DEF MemoryInv
<1>6. CASE end = "done"
  <2>1. PICK lost \in SUBSET Pointers, goal \in MemText : LostFits(lost) /\ Fits(Over(lost, goal))
    BY <1>6 DEF MemoryInv, AllPrinted
  <2>2. PICK E : E = Over(lost, goal)
    OBVIOUS
  <2>3. E \in Description
    BY <2>2, OverFacts
  <2>4. Fits(E)'
    BY <1>1, <1>2, <2>1, <2>2, <2>3, SameFits
  <2>5. LostFits(lost)'
    BY <1>1, <2>1, LostStill
  <2>6. AllPrinted'
    BY <2>2, <2>4, <2>5 DEF AllPrinted
  <2> QED
    BY <1>1, <1>3, <1>4, <1>6, <2>6 DEF MemoryInv
<1>7. CASE end = "fault"
  BY <1>1, <1>3, <1>4, <1>7 DEF MemoryInv
<1> QED
  BY <1>5, <1>6, <1>7 DEF MemoryInv

\* It holds at the start.
LEMMA MemoryStarts ==
  ASSUME MemoryInit
  PROVE  MemoryInv
<1>1. MemoryTyped
  BY StartTyped
<1>2. end = "" /\ written = <<>>
  BY DEF MemoryInit
<1>3. Running \/ (directive.spec = "s" /\ Copying)
  BY PrinterStarts, StringStarts
<1> QED
  BY <1>1, <1>2, <1>3 DEF MemoryInv, TextRight

\* And every step keeps it.
LEMMA MemoryKeeps ==
  ASSUME MemoryInv, [MemoryNext]_memoryVars
  PROVE  MemoryInv'
<1>1. CASE UNCHANGED memoryVars
  BY <1>1, StillKeeps
<1>2. CASE MemoryNext /\ end = ""
  BY <1>2, RunningKeeps, CopyKeeps DEF MemoryInv
<1>3. CASE MemoryNext /\ end # ""
  <2>1. UNCHANGED memoryVars
    BY <1>3 DEF MemoryNext, Calls, DoMake, DoCopy, DoJoin, DoPadd, DoDigits, DoDel, DoMove, DoPut,
       DoEnter, Halt
  <2> QED
    BY <2>1, StillKeeps
<1> QED
  BY <1>1, <1>2, <1>3

\* The memory of a conversion is always as some description says.
THEOREM MemoryInvariant == MemorySpec => []MemoryInv
<1>1. MemoryInit => MemoryInv
  BY MemoryStarts
<1>2. MemoryInv /\ [MemoryNext]_memoryVars => MemoryInv'
  BY MemoryKeeps
<1> QED
  BY <1>1, <1>2, PTL DEF MemorySpec

\* Whatever conversion it is and wherever malloc fails: what is printed is all
\* of the text of the directive or nothing, and all of it when no malloc fails
\* (the printers of ft_printf).
THEOREM AllOrNothingHolds == MemorySpec => []AllOrNothing
<1>1. MemoryInv => AllOrNothing
  <2> SUFFICES ASSUME MemoryInv
               PROVE  AllOrNothing
    OBVIOUS
  <2>1. ASSUME end = "done", ~failed
        PROVE  written = Promised
    <3>1. PICK lost \in SUBSET Pointers, goal \in MemText : LostFits(lost) /\ Fits(Over(lost, goal))
      BY <2>1 DEF MemoryInv, AllPrinted
    <3>2. Over(lost, goal).goal = goal /\ Over(lost, goal).printed
      BY OverFacts
    <3> QED
      BY <2>1, <3>1, <3>2 DEF Fits, OutFits, GoalFits
  <2>2. TextRight
    BY DEF MemoryInv
  <2> QED
    BY <2>1, <2>2 DEF AllOrNothing, TextRight, NullText
<1> QED
  BY <1>1, MemoryInvariant, PTL

\* Whatever fails, no block is freed twice or used after it was freed, no pointer
\* is used before it was set, NULL is dereferenced only after a failure, and
\* only terminators are stored outside of a block.
THEOREM BlocksRespectedHolds == MemorySpec => []BlocksRespected
<1>1. MemoryInv => BlocksRespected
  BY DEF MemoryInv, MemoryTyped, BlockSized, BlocksRespected
<1> QED
  BY <1>1, MemoryInvariant, PTL

\* Unless a malloc fails every block is freed at the end, but for those that are
\* known: the string that is cut to nothing and what ft_fround leaves.
THEOREM LeaksKnownHolds == MemorySpec => []LeaksKnown
<1>1. MemoryInv => LeaksKnown
  <2> SUFFICES ASSUME MemoryInv, end = "done", ~failed
               PROVE  IF directive.spec = "s" /\ directive.precision = 0 /\ value = <<>>
                        THEN Cardinality(DOMAIN heap) = 1
                      ELSE IF directive.spec = "f" /\ value.word = <<>>
                        THEN Cardinality(DOMAIN heap) <= 1 /\ \A b \in DOMAIN heap : heap[b].for \in {"s", "fract"}
                      ELSE DOMAIN heap = {}
    BY DEF LeaksKnown
  <2>1. PICK lost \in SUBSET Pointers, goal \in MemText : LostFits(lost) /\ Fits(Over(lost, goal))
    BY DEF MemoryInv, AllPrinted
  <2>2. Over(lost, goal).lost = lost /\ \A q \in Pointers : Over(lost, goal).mode[q] = "any"
    BY OverFacts
  <2>3. Accounted(Over(lost, goal)) /\ \A b : ~Owned(Over(lost, goal), b)
    BY <2>1, <2>2 DEF Fits, Owned, Owns
  <2>4. PICK x : /\ \A b \in DOMAIN heap : b = x
                 /\ x \in DOMAIN heap => heap[x].for \in lost
                 /\ "result" \in lost => x \in DOMAIN heap
    BY <2>2, <2>3 DEF Accounted
  <2>5. DOMAIN heap = {} \/ DOMAIN heap = {x}
    BY <2>4
  <2>6. Cardinality({}) = 0 /\ Cardinality({x}) = 1
    BY FS_EmptySet, FS_Singleton
  <2>7. CASE directive.spec = "s" /\ directive.precision = 0 /\ value = <<>>
    <3>1. lost = {"result"}
      BY <2>1, <2>7 DEF LostFits
    <3>2. DOMAIN heap = {x}
      BY <2>4, <2>5, <3>1
    <3> QED
      BY <2>6, <2>7, <3>2
  <2>8. CASE directive.spec = "f" /\ value.word = <<>>
    <3>1. lost \subseteq {"s", "fract"}
      BY <2>1, <2>8 DEF LostFits, Leaves
    <3>2. \A b \in DOMAIN heap : heap[b].for \in {"s", "fract"}
      BY <2>4, <3>1
    <3>3. Cardinality(DOMAIN heap) <= 1
      BY <2>5, <2>6
    <3> QED
      BY <2>8, <3>2, <3>3
  <2>9. CASE /\ ~(directive.spec = "s" /\ directive.precision = 0 /\ value = <<>>)
             /\ ~(directive.spec = "f" /\ value.word = <<>>)
    <3>1. lost = {}
      BY <2>1, <2>9 DEF LostFits
    <3>2. DOMAIN heap = {}
      BY <2>4, <2>5, <3>1
    <3> QED
      BY <2>9, <3>2
  <2> QED
    BY <2>7, <2>8, <2>9
<1> QED
  BY <1>1, MemoryInvariant, PTL
=============================================================================
