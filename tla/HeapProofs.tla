----------------------------- MODULE HeapProofs -----------------------------
(***************************************************************************)
(* Theorems about the kernel heap (Heap): in every reachable state the     *)
(* blocks cover the arenas, what callers hold is apart, the search after   *)
(* create_arena succeeds, and between calls nothing free is left unmerged  *)
(* or kept, for every page size, header size, set of frames and sequence   *)
(* of calls.                                                               *)
(*                                                                         *)
(* The inductive invariant IInv says, beside the properties of Heap, where *)
(* the arenas are: each in its own run of frames of the heap (Frames,      *)
(* Apart), its blocks inside it (Inside); and what a call in progress may  *)
(* have left undone: the one pair of free neighbours (Merged) and the one  *)
(* arena without a live block (Used).  The steps of kfree come first, then *)
(* those of kmalloc: taking a block whole, splitting it, adding an arena.  *)
(***************************************************************************)
EXTENDS Heap, TLAPS

\* The facts about finite sets that counting the live blocks needs.  The
\* lemmas about steps assume them; FiniteFactsHold has them from the library.
FiniteFacts ==
    /\ IsFiniteSet({}) /\ Cardinality({}) = 0
    /\ \A S : IsFiniteSet(S) => /\ Cardinality(S) \in Nat
                                /\ Cardinality(S) = 0 <=> S = {}
    /\ \A S, T : IsFiniteSet(S) /\ T \subseteq S => IsFiniteSet(T)
    /\ \A S, x : IsFiniteSet(S) /\ x \notin S =>
            /\ IsFiniteSet(S \cup {x})
            /\ Cardinality(S \cup {x}) = Cardinality(S) + 1
    /\ \A S, x : IsFiniteSet(S) /\ x \in S =>
            Cardinality(S \ {x}) = Cardinality(S) - 1

Freeing == pc \in {"merge next", "merge prev", "reclaim"}

Ordered == \A b, c \in Blocks : b < c => End(b) <= c
FirstBlocks ==
    \A a \in Arenas : first[a] = Base(a) + ArenaHeader /\ in[first[a]] = a
Forward ==
    \A b \in Blocks :
        IF next[b] = NULL THEN End(b) = Base(in[b] + page_count[in[b]])
        ELSE next[b] = End(b) /\ prev[next[b]] = b /\ in[next[b]] = in[b]
Backward ==
    \A b \in Blocks :
        IF prev[b] = NULL THEN b = first[in[b]] ELSE next[prev[b]] = b
Inside ==
    \A b \in Blocks : /\ Base(in[b]) + ArenaHeader <= b
                      /\ End(b) <= Base(in[b] + page_count[in[b]])

Apart == \A a, c \in Arenas : a < c => a + page_count[a] <= c
Frames ==
    /\ \A a \in Arenas : Run(a, page_count[a]) \subseteq Page
    /\ \A p \in Page :
        owner[p] = "HEAP" <=> \E a \in Arenas : p \in Run(a, page_count[a])
Listed ==
    /\ \A a \in Arenas : \E i \in DOMAIN heap_arenas : heap_arenas[i] = a
    /\ \A i, j \in DOMAIN heap_arenas :
        heap_arenas[i] = heap_arenas[j] => i = j
Counted ==
    /\ IsFiniteSet(Blocks)
    /\ \A a \in Arenas : live_blocks[a] = Cardinality(LiveIn(a))
Held ==
    /\ \A b \in Blocks : ~is_free[b] => b + BlockHeader \in DOMAIN given
    /\ \A ptr \in DOMAIN given :
        /\ ptr - BlockHeader \in Blocks /\ ~is_free[ptr - BlockHeader]
        /\ given[ptr] <= size[ptr - BlockHeader]

Merged ==
    \A b \in Blocks :
        next[b] # NULL /\ is_free[b] /\ is_free[next[b]] =>
            \/ pc = "merge next" /\ (cur = b \/ cur = next[b])
            \/ pc = "merge prev" /\ cur = next[b]
Used ==
    \A a \in Arenas :
        \/ LiveIn(a) # {}
        \/ Freeing /\ in[cur] = a
        \/ pc = "search again" /\ \A b \in Blocks : Fits(b) => in[b] = a
Freed == Freeing => is_free[cur]

Tiled == Ordered /\ FirstBlocks /\ Forward /\ Backward /\ Inside
Placed == Apart /\ Frames /\ Listed
Tight == Merged /\ Used /\ Freed

\* The inductive invariant.
IInv ==
    TypeOK /\ Tiled /\ Placed /\ Counted /\ Held /\ Tight /\ FreshArenaFits

-----------------------------------------------------------------------------
(* Addresses and sizes                                                     *)

\* The first address of a page grows with the page.
LEMMA BaseFacts ==
    ASSUME NEW p \in Nat, NEW q \in Nat
    PROVE  /\ Base(p) \in Nat
           /\ Base(p + q) = Base(p) + q * PAGE_SIZE
           /\ p <= q => Base(p) <= Base(q)
           /\ p < q => Base(p) < Base(q)
  <1>1. PAGE_SIZE \in Nat \ {0}
    BY HeapAssumption
  <1>2. p * PAGE_SIZE \in Nat /\ (p + q) * PAGE_SIZE = p * PAGE_SIZE + q * PAGE_SIZE
    BY <1>1
  <1>3. p <= q => p * PAGE_SIZE <= q * PAGE_SIZE
    BY <1>1
  <1>4. p < q => p * PAGE_SIZE < q * PAGE_SIZE
    BY <1>1
  <1>. QED
    BY <1>2, <1>3, <1>4 DEF Base

\* align_size rounds up.
LEMMA AlignFacts ==
    ASSUME NEW n \in Nat
    PROVE  align_size(n) \in Nat /\ align_size(n) >= n
  <1>. DEFINE A == HEAP_ALIGNMENT
  <1>1. A \in Nat \ {0}
    BY HeapAssumption
  <1>. HIDE DEF A
  <1>2. (n + A - 1) \div A \in Nat
    BY <1>1
  <1>3. ((n + A - 1) \div A) * A \in Nat
    BY <1>1, <1>2
  <1>4. ((n + A - 1) \div A) * A >= n
    BY <1>1
  <1>. QED
    BY <1>3, <1>4 DEF align_size, A

\* The pages of create_arena hold the total.
LEMMA PagesFacts ==
    ASSUME NEW t \in Nat, t > 0
    PROVE  /\ Pages(t) \in Nat \ {0}
           /\ Pages(t) * PAGE_SIZE \in Nat
           /\ Pages(t) * PAGE_SIZE >= t
  <1>1. PAGE_SIZE \in Nat \ {0}
    BY HeapAssumption
  <1>2. (t + PAGE_SIZE - 1) \div PAGE_SIZE \in Nat
    BY <1>1
  <1>3. ((t + PAGE_SIZE - 1) \div PAGE_SIZE) * PAGE_SIZE >= t
    BY <1>1
  <1>4. ((t + PAGE_SIZE - 1) \div PAGE_SIZE) # 0
    BY <1>1, <1>3
  <1>5. ((t + PAGE_SIZE - 1) \div PAGE_SIZE) * PAGE_SIZE \in Nat
    BY <1>1, <1>2
  <1>. QED
    BY <1>2, <1>3, <1>4, <1>5 DEF Pages

\* An address between the first addresses of two pages lies in a page
\* between them.
LEMMA PageOf ==
    ASSUME NEW p \in Nat, NEW q \in Nat, NEW x \in Nat,
           Base(p) <= x, x < Base(q)
    PROVE  x \div PAGE_SIZE \in p .. (q - 1)
  <1>1. PAGE_SIZE \in Nat \ {0}
    BY HeapAssumption
  <1>2. p * PAGE_SIZE <= x /\ x < q * PAGE_SIZE
    BY DEF Base
  <1>3. x \div PAGE_SIZE \in Nat
    BY <1>1
  <1>4. p <= x \div PAGE_SIZE /\ x \div PAGE_SIZE < q
    BY <1>1, <1>2
  <1>. QED
    BY <1>3, <1>4

\* Sizes of headers, and of what is between the borders.
LEMMA EndType ==
    ASSUME TypeOK, NEW b \in Blocks
    PROVE  /\ End(b) \in Nat /\ b \in Nat /\ b # 0 /\ b < End(b)
           /\ End(b) = b + BlockHeader + size[b] /\ size[b] \in Nat
           /\ in[b] \in Arenas /\ in[b] \in Nat
           /\ page_count[in[b]] \in Nat \ {0}
  <1>1. b \in Nat \ {0} /\ size[b] \in Nat /\ BlockHeader \in Nat \ {0}
    BY HeapAssumption DEF TypeOK, BlockTypes, NULL
  <1>2. in[b] \in Arenas /\ Arenas \subseteq Nat
    BY HeapAssumption DEF TypeOK, BlockTypes, ArenaTypes
  <1>3. page_count[in[b]] \in Nat \ {0}
    BY <1>2 DEF TypeOK, ArenaTypes
  <1>4. End(b) = b + BlockHeader + size[b]
    BY DEF End
  <1>5. End(b) \in Nat /\ b < End(b)
    BY <1>1, <1>4
  <1>. QED
    BY Zenon, <1>1, <1>2, <1>3, <1>4, <1>5

\* A cut or moved border makes an address that is inside a block; it is no
\* block itself.
LEMMA NoBlockInside ==
    ASSUME TypeOK, Ordered, NEW b \in Blocks, NEW r \in Nat, b < r, r < End(b)
    PROVE  r \notin Blocks
  BY EndType DEF Ordered

\* The borders of an arena are addresses.
LEMMA BorderTypes ==
    ASSUME TypeOK, NEW b \in Blocks
    PROVE  /\ Base(in[b]) \in Nat /\ Base(in[b] + page_count[in[b]]) \in Nat
           /\ ArenaHeader \in Nat \ {0}
  <1>1. in[b] \in Nat /\ page_count[in[b]] \in Nat
    BY EndType
  <1>2. in[b] + page_count[in[b]] \in Nat
    BY <1>1
  <1>3. Base(in[b] + page_count[in[b]]) \in Nat
    BY <1>2, BaseFacts
  <1>4. Base(in[b]) \in Nat
    BY <1>1, BaseFacts
  <1>. QED
    BY <1>3, <1>4, HeapAssumption

\* The live blocks of an arena are finitely many.
LEMMA LiveFinite ==
    ASSUME FiniteFacts, Counted, NEW a
    PROVE  IsFiniteSet(LiveIn(a)) /\ Cardinality(LiveIn(a)) \in Nat
  <1>1. LiveIn(a) \subseteq Blocks /\ IsFiniteSet(Blocks)
    BY DEF LiveIn, Counted
  <1>2. IsFiniteSet(LiveIn(a))
    BY <1>1 DEF FiniteFacts
  <1>. QED
    BY <1>2 DEF FiniteFacts

\* The effect on the live blocks when kmalloc takes block b.
LEMMA TakenLive ==
    ASSUME FiniteFacts, IInv, NEW b \in Blocks, KmallocFind(b), IsFiniteSet(Blocks'),
           \A a \in Arenas : LiveIn(a)' = IF a = in[b] THEN LiveIn(a) \cup {b}
                                          ELSE LiveIn(a)
    PROVE  Counted' /\ Used'
  <1>1. /\ Arenas' = Arenas /\ in[b] \in Arenas
        /\ live_blocks' = [live_blocks EXCEPT ![in[b]] = @ + 1]
        /\ live_blocks \in [Arenas -> Nat]
    BY DEF IInv, TypeOK, ArenaTypes, BlockTypes, KmallocFind, Arenas
  <1>2. b \notin LiveIn(in[b])
    BY DEF KmallocFind, Fits, LiveIn
  <1>3. \A a \in Arenas : live_blocks[a] = Cardinality(LiveIn(a))
    BY DEF IInv, Counted
  <1>4. Cardinality(LiveIn(in[b]) \cup {b}) = Cardinality(LiveIn(in[b])) + 1
    BY <1>2, LiveFinite DEF IInv, FiniteFacts
  <1>5. \A a \in Arenas : live_blocks'[a] = Cardinality(LiveIn(a)')
    BY <1>1, <1>3, <1>4
  <1>6. Counted'
    BY <1>1, <1>5 DEF Counted
  <1>7. ASSUME NEW a \in Arenas, a # in[b] PROVE LiveIn(a) # {}
    BY Zenon, <1>7 DEF IInv, Tight, Used, Freeing, KmallocFind, Searching
  <1>8. Used'
    BY Zenon, <1>1, <1>7 DEF Used
  <1>. QED
    BY <1>6, <1>8

\* kmalloc_init: the heap starts without arenas.
LEMMA InitInv == FiniteFacts /\ Init => IInv
  <1>. SUFFICES ASSUME FiniteFacts, Init PROVE IInv
    OBVIOUS
  <1>1. Blocks = {} /\ Arenas = {} /\ DOMAIN given = {} /\ heap_arenas = <<>>
        /\ DOMAIN heap_arenas = {}
    BY DEF Init, Blocks, Arenas
  <1>2. TypeOK
    BY <1>1, HeapAssumption
    DEF Init, TypeOK, ArenaTypes, BlockTypes, CallTypes, NULL, Searching
  <1>3. Tiled
    BY <1>1 DEF Tiled, Ordered, FirstBlocks, Forward, Backward, Inside
  <1>4. Placed
    BY <1>1 DEF Placed, Apart, Frames, Listed, Init
  <1>5. Counted /\ Held
    BY <1>1 DEF Counted, Held, FiniteFacts
  <1>6. Tight /\ FreshArenaFits
    BY <1>1 DEF Tight, Merged, Used, Freed, Freeing, Init, FreshArenaFits
  <1>. QED
    BY <1>2, <1>3, <1>4, <1>5, <1>6 DEF IInv

-----------------------------------------------------------------------------
(* Steps that leave the borders alone                                      *)

\* Tiled and Placed speak of the borders and places alone.
LEMMA SameTiles ==
    ASSUME Tiled, UNCHANGED <<page_count, first, size, in, prev, next>>
    PROVE  Tiled'
  BY DEF Tiled, Ordered, FirstBlocks, Forward, Backward, Inside, End, Blocks,
         Arenas

\* The same of the places of the arenas.
LEMMA SamePlaces ==
    ASSUME Placed, UNCHANGED <<owner, heap_arenas, page_count>>
    PROVE  Placed'
  BY DEF Placed, Apart, Frames, Listed, Arenas

-----------------------------------------------------------------------------
(* Steps that leave the heap alone                                         *)

\* A step that changes neither the lists nor a frame of the heap.
LEMMA SameHeap ==
    ASSUME IInv, UNCHANGED <<heap_arenas, arena, block, given, cur>>,
           owner' \in [Page -> {"FREE", "HEAP", "OTHER"}],
           \A q \in Page : owner'[q] = "HEAP" <=> owner[q] = "HEAP",
           CallTypes', Tight', FreshArenaFits'
    PROVE  IInv'
  <1>1. TypeOK /\ Tiled /\ Placed /\ Counted /\ Held
    BY DEF IInv
  <1>2. /\ UNCHANGED <<heap_arenas, page_count, live_blocks, first>>
        /\ UNCHANGED <<size, is_free, in, prev, next, given, cur>>
        /\ Arenas' = Arenas /\ Blocks' = Blocks
    BY DEF arena, block, Arenas, Blocks
  <1>3. TypeOK'
    BY <1>1, <1>2 DEF TypeOK, ArenaTypes, BlockTypes
  <1>4. Tiled'
    BY <1>1, <1>2, SameTiles
  <1>5. Placed'
    BY <1>1, <1>2 DEF Placed, Apart, Frames, Listed
  <1>6. \A a \in Arenas : LiveIn(a)' = LiveIn(a)
    BY <1>2 DEF LiveIn
  <1>7. Counted' /\ Held'
    BY <1>1, <1>2, <1>6 DEF Counted, Held
  <1>. QED
    BY <1>3, <1>4, <1>5, <1>7 DEF IInv

\* The calls that begin and end without touching the heap, the other users
\* of the frames, and stuttering.
LEMMA QuietStep ==
    ASSUME IInv,
           \/ \E n \in Size : KmallocCall(n)
           \/ KmallocFails
           \/ \E p \in Page : OthersTake(p) \/ OthersReturn(p)
           \/ UNCHANGED vars
    PROVE  IInv'
  <1>1. TypeOK /\ Tight /\ FreshArenaFits
    BY DEF IInv
  <1>2. /\ owner \in [Page -> {"FREE", "HEAP", "OTHER"}] /\ CallTypes
    BY <1>1 DEF TypeOK
  <1>3. ASSUME UNCHANGED <<arena, block, cur>>,
               \/ pc = "idle" /\ pc' \in {"idle", "search"}
               \/ pc = "search" /\ pc' = "idle"
        PROVE  Tight' /\ FreshArenaFits'
    <2>1. /\ UNCHANGED <<page_count, size, is_free, in, prev, next>>
          /\ Arenas' = Arenas /\ Blocks' = Blocks
      BY <1>3 DEF arena, block, Arenas, Blocks
    <2>2. \A a \in Arenas : LiveIn(a)' = LiveIn(a) /\ LiveIn(a) # {}
      BY Zenon, <1>1, <1>3, <2>1 DEF LiveIn, Tight, Used, Freeing
    <2>3. Merged'
      BY Zenon, <1>1, <1>3, <2>1 DEF Tight, Merged
    <2>. QED
      BY Zenon, <1>3, <2>1, <2>2, <2>3 DEF Tight, Used, Freed, Freeing, FreshArenaFits
  <1>4. ASSUME NEW n \in Size, KmallocCall(n) PROVE IInv'
    <2>1. align_size(n) \in Nat /\ align_size(n) > 0
      <3>1. n \in Nat /\ n # 0
        BY <1>4, HeapAssumption DEF KmallocCall
      <3>. QED
        BY <3>1, AlignFacts
    <2>2. CallTypes'
      BY <1>2, <1>4, <2>1 DEF CallTypes, KmallocCall, Searching
    <2>3. Tight' /\ FreshArenaFits'
      BY <1>3, <1>4 DEF KmallocCall
    <2>. QED
      BY <1>2, <1>4, <2>2, <2>3, SameHeap DEF KmallocCall
  <1>5. CASE KmallocFails
    <2>1. pc = "search"
      BY Zenon, <1>1, <1>5 DEF KmallocFails, Searching, FreshArenaFits
    <2>2. CallTypes'
      BY <1>2, <1>5, <2>1 DEF CallTypes, KmallocFails, Searching
    <2>3. Tight' /\ FreshArenaFits'
      BY <1>3, <1>5, <2>1 DEF KmallocFails
    <2>. QED
      BY <1>2, <1>5, <2>2, <2>3, SameHeap DEF KmallocFails
  <1>6. ASSUME NEW p \in Page, OthersTake(p) \/ OthersReturn(p) PROVE IInv'
    <2>1. /\ pc = "idle" /\ UNCHANGED <<heap_arenas, arena, block, given, cur>>
          /\ UNCHANGED <<pc, want>>
      BY <1>6 DEF OthersTake, OthersReturn
    <2>2. CallTypes'
      BY <1>2, <2>1 DEF CallTypes, Searching
    <2>3. Tight' /\ FreshArenaFits'
      BY <1>3, <2>1
    <2>4. /\ owner' \in [Page -> {"FREE", "HEAP", "OTHER"}]
          /\ \A q \in Page : owner'[q] = "HEAP" <=> owner[q] = "HEAP"
      BY <1>2, <1>6 DEF OthersTake, OthersReturn
    <2>. QED
      BY <2>1, <2>2, <2>3, <2>4, SameHeap
  <1>7. CASE UNCHANGED vars
    <2>1. /\ UNCHANGED <<owner, heap_arenas, page_count, live_blocks, first>>
          /\ UNCHANGED <<size, is_free, in, prev, next, given, pc, want, cur>>
          /\ UNCHANGED <<arena, block>>
      BY <1>7 DEF vars, arena, block
    <2>2. CallTypes'
      BY Zenon, <1>2, <2>1 DEF CallTypes, Searching, Blocks
    <2>3. Tight' /\ FreshArenaFits'
      BY Zenon, <1>1, <2>1 DEF Tight, Merged, Used, Freed, Freeing, FreshArenaFits,
         NothingFits, Fits, LiveIn, Blocks, Arenas
    <2>. QED
      BY <1>2, <2>1, <2>2, <2>3, SameHeap
  <1>. QED
    BY <1>4, <1>5, <1>6, <1>7

-----------------------------------------------------------------------------
(* What the invariant gives                                                *)

\* The inductive invariant gives BlocksTile.
LEMMA InvTiles == IInv => BlocksTile
  <1>. SUFFICES ASSUME IInv PROVE BlocksTile
    OBVIOUS
  <1>1. Tiled /\ \A a \in Arenas : first[a] \in Blocks
    BY DEF IInv, TypeOK, ArenaTypes
  <1>2. \A b, c \in Blocks : b < c => End(b) <= c
    BY <1>1 DEF Tiled, Ordered
  <1>3. \A a \in Arenas : /\ first[a] = Base(a) + ArenaHeader
                          /\ first[a] \in Blocks /\ in[first[a]] = a
    BY <1>1 DEF Tiled, FirstBlocks
  <1>4. \A b \in Blocks :
            IF next[b] = NULL THEN End(b) = Base(in[b] + page_count[in[b]])
            ELSE /\ next[b] = End(b) /\ prev[next[b]] = b
                 /\ in[next[b]] = in[b]
    BY <1>1 DEF Tiled, Forward
  <1>5. \A b \in Blocks :
            IF prev[b] = NULL THEN b = first[in[b]] ELSE next[prev[b]] = b
    BY <1>1 DEF Tiled, Backward
  <1>. QED
    BY <1>2, <1>3, <1>4, <1>5 DEF BlocksTile

\* The inductive invariant gives HeapIsTight.
LEMMA InvTight == IInv => HeapIsTight
  <1>. SUFFICES ASSUME IInv, pc = "idle" PROVE HeapIsTight
    BY DEF HeapIsTight
  <1>1. TypeOK /\ Placed /\ Counted /\ Held /\ Tight
    BY DEF IInv
  <1>2. \A b \in Blocks : next[b] # NULL => ~(is_free[b] /\ is_free[next[b]])
    BY <1>1 DEF Tight, Merged
  <1>3. \A a \in Arenas : live_blocks[a] = Cardinality(LiveIn(a)) /\ LiveIn(a) # {}
    BY <1>1 DEF Tight, Used, Freeing, Counted
  <1>4. DOMAIN given = {b + BlockHeader : b \in UNION {LiveIn(a) : a \in Arenas}}
    <2>1. \A b \in Blocks : in[b] \in Arenas
      BY <1>1 DEF TypeOK, BlockTypes
    <2>2. UNION {LiveIn(a) : a \in Arenas} = {b \in Blocks : ~is_free[b]}
      BY <2>1 DEF LiveIn
    <2>3. ASSUME NEW ptr \in DOMAIN given
          PROVE  /\ ptr - BlockHeader \in {b \in Blocks : ~is_free[b]}
                 /\ ptr = (ptr - BlockHeader) + BlockHeader
      <3>1. ptr \in Nat /\ BlockHeader \in Nat
        BY <1>1, HeapAssumption DEF TypeOK
      <3>2. ptr = (ptr - BlockHeader) + BlockHeader
        BY <3>1
      <3>3. ptr - BlockHeader \in {b \in Blocks : ~is_free[b]}
        BY <1>1 DEF Held
      <3>. QED
        BY <3>2, <3>3
    <2>4. \A b \in {x \in Blocks : ~is_free[x]} : b + BlockHeader \in DOMAIN given
      BY <1>1 DEF Held
    <2>. QED
      BY Zenon, <2>2, <2>3, <2>4
  <1>5. \A p \in Page : owner[p] = "HEAP" <=>
            \E i \in DOMAIN heap_arenas :
                p \in Run(heap_arenas[i], page_count[heap_arenas[i]])
    <2>1. \A i \in DOMAIN heap_arenas : heap_arenas[i] \in Arenas
      BY <1>1 DEF TypeOK, ArenaTypes
    <2>. QED
      BY <1>1, <2>1 DEF Placed, Frames, Listed
  <1>. QED
    BY <1>2, <1>3, <1>4, <1>5 DEF HeapIsTight

\* What a caller holds lies in its block, and the block apart from every
\* other block, from the headers of arenas and inside frames of the heap.
LEMMA InvApart == IInv => AllocationsApart
  <1>. SUFFICES ASSUME IInv, NEW ptr \in DOMAIN given
                PROVE  LET own == ptr .. (ptr + given[ptr] - 1) IN
        /\ ptr - BlockHeader \in Blocks
        /\ \A q \in DOMAIN given \ {ptr} :
                own \cap (q .. (q + given[q] - 1)) = {}
        /\ \A b \in Blocks : own \cap (b .. (b + BlockHeader - 1)) = {}
        /\ \A a \in Arenas :
                own \cap (Base(a) .. (Base(a) + ArenaHeader - 1)) = {}
        /\ \A x \in own :
                x \div PAGE_SIZE \in {p \in Page : owner[p] = "HEAP"}
    BY DEF AllocationsApart
  <1>1. TypeOK /\ Tiled /\ Placed /\ Held
    BY DEF IInv
  <1>2. /\ BlockHeader \in Nat \ {0} /\ ArenaHeader \in Nat \ {0}
        /\ \A q \in DOMAIN given : q \in Nat /\ given[q] \in Nat
    BY <1>1, HeapAssumption DEF TypeOK
  <1>3. \A q \in DOMAIN given : /\ q - BlockHeader \in Blocks
                                /\ given[q] <= size[q - BlockHeader]
    BY <1>1 DEF Held
  <1>4. PICK b \in Blocks : b = ptr - BlockHeader
    BY <1>3
  <1>5. \A q \in DOMAIN given : q + given[q] <= End(q - BlockHeader)
    BY <1>1, <1>2, <1>3, EndType
  <1>6. /\ b \in Nat /\ End(b) \in Nat /\ ptr = b + BlockHeader
        /\ ptr + given[ptr] <= End(b)
    BY <1>1, <1>2, <1>4, <1>5, EndType
  <1>7. \A c \in Blocks : /\ c \in Nat /\ End(c) \in Nat /\ c + BlockHeader <= End(c)
                          /\ c = b \/ End(c) <= b \/ End(b) <= c
    BY <1>1, <1>2, EndType DEF Tiled, Ordered
  <1>8. ASSUME NEW q \in DOMAIN given \ {ptr}
        PROVE  (ptr .. (ptr + given[ptr] - 1)) \cap (q .. (q + given[q] - 1)) = {}
    <2>1. PICK c \in Blocks : c = q - BlockHeader
      BY <1>3
    <2>2. /\ c # b /\ q = c + BlockHeader /\ q + given[q] <= End(c) /\ q \in Nat
          /\ given[q] \in Nat
      BY <1>2, <1>4, <1>5, <1>6, <2>1
    <2>3. End(c) <= b \/ End(b) <= c
      BY <1>7, <2>2
    <2>. QED
      BY <1>2, <1>6, <1>7, <2>2, <2>3
  <1>9. ASSUME NEW c \in Blocks
        PROVE  (ptr .. (ptr + given[ptr] - 1)) \cap (c .. (c + BlockHeader - 1)) = {}
    BY <1>2, <1>6, <1>7
  <1>10. /\ in[b] \in Arenas /\ Base(in[b]) \in Nat
         /\ Base(in[b] + page_count[in[b]]) \in Nat
         /\ Base(in[b]) + ArenaHeader <= b
         /\ End(b) <= Base(in[b] + page_count[in[b]])
    BY <1>1, EndType, BorderTypes DEF Tiled, Inside
  <1>11. ASSUME NEW a \in Arenas
         PROVE  (ptr .. (ptr + given[ptr] - 1))
                    \cap (Base(a) .. (Base(a) + ArenaHeader - 1)) = {}
    <2>1. \A c \in Arenas : c \in Nat /\ page_count[c] \in Nat /\ first[c] \in Blocks
      BY <1>1, HeapAssumption DEF TypeOK, ArenaTypes
    <2>2. PICK f \in Blocks : f = first[a]
      BY <2>1
    <2>3. in[f] = a /\ f = Base(a) + ArenaHeader
      BY <1>1, <2>2 DEF Tiled, FirstBlocks
    <2>4. Base(a) \in Nat /\ End(f) <= Base(a + page_count[a]) /\ f \in Nat
          /\ f < End(f) /\ End(f) \in Nat /\ Base(a + page_count[a]) \in Nat
      BY <1>1, <2>3, EndType, BorderTypes DEF Tiled, Inside
    <2>5. CASE a = in[b]
      BY <1>2, <1>6, <1>10, <2>4, <2>5
    <2>6. CASE a < in[b]
      <3>1. a + page_count[a] <= in[b]
        BY <1>1, <1>10, <2>6 DEF Placed, Apart
      <3>2. Base(a + page_count[a]) <= Base(in[b])
        <4>1. a + page_count[a] \in Nat /\ in[b] \in Nat
          BY <1>10, <2>1
        <4>. QED
          BY <3>1, <4>1, BaseFacts
      <3>. QED
        BY <1>2, <1>6, <1>10, <2>3, <2>4, <3>2
    <2>7. CASE in[b] < a
      <3>1. in[b] + page_count[in[b]] <= a
        BY <1>1, <1>10, <2>7 DEF Placed, Apart
      <3>2. Base(in[b] + page_count[in[b]]) <= Base(a)
        <4>1. in[b] + page_count[in[b]] \in Nat /\ a \in Nat
          BY <1>10, <2>1
        <4>. QED
          BY <3>1, <4>1, BaseFacts
      <3>. QED
        BY <1>2, <1>6, <1>10, <2>4, <3>2
    <2>. QED
      BY <1>10, <2>1, <2>5, <2>6, <2>7
  <1>12. ASSUME NEW x \in ptr .. (ptr + given[ptr] - 1)
         PROVE  x \div PAGE_SIZE \in {p \in Page : owner[p] = "HEAP"}
    <2>1. x \in Nat /\ Base(in[b]) <= x /\ x < Base(in[b] + page_count[in[b]])
      BY <1>2, <1>6, <1>10
    <2>2. in[b] \in Nat /\ in[b] + page_count[in[b]] \in Nat
      BY <1>1, EndType
    <2>3. x \div PAGE_SIZE \in Run(in[b], page_count[in[b]])
      <3>1. x \div PAGE_SIZE \in in[b] .. ((in[b] + page_count[in[b]]) - 1)
        BY <2>1, <2>2, PageOf, Zenon
      <3>2. page_count[in[b]] \in Nat
        BY <1>1, <1>10 DEF TypeOK, ArenaTypes
      <3>. QED
        BY <2>2, <3>1, <3>2 DEF Run
    <2>. QED
      BY <1>1, <1>10, <2>3 DEF Placed, Frames
  <1>. QED
    BY <1>3, <1>8, <1>9, <1>11, <1>12

-----------------------------------------------------------------------------
(* kfree: the block becomes free                                           *)

\* kfree marks a block free.
LEMMA FreeStep ==
    ASSUME FiniteFacts, IInv, NEW b \in Blocks, Kfree(b + BlockHeader)
    PROVE  IInv'
  <1>1. TypeOK /\ Tiled /\ Placed /\ Counted /\ Held /\ Tight
    BY DEF IInv
  <1>2. PICK c \in find_block(b + BlockHeader) :
            /\ pc = "idle" /\ ~is_free[c] /\ live_blocks[in[c]] # 0
            /\ is_free' = [is_free EXCEPT ![c] = TRUE]
            /\ live_blocks' = [live_blocks EXCEPT ![in[c]] = @ - 1]
            /\ given' = Drop(given, {b + BlockHeader})
            /\ pc' = "merge next" /\ cur' = c
            /\ UNCHANGED <<owner, heap_arenas, page_count, first, size, in,
                           prev, next, want>>
    BY Zenon DEF Kfree
  <1>3. c = b
    BY <1>1, EndType, HeapAssumption DEF find_block
  <1>4. /\ Arenas' = Arenas /\ Blocks' = Blocks /\ in[b] \in Arenas
        /\ is_free \in [Blocks -> BOOLEAN] /\ live_blocks \in [Arenas -> Nat]
    BY Zenon, <1>1, <1>2 DEF Arenas, Blocks, TypeOK, ArenaTypes, BlockTypes
  <1>5. TypeOK'
    <2>1. ArenaTypes'
      <3>1. live_blocks' \in [Arenas -> Nat]
        <4>1. /\ live_blocks' = [live_blocks EXCEPT ![in[b]] = @ - 1]
              /\ live_blocks[in[b]] # 0
          BY Zenon, <1>2, <1>3
        <4>2. live_blocks \in [Arenas -> Nat] /\ in[b] \in Arenas
          BY <1>4
        <4>. QED
          BY <4>1, <4>2
      <3>. QED
        BY Zenon, <1>1, <1>2, <1>4, <3>1 DEF TypeOK, ArenaTypes
    <2>2. BlockTypes'
      BY Zenon, <1>1, <1>2, <1>4 DEF TypeOK, BlockTypes
    <2>3. is_free' \in [Blocks' -> BOOLEAN]
      BY <1>2, <1>4, Zenon
    <2>4. DOMAIN given' \subseteq Nat /\ given' \in [DOMAIN given' -> Nat]
      BY Zenon, <1>1, <1>2 DEF TypeOK, Drop
    <2>5. CallTypes'
      BY Zenon, <1>1, <1>2, <1>3, <1>4 DEF TypeOK, CallTypes, Searching
    <2>6. owner' \in [Page -> {"FREE", "HEAP", "OTHER"}]
      BY Zenon, <1>1, <1>2 DEF TypeOK
    <2>. QED
      BY <2>1, <2>2, <2>3, <2>4, <2>5, <2>6, Zenon DEF TypeOK
  <1>6. Tiled' /\ Placed'
    BY Zenon, <1>1, <1>2, SameTiles, SamePlaces
  <1>7. \A a \in Arenas : LiveIn(a)' = IF a = in[b] THEN LiveIn(a) \ {b}
                                       ELSE LiveIn(a)
    BY Zenon, <1>2, <1>3, <1>4 DEF LiveIn
  <1>8. Counted'
    <2>1. b \in LiveIn(in[b])
      BY Zenon, <1>2, <1>3 DEF LiveIn
    <2>2. \A a \in Arenas : live_blocks[a] = Cardinality(LiveIn(a))
      BY <1>1 DEF Counted
    <2>3. Cardinality(LiveIn(in[b]) \ {b}) = Cardinality(LiveIn(in[b])) - 1
      BY <1>1, <2>1, LiveFinite DEF FiniteFacts
    <2>4. \A a \in Arenas : live_blocks'[a] = Cardinality(LiveIn(a)')
      BY Zenon, <1>2, <1>3, <1>4, <1>7, <2>2, <2>3
    <2>. QED
      BY <1>1, <1>4, <2>4 DEF Counted
  <1>9. Held'
    <2>1. ASSUME NEW x \in Blocks', ~is_free'[x]
          PROVE  x + BlockHeader \in DOMAIN given'
      <3>1. x \in Blocks /\ x # b /\ ~is_free[x]
        BY Zenon, <1>2, <1>3, <1>4, <2>1
      <3>2. x \in Nat /\ BlockHeader \in Nat /\ b \in Nat
        BY <1>1, <3>1, EndType, HeapAssumption
      <3>3. x + BlockHeader # b + BlockHeader
        BY <3>1, <3>2
      <3>. QED
        BY Zenon, <1>1, <1>2, <3>1, <3>3 DEF Held, Drop
    <2>2. ASSUME NEW ptr \in DOMAIN given'
          PROVE  /\ ptr - BlockHeader \in Blocks' /\ ~is_free'[ptr - BlockHeader]
                 /\ given'[ptr] <= size'[ptr - BlockHeader]
      <3>1. ptr \in DOMAIN given /\ ptr # b + BlockHeader /\ given'[ptr] = given[ptr]
        BY Zenon, <1>2 DEF Drop
      <3>2. ptr \in Nat /\ BlockHeader \in Nat /\ b \in Nat
        BY <1>1, <3>1, EndType, HeapAssumption DEF TypeOK
      <3>3. ptr - BlockHeader # b
        <4>1. (ptr - BlockHeader) + BlockHeader = ptr
          BY <3>2
        <4>. QED
          BY Zenon, <3>1, <4>1
      <3>. QED
        BY Zenon, <1>1, <1>2, <1>3, <1>4, <3>1, <3>3 DEF Held
    <2>. QED
      BY <2>1, <2>2 DEF Held
  <1>10. Merged'
    <2>1. \A y \in Blocks :
              next[y] # NULL => ~(is_free[y] /\ is_free[next[y]])
      BY Zenon, <1>1, <1>2 DEF Tight, Merged
    <2>2. \A y \in Blocks : next[y] # NULL => next[y] \in Blocks
      BY <1>1 DEF TypeOK, BlockTypes
    <2>. QED
      BY Zenon, <1>2, <1>3, <1>4, <2>1, <2>2 DEF Merged
  <1>11. Used'
    <2>1. \A a \in Arenas : LiveIn(a) # {}
      BY Zenon, <1>1, <1>2 DEF Tight, Used, Freeing
    <2>. QED
      BY Zenon, <1>2, <1>3, <1>4, <1>7, <2>1 DEF Used, Freeing
  <1>12. Freed' /\ FreshArenaFits'
    BY Zenon, <1>2, <1>4 DEF Freed, FreshArenaFits, find_block
  <1>. QED
    BY <1>5, <1>6, <1>8, <1>9, <1>10, <1>11, <1>12 DEF IInv, Tight

-----------------------------------------------------------------------------
(* merge_with_next                                                         *)

\* The headers after block b swallowed its successor n, field by field.
JoinAt(b, n) ==
    /\ Blocks' = Blocks \ {n}
    /\ size' = [x \in Blocks \ {n} |->
            IF x = b THEN size[b] + BlockHeader + size[n] ELSE size[x]]
    /\ is_free' = [x \in Blocks \ {n} |-> is_free[x]]
    /\ in' = [x \in Blocks \ {n} |-> in[x]]
    /\ next' = [x \in Blocks \ {n} |-> IF x = b THEN next[n] ELSE next[x]]
    /\ prev' = [x \in Blocks \ {n} |-> IF x = next[n] THEN b ELSE prev[x]]

\* merge_with_next joins a free successor.
LEMMA MergeFields ==
    ASSUME TypeOK, NEW b \in Blocks, NEW n \in Blocks, n = next[b],
           Mergeable(b), merge_with_next(b)
    PROVE  JoinAt(b, n)
  <1>1. /\ DOMAIN size = Blocks /\ DOMAIN is_free = Blocks /\ DOMAIN in = Blocks
        /\ DOMAIN next = Blocks /\ DOMAIN prev = Blocks
    BY DEF TypeOK, BlockTypes, Blocks
  <1>2. size' = [x \in Blocks \ {n} |->
            IF x = b THEN size[b] + BlockHeader + size[n] ELSE size[x]]
    BY <1>1 DEF merge_with_next, Drop
  <1>3. Blocks' = Blocks \ {n}
    BY <1>2 DEF Blocks
  <1>4. is_free' = [x \in Blocks \ {n} |-> is_free[x]]
    BY <1>1 DEF merge_with_next, Drop
  <1>5. in' = [x \in Blocks \ {n} |-> in[x]]
    BY <1>1 DEF merge_with_next, Drop
  <1>6. next' = [x \in Blocks \ {n} |-> IF x = b THEN next[n] ELSE next[x]]
    BY <1>1 DEF merge_with_next, Drop
  <1>7. prev' = [x \in Blocks \ {n} |-> IF x = next[n] THEN b ELSE prev[x]]
    BY <1>1 DEF merge_with_next, Drop
  <1>. QED
    BY <1>2, <1>3, <1>4, <1>5, <1>6, <1>7 DEF JoinAt

\* What holds of a block and its successor.
Follows(b, n) ==
    /\ n = End(b) /\ prev[n] = b /\ in[n] = in[b] /\ b < n
    /\ \A a \in Arenas : first[a] # n
    /\ \A x \in Blocks : next[x] = n => x = b
    /\ next[n] # n /\ next[n] # b

\* A block that has a successor ends where it begins.
LEMMA Neighbours ==
    ASSUME TypeOK, Tiled, NEW b \in Blocks, NEW n \in Blocks, n = next[b]
    PROVE  Follows(b, n)
  <1>1. n # NULL /\ b # NULL
    BY DEF TypeOK, BlockTypes
  <1>2. n = End(b) /\ prev[n] = b /\ in[n] = in[b]
    BY <1>1 DEF Tiled, Forward
  <1>3. b < n /\ n < End(n) /\ b \in Nat /\ n \in Nat /\ End(n) \in Nat
    BY <1>2, EndType
  <1>4. ASSUME NEW a \in Arenas, first[a] = n PROVE FALSE
    <2>1. in[b] = a
      BY <1>2, <1>4 DEF Tiled, FirstBlocks
    <2>2. Base(a) + ArenaHeader <= b
      BY <2>1 DEF Tiled, Inside
    <2>3. n = Base(a) + ArenaHeader
      BY <1>4 DEF Tiled, FirstBlocks
    <2>. QED
      BY <1>3, <2>2, <2>3
  <1>5. \A x \in Blocks : next[x] = n => x = b
    BY <1>1, <1>2 DEF Tiled, Forward
  <1>6. next[n] # NULL => next[n] = End(n)
    BY DEF Tiled, Forward
  <1>7. next[n] # n /\ next[n] # b
    BY <1>1, <1>3, <1>6
  <1>. QED
    BY <1>2, <1>3, <1>4, <1>5, <1>7 DEF Follows

\* The arena stays covered after merge_with_next.
LEMMA JoinTiles ==
    ASSUME TypeOK, Tiled, NEW b \in Blocks, NEW n \in Blocks, n = next[b],
           JoinAt(b, n), UNCHANGED <<page_count, first>>
    PROVE  Tiled'
  <1>1. /\ n = End(b) /\ prev[n] = b /\ in[n] = in[b] /\ b < n
        /\ \A a \in Arenas : first[a] # n
        /\ \A x \in Blocks : next[x] = n => x = b
        /\ next[n] # n /\ next[n] # b
    BY Neighbours DEF Follows
  <1>2. Arenas' = Arenas /\ n # b /\ b \in Blocks' /\ n # NULL /\ b # NULL
    BY <1>1, EndType DEF Arenas, JoinAt, TypeOK, BlockTypes
  <1>3. End(b)' = End(n)
    <2>1. End(b)' = b + BlockHeader + (size[b] + BlockHeader + size[n])
      BY <1>2 DEF JoinAt, End
    <2>. QED
      BY <1>1, <2>1, EndType, HeapAssumption
  <1>4. \A x \in Blocks' : x \in Blocks /\ x # n /\ (x # b => End(x)' = End(x))
    BY DEF JoinAt, End
  <1>5. Ordered'
    BY <1>1, <1>3, <1>4, EndType DEF Tiled, Ordered
  <1>6. FirstBlocks'
    BY <1>1, <1>2 DEF Tiled, FirstBlocks, JoinAt, TypeOK, ArenaTypes
  <1>7. Forward'
    <2>. SUFFICES ASSUME NEW x \in Blocks'
                  PROVE  IF next'[x] = NULL
                         THEN End(x)' = Base(in'[x] + page_count'[in'[x]])
                         ELSE /\ next'[x] = End(x)' /\ prev'[next'[x]] = x
                              /\ in'[next'[x]] = in'[x]
      BY DEF Forward
    <2>1. \A y \in Blocks : next[y] # NULL => next[y] \in Blocks
      BY DEF TypeOK, BlockTypes
    <2>2. CASE x = b
      BY <1>1, <1>2, <1>3, <2>1, <2>2 DEF Tiled, Forward, JoinAt
    <2>3. CASE x # b
      BY <1>1, <1>2, <1>4, <2>1, <2>3 DEF Tiled, Forward, JoinAt
    <2>. QED
      BY <2>2, <2>3
  <1>8. Backward'
    <2>. SUFFICES ASSUME NEW x \in Blocks'
                  PROVE  IF prev'[x] = NULL THEN x = first'[in'[x]]
                         ELSE next'[prev'[x]] = x
      BY DEF Backward
    <2>1. \A y \in Blocks : prev[y] # NULL => prev[y] \in Blocks
      BY DEF TypeOK, BlockTypes
    <2>2. CASE x = next[n]
      BY <1>1, <1>2, <1>4, <2>2 DEF JoinAt
    <2>3. CASE x # next[n]
      BY <1>1, <1>2, <1>4, <2>1, <2>3 DEF Tiled, Backward, JoinAt
    <2>. QED
      BY <2>2, <2>3
  <1>9. Inside'
    <2>. SUFFICES ASSUME NEW x \in Blocks'
                  PROVE  /\ Base(in'[x]) + ArenaHeader <= x
                         /\ End(x)' <= Base(in'[x] + page_count'[in'[x]])
      BY DEF Inside
    <2>1. x \in Blocks /\ in'[x] = in[x]
      BY DEF JoinAt
    <2>. QED
      BY <1>1, <1>3, <1>4, <2>1 DEF Tiled, Inside
  <1>. QED
    BY <1>5, <1>6, <1>7, <1>8, <1>9 DEF Tiled

\* Arithmetic: a sum of sizes.
LEMMA SumType == \A i, j, k \in Nat : i + j + k \in Nat
  OBVIOUS

\* Everything but Merged survives the merge of b with its successor.
LEMMA JoinStep ==
    ASSUME FiniteFacts, IInv, NEW b \in Blocks, NEW n \in Blocks, n = next[b],
           JoinAt(b, n), is_free[b], is_free[n], Freeing, in[cur] = in[b],
           pc' \in {"merge prev", "reclaim"}, cur' = b,
           UNCHANGED <<owner, heap_arenas, page_count, live_blocks, first,
                       given, want>>
    PROVE  /\ TypeOK' /\ Tiled' /\ Placed' /\ Counted' /\ Held' /\ Used'
           /\ Freed' /\ FreshArenaFits'
  <1>1. TypeOK /\ Tiled /\ Placed /\ Counted /\ Held /\ Tight
    BY Zenon DEF IInv
  <1>2. /\ n = End(b) /\ prev[n] = b /\ in[n] = in[b] /\ b < n
        /\ \A a \in Arenas : first[a] # n
        /\ \A x \in Blocks : next[x] = n => x = b
        /\ next[n] # n /\ next[n] # b
    <2>1. Follows(b, n)
      BY Zenon, <1>1, Neighbours
    <2>. QED
      BY Zenon, <2>1 DEF Follows
  <1>3. Arenas' = Arenas /\ n # b /\ b \in Blocks' /\ Blocks' = Blocks \ {n}
    BY Zenon, <1>1, <1>2, EndType DEF Arenas, JoinAt
  <1>4. TypeOK'
    <2>1. ArenaTypes'
      BY Zenon, <1>1, <1>2, <1>3 DEF TypeOK, ArenaTypes
    <2>2. Blocks' \subseteq Nat \ {NULL} /\ size' \in [Blocks' -> Nat]
      <3>1. \A x \in Blocks : size[x] \in Nat /\ x \in Nat \ {NULL}
        BY Zenon, <1>1 DEF TypeOK, BlockTypes
      <3>2. size[b] + BlockHeader + size[n] \in Nat
        BY <3>1, SumType, HeapAssumption, Zenon
      <3>. QED
        BY Zenon, <3>1, <3>2 DEF JoinAt
    <2>3. in' \in [Blocks' -> Arenas']
      BY Zenon, <1>1, <1>3 DEF TypeOK, BlockTypes, JoinAt
    <2>4. next' \in [Blocks' -> Blocks' \cup {NULL}]
      BY Zenon, <1>1, <1>2, <1>3 DEF TypeOK, BlockTypes, JoinAt
    <2>5. prev' \in [Blocks' -> Blocks' \cup {NULL}]
      <3>1. \A x \in Blocks : x # next[n] => prev[x] # n
        BY Zenon, <1>1 DEF Tiled, Backward, TypeOK, BlockTypes
      <3>2. \A x \in Blocks' : prev'[x] \in Blocks' \cup {NULL}
        BY Zenon, <1>1, <1>3, <3>1 DEF TypeOK, BlockTypes, JoinAt
      <3>. QED
        BY Zenon, <3>2 DEF JoinAt
    <2>6. BlockTypes'
      BY <2>2, <2>3, <2>4, <2>5, Zenon DEF BlockTypes
    <2>7. is_free' \in [Blocks' -> BOOLEAN]
      BY <1>1, Zenon DEF TypeOK, JoinAt
    <2>8. DOMAIN given' \subseteq Nat /\ given' \in [DOMAIN given' -> Nat]
      BY Zenon, <1>1 DEF TypeOK
    <2>9. CallTypes'
      <3>1. want' \in Nat
        BY Zenon, <1>1 DEF TypeOK, CallTypes
      <3>. QED
        BY Zenon, <1>3, <3>1 DEF CallTypes, Searching
    <2>10. owner' \in [Page -> {"FREE", "HEAP", "OTHER"}]
      BY Zenon, <1>1 DEF TypeOK
    <2>. QED
      BY <2>1, <2>6, <2>7, <2>8, <2>9, <2>10, Zenon DEF TypeOK
  <1>5. Tiled' /\ Placed'
    BY Zenon, <1>1, JoinTiles, SamePlaces
  <1>6. \A a \in Arenas : LiveIn(a)' = LiveIn(a)
    BY Zenon DEF LiveIn, JoinAt
  <1>7. Counted'
    <2>1. IsFiniteSet(Blocks')
      <3>1. Blocks' \subseteq Blocks
        BY Zenon, <1>3
      <3>. QED
        BY Zenon, <1>1, <3>1 DEF Counted, FiniteFacts
    <2>2. \A a \in Arenas : live_blocks'[a] = Cardinality(LiveIn(a)')
      BY Zenon, <1>1, <1>6 DEF Counted
    <2>. QED
      BY Zenon, <1>3, <2>1, <2>2 DEF Counted
  <1>8. Held'
    <2>1. \A x \in Blocks' : ~is_free'[x] => x + BlockHeader \in DOMAIN given'
      BY Zenon, <1>1 DEF Held, JoinAt
    <2>2. ASSUME NEW ptr \in DOMAIN given'
          PROVE  /\ ptr - BlockHeader \in Blocks' /\ ~is_free'[ptr - BlockHeader]
                 /\ given'[ptr] <= size'[ptr - BlockHeader]
      BY Zenon, <1>1 DEF Held, JoinAt
    <2>. QED
      BY Zenon, <2>1, <2>2 DEF Held
  <1>9. Used'
    <2>1. Freeing' /\ in'[cur'] = in[cur]
      BY Zenon, <1>3 DEF Freeing, JoinAt
    <2>2. \A a \in Arenas : LiveIn(a) # {} \/ in[cur] = a
      BY Zenon, <1>1 DEF Tight, Used, Freeing
    <2>. QED
      BY Zenon, <1>3, <1>6, <2>1, <2>2 DEF Used
  <1>10. Freed' /\ FreshArenaFits'
    BY Zenon, <1>3 DEF Freed, FreshArenaFits, JoinAt
  <1>. QED
    BY Zenon, <1>4, <1>5, <1>7, <1>8, <1>9, <1>10

\* A step of kfree that leaves the lists alone.
LEMMA NoJoin ==
    ASSUME IInv, Freeing, pc' \in {"merge prev", "reclaim"}, Merged',
           UNCHANGED <<owner, heap_arenas, arena, block, given, want, cur>>
    PROVE  IInv'
  <1>1. TypeOK /\ Tiled /\ Placed /\ Counted /\ Held /\ Tight
    BY Zenon DEF IInv
  <1>2. /\ UNCHANGED <<owner, heap_arenas, page_count, live_blocks, first>>
        /\ UNCHANGED <<size, is_free, in, prev, next, given, want, cur>>
        /\ Arenas' = Arenas /\ Blocks' = Blocks
    BY Zenon DEF arena, block, Arenas, Blocks
  <1>3. TypeOK'
    <2>1. CallTypes'
      BY Zenon, <1>1, <1>2 DEF TypeOK, CallTypes, Freeing, Searching
    <2>. QED
      BY Zenon, <1>1, <1>2, <2>1 DEF TypeOK, ArenaTypes, BlockTypes
  <1>4. Tiled' /\ Placed'
    BY Zenon, <1>1, <1>2, SameTiles, SamePlaces
  <1>5. \A a \in Arenas : LiveIn(a)' = LiveIn(a)
    BY Zenon, <1>2 DEF LiveIn
  <1>6. Counted' /\ Held'
    BY Zenon, <1>1, <1>2, <1>5 DEF Counted, Held
  <1>7. Used' /\ Freed' /\ FreshArenaFits'
    BY Zenon, <1>1, <1>2, <1>5 DEF Tight, Used, Freed, Freeing, FreshArenaFits
  <1>. QED
    BY Zenon, <1>3, <1>4, <1>6, <1>7 DEF IInv, Tight

\* kfree merges the block with its successor.
LEMMA MergeNextStep == FiniteFacts /\ IInv /\ KfreeMergeNext => IInv'
  <1>. SUFFICES ASSUME FiniteFacts, IInv, KfreeMergeNext PROVE IInv'
    OBVIOUS
  <1>1. TypeOK /\ Tiled /\ Tight
    BY DEF IInv
  <1>2. /\ pc = "merge next" /\ Freeing /\ pc' = "merge prev" /\ cur' = cur
        /\ merge_with_next(cur)
        /\ UNCHANGED <<owner, heap_arenas, arena, given, want>>
    BY Zenon DEF KfreeMergeNext, Freeing
  <1>3. cur \in Blocks
    BY Zenon, <1>1, <1>2 DEF TypeOK, CallTypes, Freeing
  <1>4. is_free[cur]
    BY Zenon, <1>1, <1>2 DEF Tight, Freed
  <1>5. CASE Mergeable(cur)
    <2>1. PICK n \in Blocks : n = next[cur]
      BY <1>1, <1>3, <1>5 DEF Mergeable, TypeOK, BlockTypes
    <2>2. JoinAt(cur, n) /\ is_free[n]
      BY Zenon, <1>1, <1>2, <1>3, <1>5, <2>1, MergeFields DEF Mergeable
    <2>3. Follows(cur, n)
      BY <1>1, <1>3, <2>1, Neighbours
    <2>4. Merged'
      <3>. SUFFICES ASSUME NEW x \in Blocks', next'[x] # NULL, is_free'[x],
                           is_free'[next'[x]]
                    PROVE  cur = next'[x]
        BY Zenon, <1>2 DEF Merged
      <3>1. x \in Blocks /\ x # n /\ is_free[x]
        BY <2>2 DEF JoinAt
      <3>2. \A y \in Blocks : next[y] # NULL => next[y] \in Blocks
        BY <1>1 DEF TypeOK, BlockTypes
      <3>3. CASE x = cur
        <4>1. next'[x] = next[n] /\ next[n] \in Blocks \ {n}
          BY <2>2, <2>3, <3>1, <3>2, <3>3 DEF JoinAt, Follows
        <4>2. is_free[next[n]]
          BY <2>2, <4>1 DEF JoinAt
        <4>3. cur = n \/ cur = next[n]
          BY Zenon, <1>1, <1>2, <2>2, <4>1, <4>2 DEF Tight, Merged
        <4>. QED
          BY <2>3, <3>1, <3>3, <4>3 DEF Follows
      <3>4. CASE x # cur
        <4>1. next'[x] = next[x] /\ next[x] \in Blocks \ {n}
          BY <2>2, <2>3, <3>1, <3>2, <3>4 DEF JoinAt, Follows
        <4>2. is_free[next[x]]
          BY <2>2, <4>1 DEF JoinAt
        <4>. QED
          BY Zenon, <1>1, <1>2, <3>1, <3>4, <4>1, <4>2 DEF Tight, Merged
      <3>. QED
        BY <3>3, <3>4
    <2>5. UNCHANGED <<page_count, live_blocks, first>>
      BY Zenon, <1>2 DEF arena
    <2>6. /\ TypeOK' /\ Tiled' /\ Placed' /\ Counted' /\ Held' /\ Used'
          /\ Freed' /\ FreshArenaFits'
      BY Zenon, <1>2, <1>3, <1>4, <2>1, <2>2, <2>5, JoinStep
    <2>. QED
      BY <2>4, <2>6 DEF IInv, Tight
  <1>6. CASE ~Mergeable(cur)
    <2>1. UNCHANGED block
      BY Zenon, <1>2, <1>6 DEF merge_with_next
    <2>2. next[cur] # NULL => ~is_free[next[cur]]
      BY <1>1, <1>3, <1>6 DEF Mergeable, Tiled, Forward
    <2>3. Merged'
      BY Zenon, <1>1, <1>2, <2>1, <2>2 DEF Tight, Merged, block, Blocks
    <2>. QED
      BY Zenon, <1>2, <2>1, <2>3, NoJoin
  <1>. QED
    BY <1>5, <1>6

\* kfree merges the block with its predecessor.
LEMMA MergePrevStep == FiniteFacts /\ IInv /\ KfreeMergePrev => IInv'
  <1>. SUFFICES ASSUME FiniteFacts, IInv, KfreeMergePrev PROVE IInv'
    OBVIOUS
  <1>1. TypeOK /\ Tiled /\ Tight
    BY DEF IInv
  <1>2. /\ pc = "merge prev" /\ Freeing /\ pc' = "reclaim"
        /\ UNCHANGED <<owner, heap_arenas, arena, given, want>>
    BY Zenon DEF KfreeMergePrev, Freeing
  <1>3. cur \in Blocks
    BY Zenon, <1>1, <1>2 DEF TypeOK, CallTypes, Freeing
  <1>4. is_free[cur]
    BY Zenon, <1>1, <1>2 DEF Tight, Freed
  <1>5. \A y \in Blocks : next[y] # NULL /\ is_free[y] /\ is_free[next[y]] =>
                            cur = next[y]
    BY Zenon, <1>1, <1>2 DEF Tight, Merged
  <1>6. CASE prev[cur] # NULL /\ is_free[prev[cur]]
    <2>1. PICK b \in Blocks : b = prev[cur]
      BY <1>1, <1>3, <1>6 DEF TypeOK, BlockTypes
    <2>2. PICK n \in Blocks : n = cur
      BY <1>3
    <2>3. n = next[b] /\ n # NULL
      BY <1>1, <1>3, <1>6, <2>1, <2>2 DEF Tiled, Backward, TypeOK, BlockTypes
    <2>4. Follows(b, n)
      BY <1>1, <2>3, Neighbours
    <2>5. Mergeable(b)
      BY <1>4, <2>2, <2>3, <2>4 DEF Mergeable, Follows
    <2>6. merge_with_next(b) /\ cur' = b
      BY Zenon, <1>6, <2>1 DEF KfreeMergePrev
    <2>7. JoinAt(b, n)
      BY <1>1, <2>3, <2>5, <2>6, MergeFields
    <2>8. Merged'
      <3>. SUFFICES ASSUME NEW x \in Blocks', next'[x] # NULL, is_free'[x],
                           is_free'[next'[x]]
                    PROVE  FALSE
        BY Zenon DEF Merged
      <3>1. x \in Blocks /\ x # n /\ is_free[x]
        BY <2>7 DEF JoinAt
      <3>2. \A y \in Blocks : next[y] # NULL => next[y] \in Blocks
        BY <1>1 DEF TypeOK, BlockTypes
      <3>3. CASE x = b
        <4>1. next'[x] = next[n] /\ next[n] \in Blocks \ {n}
          BY <2>4, <2>7, <3>1, <3>2, <3>3 DEF JoinAt, Follows
        <4>2. is_free[next[n]]
          BY <2>7, <4>1 DEF JoinAt
        <4>. QED
          BY <1>4, <1>5, <2>2, <4>1, <4>2
      <3>4. CASE x # b
        <4>1. next'[x] = next[x] /\ next[x] \in Blocks \ {n}
          BY <2>4, <2>7, <3>1, <3>2, <3>4 DEF JoinAt, Follows
        <4>2. is_free[next[x]]
          BY <2>7, <4>1 DEF JoinAt
        <4>. QED
          BY <1>5, <2>2, <3>1, <4>1, <4>2
      <3>. QED
        BY <3>3, <3>4
    <2>9. UNCHANGED <<page_count, live_blocks, first>>
      BY Zenon, <1>2 DEF arena
    <2>10. in[cur] = in[b] /\ is_free[b] /\ is_free[n]
      BY <1>4, <1>6, <2>1, <2>2, <2>4 DEF Follows
    <2>11. /\ TypeOK' /\ Tiled' /\ Placed' /\ Counted' /\ Held' /\ Used'
           /\ Freed' /\ FreshArenaFits'
      BY Zenon, <1>2, <2>3, <2>6, <2>7, <2>9, <2>10, JoinStep
    <2>. QED
      BY <2>8, <2>11 DEF IInv, Tight
  <1>7. CASE ~(prev[cur] # NULL /\ is_free[prev[cur]])
    <2>1. UNCHANGED <<block, cur>>
      BY Zenon, <1>7 DEF KfreeMergePrev
    <2>2. \A y \in Blocks : next[y] = cur => prev[cur] = y /\ y # NULL
      BY <1>1, <1>3 DEF Tiled, Forward, TypeOK, BlockTypes
    <2>3. Merged'
      BY Zenon, <1>5, <1>7, <2>1, <2>2 DEF Merged, block, Blocks
    <2>. QED
      BY Zenon, <1>2, <2>1, <2>3, NoJoin
  <1>. QED
    BY <1>6, <1>7

-----------------------------------------------------------------------------
(* reclaim_empty_arena                                                     *)

\* unlink_arena leaves one place of the list out.
LEMMA UnlinkFacts ==
    ASSUME NEW S, NEW s \in Seq(S), NEW k \in DOMAIN s
    PROVE  /\ unlink_arena(s, k) \in Seq(S)
           /\ DOMAIN unlink_arena(s, k) = 1 .. (Len(s) - 1)
           /\ DOMAIN s = 1 .. Len(s) /\ Len(s) \in Nat /\ k \in 1 .. Len(s)
           /\ \A i \in 1 .. (Len(s) - 1) :
                unlink_arena(s, k)[i] = IF i < k THEN s[i] ELSE s[i + 1]
  <1>1. /\ Len(s) \in Nat /\ DOMAIN s = 1 .. Len(s) /\ s \in [1 .. Len(s) -> S]
        /\ k \in 1 .. Len(s)
    OBVIOUS
  <1>2. unlink_arena(s, k) \in [1 .. (Len(s) - 1) -> S]
    BY <1>1 DEF unlink_arena
  <1>3. Len(s) - 1 \in Nat
    BY <1>1
  <1>4. unlink_arena(s, k) \in Seq(S)
    BY <1>2, <1>3
  <1>. QED
    BY <1>1, <1>2, <1>4 DEF unlink_arena

\* Everything after arena a was given back, field by field.
GoneWith(a) ==
    /\ Arenas' = Arenas \ {a} /\ Blocks' = {x \in Blocks : in[x] # a}
    /\ page_count' = [c \in Arenas \ {a} |-> page_count[c]]
    /\ live_blocks' = [c \in Arenas \ {a} |-> live_blocks[c]]
    /\ first' = [c \in Arenas \ {a} |-> first[c]]
    /\ size' = [x \in Blocks' |-> size[x]]
    /\ is_free' = [x \in Blocks' |-> is_free[x]]
    /\ in' = [x \in Blocks' |-> in[x]]
    /\ prev' = [x \in Blocks' |-> prev[x]]
    /\ next' = [x \in Blocks' |-> next[x]]

\* The frames of an arena are the heap's: free_pages_owned accepts them.
LEMMA ReclaimFields ==
    ASSUME TypeOK, Placed, NEW a \in Arenas, NEW k, reclaim_empty_arena(a, k)
    PROVE  /\ GoneWith(a) /\ heap_arenas' = unlink_arena(heap_arenas, k)
           /\ owner' = [q \in Page |-> IF q \in Run(a, page_count[a]) THEN "FREE"
                                       ELSE owner[q]]
  <1>1. \A q \in Run(a, page_count[a]) : q \in Page /\ owner[q] = "HEAP"
    BY DEF Placed, Frames
  <1>2. /\ DOMAIN size = Blocks /\ DOMAIN is_free = Blocks /\ DOMAIN in = Blocks
        /\ DOMAIN next = Blocks /\ DOMAIN prev = Blocks
        /\ DOMAIN page_count = Arenas /\ DOMAIN live_blocks = Arenas
        /\ DOMAIN first = Arenas
    BY DEF TypeOK, BlockTypes, ArenaTypes, Blocks, Arenas
  <1>3. Blocks \ {x \in Blocks : in[x] = a} = {x \in Blocks : in[x] # a}
    OBVIOUS
  <1>4. /\ size' = [x \in {y \in Blocks : in[y] # a} |-> size[x]]
        /\ page_count' = [c \in Arenas \ {a} |-> page_count[c]]
    BY Zenon, <1>1, <1>2, <1>3 DEF reclaim_empty_arena, Drop
  <1>5. Arenas' = Arenas \ {a} /\ Blocks' = {x \in Blocks : in[x] # a}
    BY <1>4 DEF Blocks, Arenas
  <1>6. /\ live_blocks' = [c \in Arenas \ {a} |-> live_blocks[c]]
        /\ first' = [c \in Arenas \ {a} |-> first[c]]
    BY Zenon, <1>1, <1>2 DEF reclaim_empty_arena, Drop
  <1>7. is_free' = [x \in {y \in Blocks : in[y] # a} |-> is_free[x]]
    BY Zenon, <1>1, <1>2, <1>3 DEF reclaim_empty_arena, Drop
  <1>8. /\ in' = [x \in {y \in Blocks : in[y] # a} |-> in[x]]
        /\ prev' = [x \in {y \in Blocks : in[y] # a} |-> prev[x]]
        /\ next' = [x \in {y \in Blocks : in[y] # a} |-> next[x]]
    BY Zenon, <1>1, <1>2, <1>3 DEF reclaim_empty_arena, Drop
  <1>9. /\ heap_arenas' = unlink_arena(heap_arenas, k)
        /\ owner' = [q \in Page |-> IF q \in Run(a, page_count[a]) THEN "FREE"
                                    ELSE owner[q]]
    BY Zenon, <1>1 DEF reclaim_empty_arena
  <1>10. GoneWith(a)
    BY Zenon, <1>4, <1>5, <1>6, <1>7, <1>8 DEF GoneWith
  <1>. QED
    BY <1>9, <1>10

\* The list t names every member of S once.
ListOf(t, S) ==
    /\ t \in Seq(S)
    /\ \A c \in S : \E i \in DOMAIN t : t[i] = c
    /\ \A i, j \in DOMAIN t : t[i] = t[j] => i = j

\* After unlink_arena the list names the other arenas, each once.
LEMMA UnlinkListed ==
    ASSUME TypeOK, Listed, NEW a \in Arenas, NEW k \in DOMAIN heap_arenas,
           heap_arenas[k] = a
    PROVE  ListOf(unlink_arena(heap_arenas, k), Arenas \ {a})
  <1>. DEFINE t == unlink_arena(heap_arenas, k)
              s == heap_arenas
  <1>1. s \in Seq(Arenas)
    BY DEF TypeOK, ArenaTypes
  <1>2. /\ t \in Seq(Arenas) /\ DOMAIN t = 1 .. (Len(s) - 1)
        /\ DOMAIN s = 1 .. Len(s) /\ Len(s) \in Nat /\ k \in 1 .. Len(s)
        /\ \A i \in 1 .. (Len(s) - 1) :
                t[i] = IF i < k THEN s[i] ELSE s[i + 1]
    BY Zenon, <1>1, UnlinkFacts
  <1>3. \A i, j \in DOMAIN s : s[i] = s[j] => i = j
    BY DEF Listed
  <1>4. \A c \in Arenas : \E i \in DOMAIN s : s[i] = c
    BY DEF Listed
  <1>5. s[k] = a
    OBVIOUS
  <1>. HIDE DEF t, s
  <1>6. \A i \in 1 .. (Len(s) - 1) : t[i] # a /\ t[i] \in Arenas
    <2>. SUFFICES ASSUME NEW i \in 1 .. (Len(s) - 1) PROVE t[i] # a /\ t[i] \in Arenas
      BY Zenon
    <2>1. \A j \in 1 .. Len(s) : s[j] \in Arenas
      BY <1>1, <1>2
    <2>2. i \in 1 .. Len(s) /\ i + 1 \in 1 .. Len(s)
      BY <1>2
    <2>3. CASE i < k
      BY <1>2, <1>3, <1>5, <2>1, <2>2, <2>3
    <2>4. CASE ~(i < k)
      <3>1. i + 1 # k
        BY <1>2, <2>4
      <3>. QED
        BY <1>2, <1>3, <1>5, <2>1, <2>2, <2>4, <3>1
    <2>. QED
      BY Zenon, <2>3, <2>4
  <1>7. t \in Seq(Arenas \ {a})
    <2>1. Len(s) - 1 \in Nat
      BY <1>2
    <2>2. t \in [1 .. (Len(s) - 1) -> Arenas \ {a}]
      BY <1>2, <1>6
    <2>. QED
      BY <2>1, <2>2
  <1>8. ASSUME NEW c \in Arenas \ {a} PROVE \E i \in DOMAIN t : t[i] = c
    <2>1. PICK i \in DOMAIN s : s[i] = c
      BY <1>4
    <2>2. i # k
      BY <1>5, <2>1
    <2>3. CASE i < k
      <3>1. i \in 1 .. (Len(s) - 1) /\ t[i] = s[i]
        BY <1>2, <2>3
      <3>. QED
        BY <1>2, <2>1, <3>1
    <2>4. CASE k < i
      <3>1. i - 1 \in 1 .. (Len(s) - 1) /\ t[i - 1] = s[i]
        BY <1>2, <2>4
      <3>. QED
        BY <1>2, <2>1, <3>1
    <2>. QED
      BY <1>2, <2>2, <2>3, <2>4
  <1>9. ASSUME NEW i \in DOMAIN t, NEW j \in DOMAIN t, t[i] = t[j] PROVE i = j
    <2>. DEFINE at(m) == IF m < k THEN m ELSE m + 1
    <2>1. /\ at(i) \in DOMAIN s /\ at(j) \in DOMAIN s
          /\ t[i] = s[at(i)] /\ t[j] = s[at(j)]
      BY <1>2
    <2>2. at(i) = at(j)
      BY Zenon, <1>3, <1>9, <2>1
    <2>. QED
      BY <1>2, <2>2
  <1>. QED
    BY <1>7, <1>8, <1>9 DEF t, s, ListOf

\* The other arenas stay covered.
LEMMA ReclaimTiles ==
    ASSUME TypeOK, Tiled, NEW a \in Arenas, GoneWith(a)
    PROVE  Tiled'
  <1>1. \A x \in Blocks' : /\ x \in Blocks /\ in[x] # a /\ in'[x] = in[x]
                           /\ in[x] \in Arenas \ {a}
                           /\ next'[x] = next[x] /\ prev'[x] = prev[x]
    BY DEF GoneWith, TypeOK, BlockTypes
  <1>2. \A c \in Arenas' : /\ c \in Arenas \ {a} /\ page_count'[c] = page_count[c]
                           /\ first'[c] = first[c] /\ first[c] \in Blocks
    BY DEF GoneWith, TypeOK, ArenaTypes
  <1>3. Arenas' = Arenas \ {a} /\ \A x \in Blocks : in[x] # a => x \in Blocks'
    BY DEF GoneWith
  <1>4. \A x \in Blocks' : End(x)' = End(x)
    BY DEF GoneWith, End
  <1>5. \A x \in Blocks' : /\ next[x] # NULL => next[x] \in Blocks
                           /\ prev[x] # NULL => prev[x] \in Blocks
    BY <1>1 DEF TypeOK, BlockTypes
  <1>6. \A x \in Blocks' : /\ next[x] # NULL => next[x] \in Blocks'
                           /\ prev[x] # NULL => prev[x] \in Blocks'
    <2>. SUFFICES ASSUME NEW x \in Blocks'
                  PROVE  /\ next[x] # NULL => next[x] \in Blocks'
                         /\ prev[x] # NULL => prev[x] \in Blocks'
      OBVIOUS
    <2>1. next[x] # NULL => in[next[x]] = in[x]
      BY <1>1 DEF Tiled, Forward
    <2>2. x # NULL
      BY <1>1 DEF TypeOK, BlockTypes
    <2>3. prev[x] # NULL => next[prev[x]] = x
      BY <1>1 DEF Tiled, Backward
    <2>4. prev[x] # NULL => in[x] = in[prev[x]]
      BY <1>5, <2>2, <2>3 DEF Tiled, Forward
    <2>. QED
      BY <1>1, <1>3, <1>5, <2>1, <2>4
  <1>7. Ordered'
    BY <1>1, <1>4 DEF Tiled, Ordered
  <1>8. FirstBlocks'
    <2>1. \A c \in Arenas' : first[c] \in Blocks'
      BY <1>2, <1>3 DEF Tiled, FirstBlocks
    <2>. QED
      BY <1>1, <1>2, <2>1 DEF Tiled, FirstBlocks
  <1>9. Forward'
    BY <1>1, <1>2, <1>3, <1>4, <1>6 DEF Tiled, Forward
  <1>10. Backward'
    <2>1. ASSUME NEW x \in Blocks', prev'[x] = NULL PROVE x = first'[in'[x]]
      <3>1. x \in Blocks /\ prev[x] = NULL /\ in'[x] = in[x] /\ in[x] \in Arenas'
        BY <1>1, <1>3, <2>1
      <3>2. x = first[in[x]]
        BY <3>1 DEF Tiled, Backward
      <3>. QED
        BY <1>2, <3>1, <3>2
    <2>2. ASSUME NEW x \in Blocks', prev'[x] # NULL PROVE next'[prev'[x]] = x
      <3>1. x \in Blocks /\ prev'[x] = prev[x] /\ prev[x] # NULL /\ prev[x] \in Blocks'
        BY <1>1, <1>6, <2>2
      <3>2. next[prev[x]] = x
        BY <3>1 DEF Tiled, Backward
      <3>. QED
        BY <1>1, <3>1, <3>2
    <2>. QED
      BY <2>1, <2>2 DEF Backward
  <1>11. Inside'
    BY <1>1, <1>2, <1>3, <1>4 DEF Tiled, Inside
  <1>. QED
    BY <1>7, <1>8, <1>9, <1>10, <1>11 DEF Tiled

\* kfree gives an arena without live blocks back.
LEMMA GiveBackStep ==
    ASSUME FiniteFacts, IInv, NEW a \in Arenas, NEW k \in DOMAIN heap_arenas,
           pc = "reclaim", a = in[cur], live_blocks[a] = 0, heap_arenas[k] = a,
           reclaim_empty_arena(a, k), pc' = "idle", cur' = NULL,
           UNCHANGED <<given, want>>
    PROVE  IInv'
  <1>1. TypeOK /\ Tiled /\ Placed /\ Counted /\ Held /\ Tight
    BY DEF IInv
  <1>2. /\ GoneWith(a) /\ heap_arenas' = unlink_arena(heap_arenas, k)
        /\ owner' = [q \in Page |-> IF q \in Run(a, page_count[a]) THEN "FREE"
                                    ELSE owner[q]]
    BY <1>1, ReclaimFields
  <1>3. LiveIn(a) = {}
    BY Zenon, <1>1, LiveFinite DEF Counted, FiniteFacts
  <1>4. /\ heap_arenas' \in Seq(Arenas \ {a})
        /\ \A c \in Arenas \ {a} :
                \E i \in DOMAIN heap_arenas' : heap_arenas'[i] = c
        /\ \A i, j \in DOMAIN heap_arenas' :
                heap_arenas'[i] = heap_arenas'[j] => i = j
    <2>1. ListOf(unlink_arena(heap_arenas, k), Arenas \ {a})
      BY <1>1, UnlinkListed DEF Placed
    <2>. QED
      BY <1>2, <2>1 DEF ListOf
  <1>5. TypeOK'
    <2>1. ArenaTypes'
      <3>1. \A c \in Arenas \ {a} : first[c] \in Blocks'
        BY <1>1, <1>2 DEF GoneWith, Tiled, FirstBlocks, TypeOK, ArenaTypes
      <3>2. first' \in [Arenas' -> Blocks']
        BY Zenon, <1>2, <3>1 DEF GoneWith
      <3>3. /\ Arenas' \subseteq Page /\ page_count' \in [Arenas' -> Nat \ {0}]
            /\ live_blocks' \in [Arenas' -> Nat]
        BY <1>1, <1>2 DEF GoneWith, TypeOK, ArenaTypes
      <3>4. heap_arenas' \in Seq(Arenas')
        BY Zenon, <1>2, <1>4 DEF GoneWith
      <3>. QED
        BY <3>2, <3>3, <3>4 DEF ArenaTypes
    <2>2. BlockTypes'
      <3>1. /\ Blocks' \subseteq Nat \ {NULL} /\ size' \in [Blocks' -> Nat]
            /\ in' \in [Blocks' -> Arenas']
        BY <1>1, <1>2 DEF GoneWith, TypeOK, BlockTypes
      <3>2. \A x \in Blocks' : x \in Blocks /\ in[x] # a
        BY Zenon, <1>2 DEF GoneWith
      <3>3. \A x \in Blocks : x # NULL
        BY <1>1 DEF TypeOK, BlockTypes
      <3>4. \A x \in Blocks' : next[x] \in Blocks' \cup {NULL}
        <4>1. \A x \in Blocks : next[x] # NULL => next[x] \in Blocks /\ in[next[x]] = in[x]
          BY <1>1 DEF Tiled, Forward, TypeOK, BlockTypes
        <4>. QED
          BY Zenon, <1>2, <3>2, <4>1 DEF GoneWith
      <3>5. \A x \in Blocks' : prev[x] \in Blocks' \cup {NULL}
        <4>1. \A x \in Blocks : prev[x] # NULL => prev[x] \in Blocks /\ next[prev[x]] = x
          BY <1>1 DEF Tiled, Backward, TypeOK, BlockTypes
        <4>2. \A x \in Blocks : prev[x] # NULL => in[prev[x]] = in[x]
          BY <1>1, <3>3, <4>1 DEF Tiled, Forward
        <4>. QED
          BY Zenon, <1>2, <3>2, <4>1, <4>2 DEF GoneWith
      <3>6. /\ prev' \in [Blocks' -> Blocks' \cup {NULL}]
            /\ next' \in [Blocks' -> Blocks' \cup {NULL}]
        BY Zenon, <1>2, <3>4, <3>5 DEF GoneWith
      <3>. QED
        BY <3>1, <3>6, Zenon DEF BlockTypes
    <2>3. is_free' \in [Blocks' -> BOOLEAN]
      BY <1>1, <1>2, Zenon DEF GoneWith, TypeOK
    <2>4. DOMAIN given' \subseteq Nat /\ given' \in [DOMAIN given' -> Nat]
      BY <1>1 DEF TypeOK
    <2>5. CallTypes'
      BY <1>1 DEF TypeOK, CallTypes, Searching
    <2>6. owner' \in [Page -> {"FREE", "HEAP", "OTHER"}]
      BY <1>1, <1>2 DEF TypeOK
    <2>. QED
      BY <2>1, <2>2, <2>3, <2>4, <2>5, <2>6, Zenon DEF TypeOK
  <1>6. Tiled'
    BY <1>1, <1>2, ReclaimTiles
  <1>7. Placed'
    <2>1. /\ Arenas' = Arenas \ {a}
          /\ \A c \in Arenas \ {a} : page_count'[c] = page_count[c]
      BY Zenon, <1>2 DEF GoneWith
    <2>2. Apart'
      BY <1>1, <2>1 DEF Placed, Apart
    <2>3. \A c \in Arenas \ {a} : Run(c, page_count[c]) \cap Run(a, page_count[a]) = {}
      <3>1. \A c \in Arenas : c \in Nat /\ page_count[c] \in Nat
        BY <1>1, HeapAssumption DEF TypeOK, ArenaTypes
      <3>. QED
        BY <1>1, <3>1 DEF Placed, Apart, Run
    <2>4. Frames'
      BY Zenon, <1>1, <1>2, <2>1, <2>3 DEF Placed, Frames
    <2>5. Listed'
      BY Zenon, <1>4, <2>1 DEF Listed
    <2>. QED
      BY <2>2, <2>4, <2>5 DEF Placed
  <1>8. \A c \in Arenas \ {a} : LiveIn(c)' = LiveIn(c)
    BY Zenon, <1>2 DEF GoneWith, LiveIn
  <1>9. Counted'
    <2>1. IsFiniteSet(Blocks')
      <3>1. Blocks' \subseteq Blocks /\ IsFiniteSet(Blocks)
        BY Zenon, <1>1, <1>2 DEF GoneWith, Counted
      <3>. QED
        BY <3>1 DEF FiniteFacts
    <2>2. \A c \in Arenas' : live_blocks'[c] = Cardinality(LiveIn(c)')
      BY Zenon, <1>1, <1>2, <1>8 DEF GoneWith, Counted
    <2>. QED
      BY <2>1, <2>2 DEF Counted
  <1>10. Held'
    <2>1. \A x \in Blocks : ~is_free[x] => in[x] # a
      BY <1>3 DEF LiveIn
    <2>2. \A x \in Blocks' : ~is_free'[x] => x + BlockHeader \in DOMAIN given'
      BY Zenon, <1>1, <1>2 DEF GoneWith, Held
    <2>3. ASSUME NEW ptr \in DOMAIN given'
          PROVE  /\ ptr - BlockHeader \in Blocks' /\ ~is_free'[ptr - BlockHeader]
                 /\ given'[ptr] <= size'[ptr - BlockHeader]
      BY Zenon, <1>1, <1>2, <2>1 DEF GoneWith, Held
    <2>. QED
      BY <2>2, <2>3 DEF Held
  <1>11. Merged'
    <2>1. \A x \in Blocks : next[x] # NULL => ~(is_free[x] /\ is_free[next[x]])
      BY <1>1 DEF Tight, Merged
    <2>2. \A x \in Blocks' : /\ x \in Blocks /\ next'[x] = next[x]
                             /\ is_free'[x] = is_free[x]
      BY Zenon, <1>2 DEF GoneWith
    <2>3. \A x \in Blocks' : next'[x] # NULL => next'[x] \in Blocks'
      BY <1>5 DEF TypeOK, BlockTypes
    <2>. QED
      BY <2>1, <2>2, <2>3 DEF Merged
  <1>12. Used' /\ Freed' /\ FreshArenaFits'
    <2>1. \A c \in Arenas \ {a} : LiveIn(c) # {}
      BY <1>1 DEF Tight, Used
    <2>2. Used'
      BY Zenon, <1>2, <1>8, <2>1 DEF Used, GoneWith
    <2>. QED
      BY <2>2 DEF Freed, Freeing, FreshArenaFits
  <1>. QED
    BY <1>5, <1>6, <1>7, <1>9, <1>10, <1>11, <1>12 DEF IInv, Tight

\* The arena still has a live block.
LEMMA KeepStep ==
    ASSUME FiniteFacts, IInv, pc = "reclaim", live_blocks[in[cur]] # 0, pc' = "idle",
           cur' = NULL, UNCHANGED <<owner, heap_arenas, arena, block, given, want>>
    PROVE  IInv'
  <1>1. TypeOK /\ Tiled /\ Placed /\ Counted /\ Held /\ Tight
    BY DEF IInv
  <1>2. /\ UNCHANGED <<owner, heap_arenas, page_count, live_blocks, first>>
        /\ UNCHANGED <<size, is_free, in, prev, next, given, want>>
        /\ Arenas' = Arenas /\ Blocks' = Blocks
    BY Zenon DEF arena, block, Arenas, Blocks
  <1>3. cur \in Blocks /\ in[cur] \in Arenas
    BY <1>1 DEF TypeOK, CallTypes, BlockTypes
  <1>4. TypeOK'
    <2>1. CallTypes'
      BY <1>1, <1>2 DEF TypeOK, CallTypes, Searching
    <2>. QED
      BY Zenon, <1>1, <1>2, <2>1 DEF TypeOK, ArenaTypes, BlockTypes
  <1>5. Tiled' /\ Placed'
    BY <1>1, <1>2, SameTiles, SamePlaces
  <1>6. \A a \in Arenas : LiveIn(a)' = LiveIn(a)
    BY <1>2 DEF LiveIn
  <1>7. Counted' /\ Held'
    BY Zenon, <1>1, <1>2, <1>6 DEF Counted, Held
  <1>8. LiveIn(in[cur]) # {}
    BY <1>1, <1>3, LiveFinite DEF Counted, FiniteFacts
  <1>9. Used'
    BY <1>1, <1>2, <1>6, <1>8 DEF Tight, Used
  <1>10. Merged' /\ Freed' /\ FreshArenaFits'
    BY Zenon, <1>1, <1>2 DEF Tight, Merged, Freed, Freeing, FreshArenaFits
  <1>. QED
    BY Zenon, <1>4, <1>5, <1>7, <1>9, <1>10 DEF IInv, Tight

\* The last step of kfree.
LEMMA ReclaimStep == FiniteFacts /\ IInv /\ KfreeReclaim => IInv'
  <1>. SUFFICES ASSUME FiniteFacts, IInv, KfreeReclaim PROVE IInv'
    OBVIOUS
  <1>1. pc = "reclaim" /\ pc' = "idle" /\ cur' = NULL /\ UNCHANGED <<given, want>>
    BY DEF KfreeReclaim
  <1>2. in[cur] \in Arenas
    BY <1>1 DEF IInv, TypeOK, CallTypes, BlockTypes
  <1>3. CASE live_blocks[in[cur]] # 0
    BY <1>1, <1>3, KeepStep DEF KfreeReclaim
  <1>4. CASE live_blocks[in[cur]] = 0
    <2>1. PICK k \in DOMAIN heap_arenas :
              heap_arenas[k] = in[cur] /\ reclaim_empty_arena(in[cur], k)
      BY <1>4 DEF KfreeReclaim
    <2>2. PICK a \in Arenas : a = in[cur]
      BY <1>2
    <2>3. heap_arenas[k] = a /\ reclaim_empty_arena(a, k) /\ live_blocks[a] = 0
      BY <1>4, <2>1, <2>2
    <2>. QED
      BY <1>1, <2>2, <2>3, GiveBackStep
  <1>. QED
    BY <1>3, <1>4


-----------------------------------------------------------------------------
(* split_block                                                             *)

\* The headers after block b was cut at r, field by field.
CutAt(b, r) ==
    /\ Blocks' = Blocks \cup {r}
    /\ size' = [x \in Blocks \cup {r} |->
            IF x = r THEN size[b] - want - BlockHeader
            ELSE IF x = b THEN want ELSE size[x]]
    /\ is_free' = [x \in Blocks \cup {r} |->
            IF x = r THEN TRUE ELSE IF x = b THEN FALSE ELSE is_free[x]]
    /\ in' = [x \in Blocks \cup {r} |-> IF x = r THEN in[b] ELSE in[x]]
    /\ next' = [x \in Blocks \cup {r} |->
            IF x = r THEN next[b] ELSE IF x = b THEN r ELSE next[x]]
    /\ prev' = [x \in Blocks \cup {r} |->
            IF x = r THEN b ELSE IF x = next[b] THEN r ELSE prev[x]]

\* split_block cuts the block at the address behind the wanted size.
LEMMA SplitFields ==
    ASSUME TypeOK, NEW b \in Blocks, NEW r, r = Rest(b), r \notin Blocks,
           split_block(b)
    PROVE  CutAt(b, r)
  <1>1. /\ DOMAIN size = Blocks /\ DOMAIN is_free = Blocks /\ DOMAIN in = Blocks
        /\ DOMAIN next = Blocks /\ DOMAIN prev = Blocks
    BY DEF TypeOK, BlockTypes, Blocks
  <1>2. size' = [x \in Blocks \cup {r} |->
                IF x = r THEN size[b] - want - BlockHeader
                ELSE IF x = b THEN want ELSE size[x]]
    BY <1>1 DEF split_block, Put
  <1>3. Blocks' = Blocks \cup {r}
    BY <1>2 DEF Blocks
  <1>4. is_free' = [x \in Blocks \cup {r} |->
                IF x = r THEN TRUE ELSE IF x = b THEN FALSE ELSE is_free[x]]
    BY Zenon, <1>1 DEF split_block, Put
  <1>5. in' = [x \in Blocks \cup {r} |-> IF x = r THEN in[b] ELSE in[x]]
    BY <1>1 DEF split_block, Put
  <1>6. next' = [x \in Blocks \cup {r} |->
                IF x = r THEN next[b] ELSE IF x = b THEN r ELSE next[x]]
    BY <1>1 DEF split_block, Put
  <1>7. prev' = [x \in Blocks \cup {r} |->
                IF x = r THEN b ELSE IF x = next[b] THEN r ELSE prev[x]]
    BY <1>1 DEF split_block, Put
  <1>. QED
    BY <1>2, <1>3, <1>4, <1>5, <1>6, <1>7 DEF CutAt

\* kmalloc takes a block and splits it.
LEMMA SplitStep ==
    ASSUME FiniteFacts, IInv, NEW b \in Blocks, KmallocFind(b), Splits(b)
    PROVE  IInv'
  <1>. PICK r : r = Rest(b)
    OBVIOUS
  <1>1. /\ TypeOK /\ Tiled /\ Placed /\ Counted /\ Held /\ Tight
        /\ want \in Nat \ {0} /\ BlockHeader \in Nat \ {0}
        /\ HEAP_ALIGNMENT \in Nat \ {0}
    <2>1. want \in Nat /\ want > 0
      BY Zenon DEF IInv, TypeOK, CallTypes, KmallocFind
    <2>. QED
      BY <2>1, HeapAssumption DEF IInv
  <1>2. /\ r \in Nat \ {0} /\ b < r /\ r = b + BlockHeader + want
        /\ size[b] - want - BlockHeader \in Nat
        /\ r + BlockHeader + (size[b] - want - BlockHeader) = End(b)
        /\ r < End(b)
    BY <1>1, EndType DEF Splits, Rest
  <1>3. r \notin Blocks
    BY <1>1, <1>2, NoBlockInside DEF Tiled
  <1>4. CutAt(b, r)
    <2>1. split_block(b)
      BY DEF KmallocFind
    <2>. QED
      BY <1>1, <1>3, <2>1, SplitFields
  <1>5. /\ UNCHANGED <<owner, heap_arenas, page_count, first, cur>>
        /\ live_blocks' = [live_blocks EXCEPT ![in[b]] = @ + 1]
        /\ given' = Put(given, b + BlockHeader, want)
        /\ pc' = "idle" /\ want' = 0 /\ Arenas' = Arenas
    BY DEF KmallocFind, Arenas
  <1>6. TypeOK'
    <2>1. Blocks' \subseteq Nat \ {NULL} /\ size' \in [Blocks' -> Nat]
      BY <1>1, <1>2, <1>4 DEF TypeOK, BlockTypes, CutAt, NULL
    <2>2. is_free' \in [Blocks' -> BOOLEAN]
      BY <1>1, <1>4, Zenon DEF TypeOK, CutAt
    <2>3. in' \in [Blocks' -> Arenas']
      BY <1>1, <1>4, <1>5 DEF TypeOK, BlockTypes, CutAt
    <2>4. /\ prev' \in [Blocks' -> Blocks' \cup {NULL}]
          /\ next' \in [Blocks' -> Blocks' \cup {NULL}]
      BY <1>1, <1>4 DEF TypeOK, BlockTypes, CutAt
    <2>5. BlockTypes'
      BY <2>1, <2>3, <2>4, Zenon DEF BlockTypes
    <2>6. ArenaTypes'
      <3>1. Blocks \subseteq Blocks'
        BY <1>4 DEF CutAt
      <3>2. in[b] \in Arenas
        BY <1>1 DEF TypeOK, BlockTypes
      <3>3. live_blocks' \in [Arenas' -> Nat]
        BY <1>1, <1>5, <3>2 DEF TypeOK, ArenaTypes
      <3>4. first' \in [Arenas' -> Blocks']
        BY <1>1, <1>5, <3>1 DEF TypeOK, ArenaTypes
      <3>. QED
        BY <1>1, <1>5, <3>3, <3>4 DEF TypeOK, ArenaTypes
    <2>7. DOMAIN given' \subseteq Nat /\ given' \in [DOMAIN given' -> Nat]
      BY <1>1, <1>5, EndType DEF TypeOK, Put
    <2>8. CallTypes'
      <3>1. cur' = NULL
        BY Zenon, <1>1, <1>5 DEF TypeOK, KmallocFind, CallTypes, Searching
      <3>. QED
        BY <1>5, <3>1 DEF CallTypes, Searching
    <2>9. owner' \in [Page -> {"FREE", "HEAP", "OTHER"}]
      BY <1>1, <1>5 DEF TypeOK
    <2>. QED
      BY <2>2, <2>5, <2>6, <2>7, <2>8, <2>9, Zenon DEF TypeOK
  <1>7. Tiled'
    <2>1. /\ End(b)' = r /\ End(r)' = End(b)
          /\ \A x \in Blocks : x # b => End(x)' = End(x)
      BY <1>1, <1>2, <1>3, <1>4 DEF CutAt, End
    <2>2. Ordered'
      BY <1>1, <1>2, <1>3, <1>4, <2>1, EndType DEF CutAt, Tiled, Ordered
    <2>3. FirstBlocks'
      BY <1>1, <1>3, <1>4, <1>5 DEF CutAt, Tiled, FirstBlocks, TypeOK, ArenaTypes
    <2>4. Forward'
      BY <1>1, <1>2, <1>3, <1>4, <1>5, <2>1
      DEF CutAt, Tiled, Forward, TypeOK, BlockTypes, NULL
    <2>5. Backward'
      BY <1>1, <1>2, <1>3, <1>4, <1>5
      DEF CutAt, Tiled, Backward, Forward, TypeOK, BlockTypes, NULL
    <2>6. Inside'
      <3>. SUFFICES ASSUME NEW x \in Blocks'
                    PROVE  /\ Base(in'[x]) + ArenaHeader <= x
                           /\ End(x)' <= Base(in'[x] + page_count'[in'[x]])
        BY DEF Inside
      <3>1. PICK y \in Blocks : /\ y <= x /\ End(x)' <= End(y) /\ in'[x] = in[y]
                                /\ End(x)' \in Nat /\ x \in Nat
        BY <1>1, <1>2, <1>3, <1>4, <2>1, EndType DEF CutAt
      <3>2. /\ Base(in[y]) \in Nat /\ Base(in[y] + page_count[in[y]]) \in Nat
            /\ y \in Nat /\ End(y) \in Nat /\ ArenaHeader \in Nat
        BY <1>1, EndType, BorderTypes
      <3>3. /\ Base(in[y]) + ArenaHeader <= y
            /\ End(y) <= Base(in[y] + page_count[in[y]])
        BY <1>1 DEF Tiled, Inside
      <3>. QED
        BY <1>5, <3>1, <3>2, <3>3
    <2>. QED
      BY <2>2, <2>3, <2>4, <2>5, <2>6 DEF Tiled
  <1>8. Placed'
    BY <1>1, <1>5 DEF Placed, Apart, Frames, Listed
  <1>9. Counted' /\ Used'
    <2>1. IsFiniteSet(Blocks')
      BY Zenon, <1>1, <1>3, <1>4 DEF CutAt, Counted, FiniteFacts
    <2>2. ASSUME NEW a \in Arenas
          PROVE  LiveIn(a)' = IF a = in[b] THEN LiveIn(a) \cup {b}
                              ELSE LiveIn(a)
      BY Zenon, <1>2, <1>3, <1>4 DEF CutAt, LiveIn
    <2>. QED
      BY <2>1, <2>2, TakenLive
  <1>10. Held'
    <2>1. is_free[b] /\ want <= size[b]
      BY DEF KmallocFind, Fits
    <2>2. \A x \in Blocks' : ~is_free'[x] => x + BlockHeader \in DOMAIN given'
      BY <1>1, <1>4, <1>5 DEF CutAt, Held, Put
    <2>3. ASSUME NEW ptr \in DOMAIN given'
          PROVE  /\ ptr - BlockHeader \in Blocks' /\ ~is_free'[ptr - BlockHeader]
                 /\ given'[ptr] <= size'[ptr - BlockHeader]
      <3>1. CASE ptr = b + BlockHeader
        BY <1>1, <1>2, <1>3, <1>4, <1>5, <3>1, EndType DEF CutAt, Put
      <3>2. CASE ptr # b + BlockHeader
        BY <1>1, <1>2, <1>3, <1>4, <1>5, <2>1, <3>2, EndType DEF CutAt, Put, Held, TypeOK
      <3>. QED
        BY <3>1, <3>2
    <2>. QED
      BY <2>2, <2>3 DEF Held
  <1>11. Tight' /\ FreshArenaFits'
    <2>1. Merged'
      <3>. SUFFICES ASSUME NEW x \in Blocks', next'[x] # NULL, is_free'[x],
                           is_free'[next'[x]]
                    PROVE  FALSE
        BY Zenon DEF Merged
      <3>1. \A y \in Blocks :
                next[y] # NULL => ~(is_free[y] /\ is_free[next[y]])
        BY Zenon, <1>1 DEF KmallocFind, Searching, Tight, Merged
      <3>2. next[b] # NULL => next[b] \in Blocks /\ next[b] # b
        BY <1>1, EndType DEF Tiled, Forward, TypeOK, BlockTypes
      <3>3. x = r \/ (x \in Blocks /\ x # b /\ x # r)
        BY <1>2, <1>4 DEF CutAt
      <3>4. CASE x = r
        BY <1>3, <1>4, <3>1, <3>2, <3>4 DEF CutAt, KmallocFind, Fits
      <3>5. CASE x \in Blocks /\ x # b /\ x # r
        <4>1. next'[x] = next[x] /\ next[x] \in Blocks
          BY <1>1, <1>4, <3>5 DEF CutAt, TypeOK, BlockTypes
        <4>. QED
          BY <1>3, <1>4, <3>1, <3>5, <4>1 DEF CutAt, KmallocFind, Fits
      <3>. QED
        BY <3>3, <3>4, <3>5
    <2>2. Used'
      BY <1>9
    <2>3. Freed' /\ FreshArenaFits'
      BY <1>5 DEF Freed, Freeing, FreshArenaFits
    <2>. QED
      BY <2>1, <2>2, <2>3 DEF Tight
  <1>. QED
    BY <1>6, <1>7, <1>8, <1>9, <1>10, <1>11 DEF IInv

\* kmalloc takes a whole block.
LEMMA TakeStep ==
    ASSUME FiniteFacts, IInv, NEW b \in Blocks, KmallocFind(b), ~Splits(b)
    PROVE  IInv'
  <1>1. TypeOK /\ Tiled /\ Placed /\ Counted /\ Held /\ Tight
    BY DEF IInv
  <1>2. /\ UNCHANGED <<owner, heap_arenas, page_count, first, size, in, prev,
                       next, cur>>
        /\ is_free' = [is_free EXCEPT ![b] = FALSE]
        /\ live_blocks' = [live_blocks EXCEPT ![in[b]] = @ + 1]
        /\ given' = Put(given, b + BlockHeader, want)
        /\ pc' = "idle" /\ want' = 0
    BY DEF KmallocFind
  <1>3. Arenas' = Arenas /\ Blocks' = Blocks
    BY <1>2 DEF Arenas, Blocks
  <1>4. is_free[b] /\ want <= size[b] /\ want \in Nat /\ cur = NULL
    BY Zenon, <1>1 DEF KmallocFind, Fits, TypeOK, CallTypes, Searching
  <1>5. TypeOK'
    <2>1. ArenaTypes'
      <3>1. live_blocks \in [Arenas -> Nat] /\ in[b] \in Arenas
        BY <1>1 DEF TypeOK, ArenaTypes, BlockTypes
      <3>2. live_blocks' \in [Arenas -> Nat]
        BY <1>2, <3>1
      <3>. QED
        BY <1>1, <1>2, <1>3, <3>2 DEF TypeOK, ArenaTypes
    <2>2. BlockTypes'
      BY <1>1, <1>2, <1>3 DEF TypeOK, BlockTypes
    <2>3. is_free' \in [Blocks' -> BOOLEAN]
      BY <1>1, <1>2, <1>3, Zenon DEF TypeOK
    <2>4. DOMAIN given' \subseteq Nat /\ given' \in [DOMAIN given' -> Nat]
      BY <1>1, <1>2, <1>4, EndType, HeapAssumption DEF TypeOK, Put
    <2>5. CallTypes'
      BY <1>2, <1>4 DEF CallTypes, Searching
    <2>6. owner' \in [Page -> {"FREE", "HEAP", "OTHER"}]
      BY <1>1, <1>2 DEF TypeOK
    <2>. QED
      BY <2>1, <2>2, <2>3, <2>4, <2>5, <2>6, Zenon DEF TypeOK
  <1>6. Tiled' /\ Placed'
    BY <1>1, <1>2, SameTiles, SamePlaces
  <1>7. Counted' /\ Used'
    <2>1. IsFiniteSet(Blocks')
      BY <1>1, <1>3 DEF Counted
    <2>2. is_free \in [Blocks -> BOOLEAN]
      BY <1>1 DEF TypeOK
    <2>3. ASSUME NEW a \in Arenas
          PROVE  LiveIn(a)' = IF a = in[b] THEN LiveIn(a) \cup {b}
                              ELSE LiveIn(a)
      BY <1>2, <1>3, <2>2 DEF LiveIn
    <2>. QED
      BY <2>1, <2>3, TakenLive
  <1>8. Held'
    <2>1. is_free \in [Blocks -> BOOLEAN]
      BY <1>1 DEF TypeOK
    <2>2. \A x \in Blocks' : ~is_free'[x] => x + BlockHeader \in DOMAIN given'
      BY <1>1, <1>2, <1>3, <2>1 DEF Held, Put
    <2>3. ASSUME NEW ptr \in DOMAIN given'
          PROVE  /\ ptr - BlockHeader \in Blocks' /\ ~is_free'[ptr - BlockHeader]
                 /\ given'[ptr] <= size'[ptr - BlockHeader]
      <3>1. CASE ptr = b + BlockHeader
        <4>1. ptr - BlockHeader = b
          BY <1>1, <3>1, EndType, HeapAssumption
        <4>. QED
          BY <1>2, <1>3, <1>4, <2>1, <3>1, <4>1 DEF Put
      <3>2. CASE ptr # b + BlockHeader
        BY <1>1, <1>2, <1>3, <1>4, <2>1, <3>2 DEF Put, Held
      <3>. QED
        BY <3>1, <3>2
    <2>. QED
      BY <2>2, <2>3 DEF Held
  <1>9. Merged'
    <2>1. is_free \in [Blocks -> BOOLEAN]
      BY <1>1 DEF TypeOK
    <2>2. \A y \in Blocks :
              next[y] # NULL => ~(is_free[y] /\ is_free[next[y]])
      BY Zenon, <1>1 DEF KmallocFind, Searching, Tight, Merged
    <2>3. \A y \in Blocks : next[y] # NULL => next[y] \in Blocks
      BY <1>1 DEF TypeOK, BlockTypes
    <2>. QED
      BY <1>2, <1>3, <2>1, <2>2, <2>3 DEF Merged
  <1>10. Freed' /\ FreshArenaFits'
    BY <1>2 DEF Freed, Freeing, FreshArenaFits
  <1>. QED
    BY <1>5, <1>6, <1>7, <1>8, <1>9, <1>10 DEF IInv, Tight

-----------------------------------------------------------------------------
(* create_arena                                                            *)

\* The list t is s with a in front.
LinkedTo(s, a, t) ==
    /\ DOMAIN t = 1 .. (Len(s) + 1)
    /\ DOMAIN s = 1 .. Len(s) /\ Len(s) \in Nat
    /\ t[1] = a
    /\ \A i \in 1 .. Len(s) : t[i + 1] = s[i]
    /\ \A i \in 1 .. (Len(s) + 1) :
            i # 1 => i - 1 \in 1 .. Len(s) /\ t[i] = s[i - 1]

\* link_arena puts the arena in front.
LEMMA LinkFacts ==
    ASSUME NEW S, NEW s \in Seq(S), NEW a
    PROVE  /\ link_arena(s, a) \in Seq(S \cup {a})
           /\ LinkedTo(s, a, link_arena(s, a))
  <1>1. Len(s) \in Nat /\ DOMAIN s = 1 .. Len(s) /\ s \in [1 .. Len(s) -> S]
    OBVIOUS
  <1>2. link_arena(s, a) \in [1 .. (Len(s) + 1) -> S \cup {a}]
    BY <1>1 DEF link_arena
  <1>3. Len(s) + 1 \in Nat
    BY <1>1
  <1>4. link_arena(s, a) \in Seq(S \cup {a})
    BY <1>2, <1>3
  <1>. QED
    BY <1>1, <1>2, <1>4 DEF link_arena, LinkedTo

\* The headers after an arena of n pages was made at page p, its block at b.
GrownBy(p, n, b) ==
    /\ Arenas' = Arenas \cup {p} /\ Blocks' = Blocks \cup {b}
    /\ page_count' = [a \in Arenas \cup {p} |->
                        IF a = p THEN n ELSE page_count[a]]
    /\ live_blocks' = [a \in Arenas \cup {p} |->
                        IF a = p THEN 0 ELSE live_blocks[a]]
    /\ first' = [a \in Arenas \cup {p} |-> IF a = p THEN b ELSE first[a]]
    /\ size' = [x \in Blocks \cup {b} |->
                    IF x = b THEN n * PAGE_SIZE - Overhead ELSE size[x]]
    /\ is_free' = [x \in Blocks \cup {b} |-> IF x = b THEN TRUE ELSE is_free[x]]
    /\ in' = [x \in Blocks \cup {b} |-> IF x = b THEN p ELSE in[x]]
    /\ prev' = [x \in Blocks \cup {b} |-> IF x = b THEN NULL ELSE prev[x]]
    /\ next' = [x \in Blocks \cup {b} |-> IF x = b THEN NULL ELSE next[x]]

\* create_arena makes one arena of one free block.
LEMMA GrowFields ==
    ASSUME TypeOK, NEW p, NEW n, NEW b, create_arena(p),
           n = Pages(Overhead + want), b = Base(p) + ArenaHeader
    PROVE  GrownBy(p, n, b)
  <1>1. /\ DOMAIN size = Blocks /\ DOMAIN is_free = Blocks /\ DOMAIN in = Blocks
        /\ DOMAIN next = Blocks /\ DOMAIN prev = Blocks
        /\ DOMAIN page_count = Arenas /\ DOMAIN live_blocks = Arenas
        /\ DOMAIN first = Arenas
    BY DEF TypeOK, BlockTypes, ArenaTypes, Blocks, Arenas
  <1>2. /\ size' = [x \in Blocks \cup {b} |->
                    IF x = b THEN n * PAGE_SIZE - Overhead ELSE size[x]]
        /\ page_count' = [a \in Arenas \cup {p} |->
                        IF a = p THEN n ELSE page_count[a]]
    BY Zenon, <1>1 DEF create_arena, Put
  <1>3. Arenas' = Arenas \cup {p} /\ Blocks' = Blocks \cup {b}
    BY <1>2 DEF Blocks, Arenas
  <1>4. /\ live_blocks' = [a \in Arenas \cup {p} |->
                        IF a = p THEN 0 ELSE live_blocks[a]]
        /\ first' = [a \in Arenas \cup {p} |-> IF a = p THEN b ELSE first[a]]
    BY Zenon, <1>1 DEF create_arena, Put
  <1>5. is_free' = [x \in Blocks \cup {b} |-> IF x = b THEN TRUE ELSE is_free[x]]
    BY Zenon, <1>1 DEF create_arena, Put
  <1>6. /\ in' = [x \in Blocks \cup {b} |-> IF x = b THEN p ELSE in[x]]
        /\ prev' = [x \in Blocks \cup {b} |-> IF x = b THEN NULL ELSE prev[x]]
        /\ next' = [x \in Blocks \cup {b} |-> IF x = b THEN NULL ELSE next[x]]
    BY Zenon, <1>1 DEF create_arena, Put
  <1>. QED
    BY <1>2, <1>3, <1>4, <1>5, <1>6 DEF GrownBy

\* A run of free frames lies before or behind every arena.
LEMMA FreeRunApart ==
    ASSUME TypeOK, Placed, NEW p \in Page, NEW n \in Nat \ {0}, FreeRun(p, n),
           NEW a \in Arenas
    PROVE  a + page_count[a] <= p \/ p + n <= a
  <1>1. /\ a \in Page /\ a \in Nat /\ p \in Nat /\ page_count[a] \in Nat \ {0}
    BY HeapAssumption DEF TypeOK, ArenaTypes
  <1>2. \A q \in Run(p, n) : q \in Page /\ owner[q] = "FREE"
    BY DEF FreeRun
  <1>3. \A q \in Run(a, page_count[a]) : q \in Page /\ owner[q] = "HEAP"
    BY DEF Placed, Frames
  <1>4. CASE p <= a /\ a < p + n
    <2>1. a \in Run(p, n) /\ a \in Run(a, page_count[a])
      BY <1>1, <1>4 DEF Run
    <2>. QED
      BY <1>2, <1>3, <2>1
  <1>5. CASE a <= p /\ p < a + page_count[a]
    <2>1. p \in Run(p, n) /\ p \in Run(a, page_count[a])
      BY <1>1, <1>5 DEF Run
    <2>. QED
      BY <1>2, <1>3, <2>1
  <1>. QED
    BY <1>1, <1>4, <1>5

\* kmalloc makes an arena when nothing fits.
LEMMA GrowStep ==
    ASSUME FiniteFacts, IInv, NEW p \in Page, KmallocGrow(p)
    PROVE  IInv'
  <1>1. TypeOK /\ Tiled /\ Placed /\ Counted /\ Held /\ Tight /\ FreshArenaFits
    BY DEF IInv
  <1>2. PICK n : n = Pages(Overhead + want)
    OBVIOUS
  <1>3. PICK b : b = Base(p) + ArenaHeader
    OBVIOUS
  <1>4. /\ want \in Nat /\ Overhead \in Nat /\ Overhead = ArenaHeader + BlockHeader
        /\ ArenaHeader \in Nat \ {0} /\ BlockHeader \in Nat \ {0}
        /\ PAGE_SIZE \in Nat \ {0} /\ p \in Nat
        /\ n \in Nat \ {0} /\ n * PAGE_SIZE \in Nat
        /\ n * PAGE_SIZE >= Overhead + want
    <2>1. want \in Nat
      BY Zenon, <1>1 DEF TypeOK, CallTypes
    <2>2. /\ Overhead \in Nat /\ Overhead = ArenaHeader + BlockHeader
          /\ ArenaHeader \in Nat \ {0} /\ BlockHeader \in Nat \ {0}
          /\ PAGE_SIZE \in Nat \ {0} /\ p \in Nat
      BY HeapAssumption DEF Overhead
    <2>3. Overhead + want \in Nat /\ Overhead + want > 0
      BY <2>1, <2>2
    <2>. QED
      BY <1>2, <2>1, <2>2, <2>3, PagesFacts
  <1>5. /\ Base(p) \in Nat /\ Base(p + n) = Base(p) + n * PAGE_SIZE
        /\ b \in Nat \ {0} /\ Base(p) < b
        /\ b + BlockHeader + (n * PAGE_SIZE - Overhead) = Base(p + n)
        /\ n * PAGE_SIZE - Overhead \in Nat /\ n * PAGE_SIZE - Overhead >= want
        /\ Base(p + n) \in Nat /\ b < Base(p + n)
    <2>1. Base(p) \in Nat /\ Base(p + n) = Base(p) + n * PAGE_SIZE
      BY Zenon, <1>4, BaseFacts
    <2>. QED
      BY <1>3, <1>4, <2>1
  <1>6. /\ GrownBy(p, n, b) /\ heap_arenas' = link_arena(heap_arenas, p)
        /\ owner' = [q \in Page |-> IF q \in Run(p, n) THEN "HEAP" ELSE owner[q]]
        /\ FreeRun(p, n) /\ pc' = "search again"
        /\ UNCHANGED <<given, want, cur>>
    <2>1. create_arena(p) /\ pc' = "search again" /\ UNCHANGED <<given, want, cur>>
      BY Zenon DEF KmallocGrow
    <2>. QED
      BY Zenon, <1>1, <1>2, <1>3, <2>1, GrowFields DEF create_arena, alloc_pages_owned
  <1>7. pc = "search" /\ NothingFits /\ cur = NULL
    BY Zenon, <1>1 DEF KmallocGrow, Searching, FreshArenaFits, TypeOK, CallTypes
  <1>8. \A a \in Arenas : /\ a \in Nat /\ page_count[a] \in Nat \ {0}
                          /\ a + page_count[a] <= p \/ p + n <= a
    BY Zenon, <1>1, <1>4, <1>6, FreeRunApart, HeapAssumption DEF TypeOK, ArenaTypes
  <1>9. p \notin Arenas
    BY <1>4, <1>8
  <1>10. ASSUME NEW x \in Blocks
         PROVE  /\ x \in Nat /\ End(x) \in Nat
                /\ End(x) <= Base(p) \/ Base(p + n) <= x
    <2>1. /\ x \in Nat /\ End(x) \in Nat /\ in[x] \in Arenas
          /\ Base(in[x]) \in Nat /\ Base(in[x] + page_count[in[x]]) \in Nat
          /\ Base(in[x]) + ArenaHeader <= x
          /\ End(x) <= Base(in[x] + page_count[in[x]])
      BY <1>1, <1>10, EndType, BorderTypes DEF Tiled, Inside
    <2>2. in[x] + page_count[in[x]] <= p => Base(in[x] + page_count[in[x]]) <= Base(p)
      <3>1. in[x] + page_count[in[x]] \in Nat
        BY <1>8, <2>1
      <3>. QED
        BY <1>4, <3>1, BaseFacts
    <2>3. p + n <= in[x] => Base(p + n) <= Base(in[x])
      <3>1. p + n \in Nat /\ in[x] \in Nat
        BY <1>4, <1>8, <2>1
      <3>. QED
        BY <3>1, BaseFacts
    <2>. QED
      BY <1>4, <1>5, <1>8, <2>1, <2>2, <2>3
  <1>11. b \notin Blocks
    BY <1>5, <1>10, EndType, <1>1
  <1>12. TypeOK'
    <2>1. ArenaTypes'
      <3>1. heap_arenas' \in Seq(Arenas')
        BY Zenon, <1>1, <1>6, LinkFacts DEF GrownBy, TypeOK, ArenaTypes
      <3>2. page_count' \in [Arenas' -> Nat \ {0}] /\ Arenas' \subseteq Page
        BY Zenon, <1>1, <1>4, <1>6 DEF GrownBy, TypeOK, ArenaTypes
      <3>3. live_blocks' \in [Arenas' -> Nat] /\ first' \in [Arenas' -> Blocks']
        BY Zenon, <1>1, <1>6 DEF GrownBy, TypeOK, ArenaTypes
      <3>. QED
        BY <3>1, <3>2, <3>3 DEF ArenaTypes
    <2>2. BlockTypes'
      <3>1. Blocks' \subseteq Nat \ {NULL} /\ size' \in [Blocks' -> Nat]
        BY Zenon, <1>1, <1>5, <1>6 DEF GrownBy, TypeOK, BlockTypes, NULL
      <3>2. /\ in' \in [Blocks' -> Arenas']
            /\ prev' \in [Blocks' -> Blocks' \cup {NULL}]
            /\ next' \in [Blocks' -> Blocks' \cup {NULL}]
        BY Zenon, <1>1, <1>6 DEF GrownBy, TypeOK, BlockTypes
      <3>. QED
        BY <3>1, <3>2, Zenon DEF BlockTypes
    <2>3. is_free' \in [Blocks' -> BOOLEAN]
      BY <1>1, <1>6, Zenon DEF GrownBy, TypeOK
    <2>4. DOMAIN given' \subseteq Nat /\ given' \in [DOMAIN given' -> Nat]
      BY Zenon, <1>1, <1>6 DEF TypeOK
    <2>5. CallTypes'
      BY Zenon, <1>1, <1>6, <1>7 DEF TypeOK, CallTypes, Searching
    <2>6. owner' \in [Page -> {"FREE", "HEAP", "OTHER"}]
      BY Zenon, <1>1, <1>6 DEF TypeOK
    <2>. QED
      BY <2>1, <2>2, <2>3, <2>4, <2>5, <2>6, Zenon DEF TypeOK
  <1>13. Tiled'
    <2>1. End(b)' = Base(p + n) /\ \A x \in Blocks : End(x)' = End(x)
      BY Zenon, <1>5, <1>6, <1>11 DEF GrownBy, End
    <2>2. /\ Arenas' = Arenas \cup {p} /\ page_count'[p] = n /\ first'[p] = b
          /\ \A a \in Arenas : page_count'[a] = page_count[a] /\ first'[a] = first[a]
      BY Zenon, <1>6, <1>9 DEF GrownBy
    <2>3. /\ Blocks' = Blocks \cup {b} /\ in'[b] = p
          /\ prev'[b] = NULL /\ next'[b] = NULL
          /\ \A x \in Blocks : /\ in'[x] = in[x] /\ prev'[x] = prev[x]
                                /\ next'[x] = next[x]
      BY Zenon, <1>6, <1>11 DEF GrownBy
    <2>4. /\ \A x \in Blocks : in[x] \in Arenas
          /\ \A x \in Blocks : next[x] # NULL => next[x] \in Blocks
          /\ \A x \in Blocks : prev[x] # NULL => prev[x] \in Blocks
          /\ \A a \in Arenas : first[a] \in Blocks
      BY <1>1 DEF TypeOK, ArenaTypes, BlockTypes
    <2>5. Ordered'
      <3>1. ASSUME NEW x \in Blocks', NEW y \in Blocks', x < y
            PROVE  End(x)' <= y
        <4>1. CASE x \in Blocks /\ y \in Blocks
          BY <1>1, <2>1, <3>1, <4>1 DEF Tiled, Ordered
        <4>2. CASE x = b /\ y \in Blocks
          <5>1. y < End(y) /\ y \in Nat /\ End(y) \in Nat
            BY <1>1, <4>2, EndType
          <5>2. End(y) <= Base(p) \/ Base(p + n) <= y
            BY <1>10, <4>2
          <5>. QED
            BY <1>5, <2>1, <3>1, <4>2, <5>1, <5>2
        <4>3. CASE x \in Blocks /\ y = b
          <5>1. x \in Nat /\ End(x) \in Nat /\ (End(x) <= Base(p) \/ Base(p + n) <= x)
            BY <1>10, <4>3
          <5>. QED
            BY <1>5, <2>1, <3>1, <4>3, <5>1
        <4>4. ~(x = b /\ y = b)
          BY <1>5, <3>1
        <4>. QED
          BY <2>3, <4>1, <4>2, <4>3, <4>4
      <3>. QED
        BY <3>1 DEF Ordered
    <2>6. FirstBlocks'
      BY <1>1, <1>3, <2>2, <2>3, <2>4 DEF Tiled, FirstBlocks
    <2>7. Forward'
      BY <1>1, <2>1, <2>2, <2>3, <2>4 DEF Tiled, Forward
    <2>8. Backward'
      <3>. SUFFICES ASSUME NEW x \in Blocks'
                    PROVE  IF prev'[x] = NULL THEN x = first'[in'[x]]
                                              ELSE next'[prev'[x]] = x
        BY Zenon DEF Backward
      <3>1. CASE x = b
        BY Zenon, <2>2, <2>3, <3>1
      <3>2. CASE x \in Blocks
        <4>1. IF prev[x] = NULL THEN x = first[in[x]] ELSE next[prev[x]] = x
          BY Zenon, <1>1, <3>2 DEF Tiled, Backward
        <4>2. in'[x] = in[x] /\ prev'[x] = prev[x] /\ first'[in[x]] = first[in[x]]
          BY Zenon, <2>2, <2>3, <2>4, <3>2
        <4>3. prev[x] # NULL => next'[prev[x]] = next[prev[x]]
          BY Zenon, <2>3, <2>4, <3>2
        <4>. QED
          BY Zenon, <4>1, <4>2, <4>3
      <3>. QED
        BY Zenon, <2>3, <3>1, <3>2
    <2>9. Inside'
      <3>. SUFFICES ASSUME NEW x \in Blocks'
                    PROVE  /\ Base(in'[x]) + ArenaHeader <= x
                           /\ End(x)' <= Base(in'[x] + page_count'[in'[x]])
        BY DEF Inside
      <3>1. CASE x = b
        <4>1. in'[x] = p /\ page_count'[in'[x]] = n /\ End(x)' = Base(p + n)
          BY Zenon, <2>1, <2>2, <2>3, <3>1
        <4>2. b <= b /\ Base(p + n) <= Base(p + n)
          BY <1>5
        <4>. QED
          BY <1>3, <3>1, <4>1, <4>2
      <3>2. CASE x \in Blocks
        <4>1. /\ in'[x] = in[x] /\ page_count'[in'[x]] = page_count[in[x]]
              /\ End(x)' = End(x)
          BY <2>1, <2>2, <2>3, <2>4, <3>2
        <4>. QED
          BY <1>1, <3>2, <4>1 DEF Tiled, Inside
      <3>. QED
        BY <2>3, <3>1, <3>2
    <2>. QED
      BY <2>5, <2>6, <2>7, <2>8, <2>9 DEF Tiled
  <1>14. Placed'
    <2>1. Apart'
      <3>1. /\ Arenas' = Arenas \cup {p} /\ page_count'[p] = n
            /\ \A a \in Arenas : page_count'[a] = page_count[a]
        BY Zenon, <1>6, <1>9 DEF GrownBy
      <3>2. \A a, c \in Arenas : a < c => a + page_count[a] <= c
        BY <1>1 DEF Placed, Apart
      <3>. QED
        BY <1>4, <1>8, <3>1, <3>2 DEF Apart
    <2>2. Frames'
      <3>1. \A a \in Arenas' : Run(a, page_count'[a]) \subseteq Page
        BY Zenon, <1>1, <1>6, <1>9 DEF GrownBy, Placed, Frames, FreeRun
      <3>2. ASSUME NEW q \in Page
            PROVE  owner'[q] = "HEAP" <=>
                        \E a \in Arenas' : q \in Run(a, page_count'[a])
        BY Zenon, <1>1, <1>6, <1>9 DEF GrownBy, Placed, Frames, FreeRun
      <3>. QED
        BY <3>1, <3>2 DEF Frames
    <2>3. Listed'
      <3>1. heap_arenas \in Seq(Arenas)
        BY <1>1 DEF TypeOK, ArenaTypes
      <3>5. LinkedTo(heap_arenas, p, heap_arenas')
        BY Zenon, <1>6, <3>1, LinkFacts
      <3>2. \A i \in DOMAIN heap_arenas : heap_arenas[i] \in Arenas
        BY <3>1
      <3>3. \A a \in Arenas' : \E i \in DOMAIN heap_arenas' : heap_arenas'[i] = a
        <4>. SUFFICES ASSUME NEW a \in Arenas'
                      PROVE  \E i \in DOMAIN heap_arenas' : heap_arenas'[i] = a
          OBVIOUS
        <4>1. CASE a = p
          <5>1. 1 \in DOMAIN heap_arenas' /\ heap_arenas'[1] = p
            BY <3>5 DEF LinkedTo
          <5>. QED
            BY <4>1, <5>1
        <4>2. CASE a \in Arenas
          <5>1. PICK i \in DOMAIN heap_arenas : heap_arenas[i] = a
            BY <1>1, <4>2 DEF Placed, Listed
          <5>2. i + 1 \in DOMAIN heap_arenas' /\ heap_arenas'[i + 1] = a
            BY <3>5, <5>1 DEF LinkedTo
          <5>. QED
            BY <5>2
        <4>. QED
          BY Zenon, <1>6, <4>1, <4>2 DEF GrownBy
      <3>4. ASSUME NEW i \in DOMAIN heap_arenas', NEW j \in DOMAIN heap_arenas',
                   heap_arenas'[i] = heap_arenas'[j]
            PROVE  i = j
        <4>1. /\ i \in 1 .. (Len(heap_arenas) + 1) /\ Len(heap_arenas) \in Nat
              /\ j \in 1 .. (Len(heap_arenas) + 1)
              /\ DOMAIN heap_arenas = 1 .. Len(heap_arenas)
              /\ heap_arenas'[1] = p
              /\ i # 1 => /\ i - 1 \in 1 .. Len(heap_arenas)
                          /\ heap_arenas'[i] = heap_arenas[i - 1]
              /\ j # 1 => /\ j - 1 \in 1 .. Len(heap_arenas)
                          /\ heap_arenas'[j] = heap_arenas[j - 1]
          BY <3>5 DEF LinkedTo
        <4>2. i # 1 /\ j # 1 => i - 1 = j - 1
          BY <1>1, <3>4, <4>1 DEF Placed, Listed
        <4>. QED
          BY <1>9, <3>2, <3>4, <4>1, <4>2
      <3>. QED
        BY <3>3, <3>4 DEF Listed
    <2>. QED
      BY <2>1, <2>2, <2>3 DEF Placed
  <1>15. LiveIn(p)' = {} /\ \A a \in Arenas : LiveIn(a)' = LiveIn(a)
    <2>1. /\ Blocks' = Blocks \cup {b} /\ in'[b] = p /\ is_free'[b]
          /\ \A x \in Blocks : in'[x] = in[x] /\ is_free'[x] = is_free[x]
      BY Zenon, <1>6, <1>11 DEF GrownBy
    <2>2. \A x \in Blocks : in[x] \in Arenas
      BY <1>1 DEF TypeOK, BlockTypes
    <2>. QED
      BY <1>9, <1>11, <2>1, <2>2 DEF LiveIn
  <1>16. Counted'
    <2>1. IsFiniteSet(Blocks')
      BY Zenon, <1>1, <1>6, <1>11 DEF Counted, GrownBy, FiniteFacts
    <2>2. \A a \in Arenas' : live_blocks'[a] = Cardinality(LiveIn(a)')
      BY Zenon, <1>1, <1>6, <1>9, <1>15 DEF Counted, GrownBy, FiniteFacts
    <2>. QED
      BY <2>1, <2>2 DEF Counted
  <1>17. Held'
    BY Zenon, <1>1, <1>6, <1>11 DEF Held, GrownBy
  <1>18. Tight'
    <2>1. Merged'
      BY Zenon, <1>1, <1>6, <1>7, <1>11 DEF GrownBy, Tight, Merged, TypeOK, BlockTypes
    <2>2. Used'
      <3>1. \A a \in Arenas : LiveIn(a) # {}
        BY <1>1, <1>7 DEF Tight, Used, Freeing
      <3>2. \A x \in Blocks' : Fits(x)' => in'[x] = p
        BY Zenon, <1>6, <1>7 DEF GrownBy, NothingFits, Fits
      <3>. QED
        BY Zenon, <1>6, <1>15, <3>1, <3>2 DEF Used, GrownBy
    <2>3. Freed'
      BY Zenon, <1>6 DEF Freed, Freeing
    <2>. QED
      BY <2>1, <2>2, <2>3 DEF Tight
  <1>19. FreshArenaFits'
    <2>1. b \in Blocks' /\ Fits(b)'
      BY Zenon, <1>5, <1>6 DEF GrownBy, Fits
    <2>. QED
      BY Zenon, <2>1 DEF FreshArenaFits, NothingFits
  <1>. QED
    BY <1>12, <1>13, <1>14, <1>16, <1>17, <1>18, <1>19 DEF IInv

-----------------------------------------------------------------------------
(* All steps                                                               *)

\* Every step of Next preserves the inductive invariant.
LEMMA StepInv == FiniteFacts /\ IInv /\ [Next]_vars => IInv'
  <1>. SUFFICES ASSUME FiniteFacts, IInv, [Next]_vars PROVE IInv'
    OBVIOUS
  <1>1. ASSUME NEW b \in Blocks, KmallocFind(b) PROVE IInv'
    BY <1>1, SplitStep, TakeStep
  <1>2. ASSUME NEW p \in Page, KmallocGrow(p) PROVE IInv'
    BY <1>2, GrowStep
  <1>3. ASSUME NEW b \in Blocks, Kfree(b + BlockHeader) PROVE IInv'
    BY <1>3, FreeStep
  <1>4. CASE KfreeMergeNext
    BY <1>4, MergeNextStep
  <1>5. CASE KfreeMergePrev
    BY <1>5, MergePrevStep
  <1>6. CASE KfreeReclaim
    BY <1>6, ReclaimStep
  <1>7. CASE \/ \E n \in Size : KmallocCall(n)
             \/ KmallocFails
             \/ \E p \in Page : OthersTake(p) \/ OthersReturn(p)
             \/ UNCHANGED vars
    BY <1>7, QuietStep
  <1>. QED
    BY <1>1, <1>2, <1>3, <1>4, <1>5, <1>6, <1>7 DEF Next

-----------------------------------------------------------------------------
(* Theorems                                                                *)

INSTANCE FiniteSetTheorems

\* The library's facts about finite sets, in the form the steps use them.
LEMMA FiniteFactsHold == FiniteFacts
  <1>1. ASSUME NEW S, IsFiniteSet(S)
        PROVE  Cardinality(S) \in Nat /\ (Cardinality(S) = 0 <=> S = {})
    BY <1>1, FS_CardinalityType, FS_EmptySet
  <1>2. ASSUME NEW S, NEW T, IsFiniteSet(S), T \subseteq S
        PROVE  IsFiniteSet(T)
    <2>1. T \in SUBSET S
      BY <1>2
    <2>. QED
      BY <1>2, <2>1, FS_Subset
  <1>3. ASSUME NEW S, NEW x, IsFiniteSet(S), x \notin S
        PROVE  /\ IsFiniteSet(S \cup {x})
               /\ Cardinality(S \cup {x}) = Cardinality(S) + 1
    BY <1>3, FS_AddElement
  <1>4. ASSUME NEW S, NEW x, IsFiniteSet(S), x \in S
        PROVE  Cardinality(S \ {x}) = Cardinality(S) - 1
    BY <1>4, FS_RemoveElement
  <1>. QED
    BY <1>1, <1>2, <1>3, <1>4, FS_EmptySet DEF FiniteFacts

\* The inductive invariant holds in every reachable state.
LEMMA AlwaysIInv == Spec => []IInv
  <1>1. Init => IInv
    BY FiniteFactsHold, InitInv
  <1>2. IInv /\ [Next]_vars => IInv'
    BY FiniteFactsHold, StepInv
  <1>. QED
    BY <1>1, <1>2, PTL DEF Spec

\* The fields of the headers, the list of arenas and the call in progress
\* have their types in every reachable state of the heap (kalloc.c).
THEOREM HeapTypes == Spec => []TypeOK
  BY AlwaysIInv, PTL DEF IInv

\* split_block and merge_with_next keep every arena covered by its list of
\* blocks, without gap or overlap, in both directions.
THEOREM HeapTiled == Spec => []BlocksTile
  BY AlwaysIInv, InvTiles, PTL

\* What kmalloc handed out and kfree has not taken back lies in frames of
\* the heap, apart from every header and from every other allocation.
THEOREM HeapSafe == Spec => []AllocationsApart
  BY AlwaysIInv, InvApart, PTL

\* Between calls kfree has left no two free neighbours and no arena without
\* a live block, and the frames of the heap are those of its arenas.
THEOREM HeapTight == Spec => []HeapIsTight
  BY AlwaysIInv, InvTight, PTL

\* The search after create_arena succeeds: kmalloc makes at most one arena.
THEOREM HeapGrowsOnce == Spec => []FreshArenaFits
  BY AlwaysIInv, PTL DEF IInv
=============================================================================
