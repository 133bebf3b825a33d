-------------------------------- MODULE Heap --------------------------------
(***************************************************************************)
(* The kernel heap (kalloc.c): arenas of contiguous page frames, each cut  *)
(* into a doubly linked list of blocks whose headers lie in the arena      *)
(* itself.  kmalloc takes the first free block that is large enough and    *)
(* splits it; kfree merges the block with its free neighbours and gives an *)
(* arena without live blocks back to the page allocator.                   *)
(*                                                                         *)
(* kmalloc and kfree run under heap_lock with interrupts off, so one call  *)
(* is in progress at a time; pc, want and cur are its local state, and     *)
(* the steps of a call that touch the lists are steps of the model.        *)
(*                                                                         *)
(* An address is a number: page p begins at p * PAGE_SIZE, and NULL is 0.  *)
(* A block is named by the address of its header, an arena by its first    *)
(* page; each field of the headers is a function on the blocks or arenas   *)
(* that are on a list.                                                     *)
(***************************************************************************)
EXTENDS Integers, Sequences, FiniteSets

CONSTANTS
    PAGE_SIZE,
    ArenaHeader,    \* sizeof(struct HeapArena)
    BlockHeader,    \* sizeof(struct HeapBlock)
    HEAP_ALIGNMENT,
    SIZE_MAX,
    Page,           \* the frames of the page allocator that others leave us
    Size            \* the sizes kmalloc is called with

NULL == 0
Overhead == ArenaHeader + BlockHeader

ASSUME HeapAssumption ==
    /\ PAGE_SIZE \in Nat \ {0} /\ ArenaHeader \in Nat \ {0}
    /\ BlockHeader \in Nat \ {0} /\ HEAP_ALIGNMENT \in Nat \ {0}
    /\ SIZE_MAX \in Nat
    /\ Page \subseteq Nat \ {0} /\ Size \subseteq 0..SIZE_MAX

VARIABLES
    owner,          \* page_owner[]: "FREE", "HEAP", or "OTHER"
    heap_arenas,    \* the list of arenas from its head
    page_count, live_blocks, first,     \* the fields of struct HeapArena
    size, is_free, in, prev, next,      \* and of struct HeapBlock (in: arena)
    given,          \* what callers hold: the aligned size behind a pointer
    pc, want, cur   \* the call in progress, its aligned size, its block

arena == <<page_count, live_blocks, first>>
block == <<size, is_free, in, prev, next>>
vars == <<owner, heap_arenas, arena, block, given, pc, want, cur>>

Arenas == DOMAIN page_count
Blocks == DOMAIN size

\* A function with one more value, and one without some of its arguments.
Put(f, x, v) == [y \in DOMAIN f \cup {x} |-> IF y = x THEN v ELSE f[y]]
Drop(f, S) == [y \in DOMAIN f \ S |-> f[y]]

Init ==
    /\ owner = [p \in Page |-> "FREE"]
    /\ heap_arenas = <<>> /\ given = <<>>
    /\ page_count = <<>> /\ live_blocks = <<>> /\ first = <<>>
    /\ size = <<>> /\ is_free = <<>> /\ in = <<>> /\ prev = <<>> /\ next = <<>>
    /\ pc = "idle" /\ want = 0 /\ cur = NULL

-----------------------------------------------------------------------------
(* Sizes and addresses                                                     *)

add_overflows(left, right) == right > SIZE_MAX - left
align_size(n) ==
    ((n + HEAP_ALIGNMENT - 1) \div HEAP_ALIGNMENT) * HEAP_ALIGNMENT

\* Mutant: the headers are forgotten in the page count.
Pages_bare(total) == (total - Overhead + PAGE_SIZE - 1) \div PAGE_SIZE

Pages(total) == (total + PAGE_SIZE - 1) \div PAGE_SIZE
Run(p, n) == p .. (p + n - 1)
Base(p) == p * PAGE_SIZE
End(b) == b + BlockHeader + size[b]

-----------------------------------------------------------------------------
(* The lists                                                               *)

link_arena(list, a) ==
    [i \in 1 .. (Len(list) + 1) |-> IF i = 1 THEN a ELSE list[i - 1]]
unlink_arena(list, k) ==
    [i \in 1 .. (Len(list) - 1) |-> IF i < k THEN list[i] ELSE list[i + 1]]

\* Block b is cut to want, the rest becomes a block of its own, and b is
\* taken.
Rest(b) == b + BlockHeader + want
Splits(b) == size[b] - want >= BlockHeader + HEAP_ALIGNMENT

\* Mutant: the block behind keeps its backward link.
split_block_forward(b) ==
    /\ size' = Put([size EXCEPT ![b] = want], Rest(b),
                   size[b] - want - BlockHeader)
    /\ is_free' = Put([is_free EXCEPT ![b] = FALSE], Rest(b), TRUE)
    /\ in' = Put(in, Rest(b), in[b])
    /\ next' = Put([next EXCEPT ![b] = Rest(b)], Rest(b), next[b])
    /\ prev' = Put(prev, Rest(b), b)

split_block(b) ==
    /\ size' = Put([size EXCEPT ![b] = want], Rest(b),
                   size[b] - want - BlockHeader)
    /\ is_free' = Put([is_free EXCEPT ![b] = FALSE], Rest(b), TRUE)
    /\ in' = Put(in, Rest(b), in[b])
    /\ next' = Put([next EXCEPT ![b] = Rest(b)], Rest(b), next[b])
    /\ prev' = Put([x \in Blocks |-> IF x = next[b] THEN Rest(b) ELSE prev[x]],
                   Rest(b), b)

\* merge_with_next does nothing unless the next block is free and adjacent.
Mergeable(b) == next[b] # NULL /\ is_free[next[b]] /\ End(b) = next[b]
merge_with_next(b) ==
    LET n == next[b] IN
    IF Mergeable(b)
    THEN /\ size' = Drop([size EXCEPT ![b] = @ + BlockHeader + size[n]], {n})
         /\ is_free' = Drop(is_free, {n}) /\ in' = Drop(in, {n})
         /\ next' = Drop([next EXCEPT ![b] = next[n]], {n})
         /\ prev' = Drop([x \in Blocks |-> IF x = next[n] THEN b ELSE prev[x]],
                         {n})
    ELSE UNCHANGED block

-----------------------------------------------------------------------------
(* kmalloc                                                                 *)

KmallocCall(n) ==
    /\ pc = "idle" /\ n # 0 /\ ~add_overflows(n, HEAP_ALIGNMENT - 1)
    /\ pc' = "search" /\ want' = align_size(n)
    /\ UNCHANGED <<owner, heap_arenas, arena, block, given, cur>>

\* Mutant: any free block will do.
Fits_any(b) == is_free[b]

Fits(b) == is_free[b] /\ size[b] >= want

\* The loops meet b before c: a list of blocks is in address order.
Before(b, c) ==
    IF in[b] = in[c] THEN b < c
    ELSE \E i, j \in DOMAIN heap_arenas :
            i < j /\ heap_arenas[i] = in[b] /\ heap_arenas[j] = in[c]

Searching == pc \in {"search", "search again"}

KmallocFind(b) ==
    /\ Searching /\ Fits(b)
    /\ \A c \in Blocks : Fits(c) => c = b \/ Before(b, c)
    /\ IF Splits(b) THEN split_block(b)
       ELSE /\ is_free' = [is_free EXCEPT ![b] = FALSE]
            /\ UNCHANGED <<size, in, prev, next>>
    /\ live_blocks' = [live_blocks EXCEPT ![in[b]] = @ + 1]
    /\ given' = Put(given, b + BlockHeader, want)
    /\ pc' = "idle" /\ want' = 0
    /\ UNCHANGED <<owner, heap_arenas, page_count, first, cur>>

NothingFits == \A b \in Blocks : ~Fits(b)

\* alloc_pages_owned: the lowest run of free frames.
FreeRun(p, n) == Run(p, n) \subseteq {q \in Page : owner[q] = "FREE"}
alloc_pages_owned(p, n) ==
    FreeRun(p, n) /\ \A q \in Page : FreeRun(q, n) => p <= q

create_arena(p) ==
    LET n == Pages(Overhead + want)
        b == Base(p) + ArenaHeader IN
    /\ ~add_overflows(want, HEAP_ALIGNMENT - 1)
    /\ ~add_overflows(Overhead, want)
    /\ ~add_overflows(Overhead + want, PAGE_SIZE - 1)
    /\ alloc_pages_owned(p, n)
    /\ owner' = [q \in Page |-> IF q \in Run(p, n) THEN "HEAP" ELSE owner[q]]
    /\ page_count' = Put(page_count, p, n)
    /\ live_blocks' = Put(live_blocks, p, 0)
    /\ first' = Put(first, p, b)
    /\ size' = Put(size, b, n * PAGE_SIZE - Overhead)
    /\ is_free' = Put(is_free, b, TRUE) /\ in' = Put(in, b, p)
    /\ prev' = Put(prev, b, NULL) /\ next' = Put(next, b, NULL)
    /\ heap_arenas' = link_arena(heap_arenas, p)

\* The loop: a new arena, then the search again.
KmallocGrow(p) ==
    /\ Searching /\ NothingFits
    /\ create_arena(p)
    /\ pc' = "search again"
    /\ UNCHANGED <<given, want, cur>>

\* create_arena fails: the size is too large, or the page allocator has no
\* such run (or was told to fail once, pmm_fail_allocations).
KmallocFails ==
    /\ Searching /\ NothingFits
    /\ pc' = "idle" /\ want' = 0
    /\ UNCHANGED <<owner, heap_arenas, arena, block, given, cur>>

-----------------------------------------------------------------------------
(* kfree                                                                   *)

\* Only the pointer of a block that is on a list is accepted, and only
\* while the block is not free; for any other kfree returns -1.
find_block(ptr) == {b \in Blocks : b + BlockHeader = ptr}

Kfree(ptr) ==
    \E b \in find_block(ptr) :
        /\ pc = "idle" /\ ~is_free[b] /\ live_blocks[in[b]] # 0
        /\ is_free' = [is_free EXCEPT ![b] = TRUE]
        /\ live_blocks' = [live_blocks EXCEPT ![in[b]] = @ - 1]
        /\ given' = Drop(given, {ptr})
        /\ pc' = "merge next" /\ cur' = b
        /\ UNCHANGED <<owner, heap_arenas, page_count, first, size, in, prev,
                       next, want>>

KfreeMergeNext ==
    /\ pc = "merge next"
    /\ merge_with_next(cur)
    /\ pc' = "merge prev"
    /\ UNCHANGED <<owner, heap_arenas, arena, given, want, cur>>

\* Mutant: the block is not merged with the one before it.
KfreeMergePrev_not ==
    /\ pc = "merge prev"
    /\ pc' = "reclaim"
    /\ UNCHANGED <<owner, heap_arenas, arena, block, given, want, cur>>

KfreeMergePrev ==
    /\ pc = "merge prev"
    /\ IF prev[cur] # NULL /\ is_free[prev[cur]]
       THEN merge_with_next(prev[cur]) /\ cur' = prev[cur]
       ELSE UNCHANGED <<block, cur>>
    /\ pc' = "reclaim"
    /\ UNCHANGED <<owner, heap_arenas, arena, given, want>>

\* reclaim_empty_arena.  free_pages_owned refuses frames the heap does not
\* own; the arena is then linked again.
reclaim_empty_arena(a, k) ==
    LET frames == Run(a, page_count[a])
        gone == {b \in Blocks : in[b] = a} IN
    IF \A q \in frames : q \in Page /\ owner[q] = "HEAP"
    THEN /\ owner' = [q \in Page |-> IF q \in frames THEN "FREE" ELSE owner[q]]
         /\ heap_arenas' = unlink_arena(heap_arenas, k)
         /\ page_count' = Drop(page_count, {a})
         /\ live_blocks' = Drop(live_blocks, {a})
         /\ first' = Drop(first, {a})
         /\ size' = Drop(size, gone) /\ is_free' = Drop(is_free, gone)
         /\ in' = Drop(in, gone)
         /\ prev' = Drop(prev, gone) /\ next' = Drop(next, gone)
    ELSE /\ heap_arenas' = link_arena(unlink_arena(heap_arenas, k), a)
         /\ UNCHANGED <<owner, arena, block>>

KfreeReclaim ==
    /\ pc = "reclaim"
    /\ \/ /\ live_blocks[in[cur]] # 0
          /\ UNCHANGED <<owner, heap_arenas, arena, block>>
       \/ /\ live_blocks[in[cur]] = 0
          /\ \E k \in DOMAIN heap_arenas :
                heap_arenas[k] = in[cur] /\ reclaim_empty_arena(in[cur], k)
    /\ pc' = "idle" /\ cur' = NULL
    /\ UNCHANGED <<given, want>>

-----------------------------------------------------------------------------
(* The other users of the page allocator                                   *)

OthersTake(p) ==
    /\ pc = "idle" /\ owner[p] = "FREE"
    /\ owner' = [owner EXCEPT ![p] = "OTHER"]
    /\ UNCHANGED <<heap_arenas, arena, block, given, pc, want, cur>>
OthersReturn(p) ==
    /\ pc = "idle" /\ owner[p] = "OTHER"
    /\ owner' = [owner EXCEPT ![p] = "FREE"]
    /\ UNCHANGED <<heap_arenas, arena, block, given, pc, want, cur>>

Next ==
    \/ \E n \in Size : KmallocCall(n)
    \/ \E b \in Blocks : KmallocFind(b)
    \/ \E p \in Page : KmallocGrow(p) \/ OthersTake(p) \/ OthersReturn(p)
    \/ KmallocFails
    \/ \E b \in Blocks : Kfree(b + BlockHeader)
    \/ KfreeMergeNext \/ KfreeMergePrev \/ KfreeReclaim

Spec == Init /\ [][Next]_vars

-----------------------------------------------------------------------------
(* Properties                                                              *)

ArenaTypes ==
    /\ Arenas \subseteq Page /\ heap_arenas \in Seq(Arenas)
    /\ page_count \in [Arenas -> Nat \ {0}]
    /\ live_blocks \in [Arenas -> Nat] /\ first \in [Arenas -> Blocks]
BlockTypes ==
    /\ Blocks \subseteq Nat \ {NULL}
    /\ size \in [Blocks -> Nat] /\ in \in [Blocks -> Arenas]
    /\ prev \in [Blocks -> Blocks \cup {NULL}]
    /\ next \in [Blocks -> Blocks \cup {NULL}]
CallTypes ==
    /\ pc \in {"idle", "search", "search again", "merge next", "merge prev",
               "reclaim"}
    /\ want \in Nat /\ (Searching => want > 0)
    /\ IF pc \in {"merge next", "merge prev", "reclaim"}
       THEN cur \in Blocks ELSE cur = NULL
TypeOK ==
    /\ owner \in [Page -> {"FREE", "HEAP", "OTHER"}]
    /\ ArenaTypes /\ BlockTypes /\ is_free \in [Blocks -> BOOLEAN]
    /\ DOMAIN given \subseteq Nat /\ given \in [DOMAIN given -> Nat]
    /\ CallTypes

\* The blocks of an arena cover it: the first begins behind the arena header,
\* each ends where its successor begins and the last at the end of the
\* arena, and the backward links are the converse of the forward ones.
\* split_block and merge_with_next, which move these borders, rely on it:
\* they compute the neighbour's address from a size.
BlocksTile ==
    /\ \A b, c \in Blocks : b < c => End(b) <= c
    /\ \A a \in Arenas : first[a] = Base(a) + ArenaHeader
                         /\ first[a] \in Blocks /\ in[first[a]] = a
    /\ \A b \in Blocks :
        /\ IF next[b] = NULL THEN End(b) = Base(in[b] + page_count[in[b]])
           ELSE /\ next[b] = End(b) /\ prev[next[b]] = b
                /\ in[next[b]] = in[b]
        /\ IF prev[b] = NULL THEN b = first[in[b]] ELSE next[prev[b]] = b

\* Memory that kmalloc handed out and kfree has not taken back lies in
\* frames the heap owns, and meets neither a header nor the memory of
\* another caller, whatever calls were made in between.
AllocationsApart ==
    \A ptr \in DOMAIN given :
        LET own == ptr .. (ptr + given[ptr] - 1) IN
        /\ ptr - BlockHeader \in Blocks
        /\ \A q \in DOMAIN given \ {ptr} :
                own \cap (q .. (q + given[q] - 1)) = {}
        /\ \A b \in Blocks : own \cap (b .. (b + BlockHeader - 1)) = {}
        /\ \A a \in Arenas :
                own \cap (Base(a) .. (Base(a) + ArenaHeader - 1)) = {}
        /\ \A x \in own :
                x \div PAGE_SIZE \in {p \in Page : owner[p] = "HEAP"}

\* Between calls the heap keeps nothing it does not need: no two neighbours
\* are both free, every arena has a live block, live_blocks counts them, and
\* the frames of the heap are those of the arenas on the list.  (kalloc.c:216:
\* without a live block all the space has been merged.)
LiveIn(a) == {b \in Blocks : in[b] = a /\ ~is_free[b]}
HeapIsTight ==
    pc = "idle" =>
        /\ \A b \in Blocks :
                next[b] # NULL => ~(is_free[b] /\ is_free[next[b]])
        /\ \A a \in Arenas :
                live_blocks[a] = Cardinality(LiveIn(a)) /\ LiveIn(a) # {}
        /\ DOMAIN given = {b + BlockHeader :
                            b \in UNION {LiveIn(a) : a \in Arenas}}
        /\ \A p \in Page : owner[p] = "HEAP" <=>
                \E i \in DOMAIN heap_arenas :
                    p \in Run(heap_arenas[i], page_count[heap_arenas[i]])

\* The search that follows create_arena finds a block, so that the endless
\* loop of kmalloc makes at most one arena: the page count covers both
\* headers and the rounded size.
FreshArenaFits == pc = "search again" => ~NothingFits

=============================================================================
