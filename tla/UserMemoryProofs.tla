-------------------------- MODULE UserMemoryProofs --------------------------
(***************************************************************************)
(* Theorems about UserMemory, for any number of frames, address spaces,    *)
(* virtual pages and page contents: frames and page tables agree,          *)
(* UserMemory implements PrivateMemory under the mapping mem, req, memory  *)
(* areas do not overlap, and the pages of areas and threads stay mapped.   *)
(***************************************************************************)
EXTENDS UserMemorySteps, TLAPS

-----------------------------------------------------------------------------
(* Memory areas and the pages of threads                                   *)

\* No thread object records a stack that it does not own.  Only exec makes
\* such a record, when a thread that was created with a stack calls it.
NoStaleStacks == stacks \subseteq thread_pages

\* Pages of a in mmap areas, and pages that thread objects of a own.
Anon(a) == {v \in VA : \E m \in vmas[a] : m.kind = "anon" /\ v \in Pages(m)}
Owned(a) == {v \in VA : <<a, v>> \in thread_pages}

\* Threads exist where a program runs, and areas are made by running programs.
Grown ==
    /\ \A s \in thread_pages : stat[s[1]] \in {"live", "dying"}
    /\ \A a \in AS : stat[a] = "unused" => vmas[a] = {}
    /\ \A a \in AS : stat[a] = "building" => Anon(a) = {}

\* Outside mmap and munmap both kinds of page are mapped, and distinct.
Fine(a) == Anon(a) \cup Owned(a) \subseteq Mapped(a) /\ Anon(a) \cap Owned(a) = {}

\* The area of an mmap in progress, or of its roll-back, is its range.
Entered == todo \subseteq rng /\ \E m \in vmas[cur] : m.kind = "anon" /\ Pages(m) = rng

\* The new area may have been laid over the page of a thread: mmap has not
\* got there, or has failed there and does not unmap it.  Munmap has yet to
\* unmap what is still to do.
MidMmap == /\ Entered
           /\ (Anon(cur) \ todo) \cup Owned(cur) \subseteq Mapped(cur)
           /\ Anon(cur) \cap Owned(cur) \subseteq todo
MidRollback == /\ Entered
               /\ (Anon(cur) \ rng) \cup Owned(cur) \subseteq Mapped(cur)
               /\ Anon(cur) \cap Owned(cur) \subseteq rng \ todo
MidMunmap == /\ todo \subseteq rng /\ rng \subseteq Anon(cur)
             /\ (Anon(cur) \ rng) \cup todo \cup Owned(cur) \subseteq Mapped(cur)
             /\ Anon(cur) \cap Owned(cur) = {}

Working == op \in {"mmap", "rollback", "munmap"}

\* The invariant behind MmapAreasResident and ThreadPagesMapped.
AreaInv ==
    /\ Grown
    /\ \A a \in AS : stat[a] = "live" /\ ~(Working /\ cur = a) => Fine(a)
    /\ op = "mmap" => MidMmap
    /\ op = "rollback" => MidRollback
    /\ op = "munmap" => MidMunmap


-----------------------------------------------------------------------------
(* Areas stay apart                                                        *)

\* What munmap leaves of an area: parts of it, of its kind, with nothing in common.
LEMMA SplitParts ==
    ASSUME NEW m \in Vma, NEW r, r \subseteq Pages(m),
           NEW n \in Split(m, r), Pages(n) \cap r = {}
    PROVE  Pages(n) \subseteq Pages(m) /\ n.kind = m.kind /\ n \in Vma
<1>. USE MemoryAssumption DEF Vma, Pages
<1>1. ASSUME NEW h \in Pages(m), n = [m EXCEPT !.last = h]
      PROVE  Pages(n) \subseteq Pages(m) /\ n.kind = m.kind /\ n \in Vma
  BY <1>1
<1>2. ASSUME NEW h \in Pages(m), n = [m EXCEPT !.first = h]
      PROVE  Pages(n) \subseteq Pages(m) /\ n.kind = m.kind /\ n \in Vma
  BY <1>2
<1>. QED
  BY Zenon, <1>1, <1>2 DEF Split

\* A head ends, and a tail begins, next to r.
Head(n, m, r, h) ==
    h \in VA /\ h + 1 \in r /\ n = [m EXCEPT !.last = h] /\ \A v \in r : h < v
Tail(n, m, r, t) ==
    t \in VA /\ t - 1 \in r /\ n = [m EXCEPT !.first = t] /\ \A v \in r : v < t

LEMMA SplitSides ==
    ASSUME NEW m \in Vma, NEW r, r \subseteq Pages(m),
           NEW n \in Split(m, r), Pages(n) \cap r = {}
    PROVE  \E h : Head(n, m, r, h) \/ Tail(n, m, r, h)
<1>. USE MemoryAssumption DEF Vma, Pages
<1>1. ASSUME NEW h \in Pages(m), h + 1 \in r, n = [m EXCEPT !.last = h]
      PROVE  Head(n, m, r, h)
  <2>1. ASSUME NEW v \in r, v <= h PROVE v \in Pages(n)
    BY <1>1, <2>1
  <2>. QED
    BY <1>1, <2>1 DEF Head
<1>2. ASSUME NEW t \in Pages(m), t - 1 \in r, n = [m EXCEPT !.first = t]
      PROVE  Tail(n, m, r, t)
  <2>1. ASSUME NEW v \in r, t <= v PROVE v \in Pages(n)
    BY <1>2, <2>1
  <2>. QED
    BY <1>2, <2>1 DEF Tail
<1>3. CASE \E h \in Pages(m) : h + 1 \in r /\ n = [m EXCEPT !.last = h]
  BY Zenon, <1>1, <1>3
<1>4. CASE \E t \in Pages(m) : t - 1 \in r /\ n = [m EXCEPT !.first = t]
  BY Zenon, <1>2, <1>4
<1>. QED
  BY Zenon, <1>3, <1>4 DEF Split

LEMMA SplitApart ==
    ASSUME NEW m \in Vma, NEW r, r \subseteq Pages(m),
           NEW n \in Split(m, r), Pages(n) \cap r = {},
           NEW k \in Split(m, r), Pages(k) \cap r = {}, n # k
    PROVE  Pages(n) \cap Pages(k) = {}
<1>1. PICK h : Head(n, m, r, h) \/ Tail(n, m, r, h)
  BY SplitSides
<1>2. PICK t : Head(k, m, r, t) \/ Tail(k, m, r, t)
  BY SplitSides
<1>3. r \subseteq Nat /\ VA \subseteq Nat
  BY MemoryAssumption DEF Pages
<1>4. ~(Head(n, m, r, h) /\ Head(k, m, r, t))
  <2>1. SUFFICES ASSUME Head(n, m, r, h), Head(k, m, r, t) PROVE h = t
    BY DEF Head
  <2>. QED
    BY <1>3, <2>1 DEF Head
<1>5. ~(Tail(n, m, r, h) /\ Tail(k, m, r, t))
  <2>1. SUFFICES ASSUME Tail(n, m, r, h), Tail(k, m, r, t) PROVE h = t
    BY DEF Tail
  <2>. QED
    BY <1>3, <2>1 DEF Tail
<1>6. CASE Head(n, m, r, h) /\ Tail(k, m, r, t)
  BY <1>3, <1>6 DEF Head, Tail, Pages, Vma
<1>7. CASE Tail(n, m, r, h) /\ Head(k, m, r, t)
  BY <1>3, <1>7 DEF Head, Tail, Pages, Vma
<1>. QED
  BY <1>1, <1>2, <1>4, <1>5, <1>6, <1>7

\* A new area n in a, where there was none.
AddsArea(a, n) ==
    /\ vmas' = [vmas EXCEPT ![a] = @ \cup {n}]
    /\ \A m \in vmas[a] : Pages(m) \cap Pages(n) = {}

\* mmap enters an area that is its range.
LEMMA MmapArea ==
    ASSUME NEW a \in AS, NEW r \in Ranges, NEW w \in BOOLEAN, MmapBegin(a, r, w)
    PROVE  \E n \in Vma : AddsArea(a, n) /\ Pages(n) = r /\ n.kind = "anon"
<1>1. PICK lo \in r, hi \in r :
        /\ \A v \in r : lo <= v /\ v <= hi
        /\ vmas' = [vmas EXCEPT ![a] =
               @ \cup {[first |-> lo, last |-> hi, kind |-> "anon", w |-> w]}]
  BY Zenon DEF MmapBegin
<1>2. PICK n : n = [first |-> lo, last |-> hi, kind |-> "anon", w |-> w]
  BY Zenon
<1>3. r \subseteq VA /\ lo \in VA /\ hi \in VA
  BY DEF Ranges
<1>4. n \in Vma /\ n.kind = "anon" /\ n.first = lo /\ n.last = hi
  BY <1>2, <1>3 DEF Vma
<1>5. Pages(n) = r
  <2>1. \A v \in VA : lo <= v /\ v <= hi => v \in r
    BY Zenon, <1>3 DEF Ranges
  <2>. QED
    BY Zenon, <1>1, <1>3, <1>4, <2>1 DEF Pages
<1>6. AddsArea(a, n)
  BY Zenon, <1>1, <1>2, <1>5 DEF MmapBegin, vma_overlaps, AddsArea
<1>. QED
  BY Zenon, <1>4, <1>5, <1>6

\* The areas after a step: the same, one more, or areas of one space changed.
LEMMA AreaSteps ==
    ASSUME TypeOK, LocalsOK, Next
    PROVE  \/ vmas' = vmas
           \/ \E a \in AS, n \in Vma : AddsArea(a, n)
           \/ ForkEnd \/ DestroyEnd \/ RollbackEnd \/ MunmapEnd
<1>. USE MemoryAssumption
<1>1. ASSUME NEW v \in VA, NEW p, NEW x, NEW w \in BOOLEAN, LoadSegmentPage(v, p, x, w)
      PROVE  \E a \in AS, n \in Vma : AddsArea(a, n)
  <2>1. PICK n : n = [first |-> v, last |-> v, kind |-> "file", w |-> w]
    BY Zenon
  <2>2. n \in Vma /\ Pages(n) = {v} /\ cur \in AS
    <3>1. n \in Vma /\ n.first = v /\ n.last = v
      BY <2>1 DEF Vma
    <3>2. \A y \in VA : v <= y /\ y <= v <=> y = v
      OBVIOUS
    <3>3. Pages(n) = {v}
      BY Zenon, <3>1, <3>2 DEF Pages
    <3>. QED
      BY <1>1, <3>1, <3>3 DEF LoadSegmentPage, LocalsOK
  <2>3. AddsArea(cur, n)
    BY Zenon, <1>1, <2>1, <2>2 DEF LoadSegmentPage, vma_overlaps, AddsArea
  <2>. QED
    BY Zenon, <2>2, <2>3
<1>2. ASSUME NEW low \in VA, NEW v \in VA, NEW p, NEW x, LoadStack(low, v, p, x)
      PROVE  \E a \in AS, n \in Vma : AddsArea(a, n)
  <2>1. PICK n : n = [first |-> low, last |-> v, kind |-> "grow", w |-> TRUE]
    BY Zenon
  <2>2. n \in Vma /\ Pages(n) = {y \in VA : low <= y /\ y <= v} /\ cur \in AS
    BY <1>2, <2>1 DEF Vma, Pages, LoadStack, LocalsOK
  <2>3. AddsArea(cur, n)
    BY Zenon, <1>2, <2>1, <2>2 DEF LoadStack, vma_overlaps, AddsArea
  <2>. QED
    BY Zenon, <2>2, <2>3
<1>3. ASSUME NEW a \in AS, NEW r \in Ranges, NEW w \in BOOLEAN, MmapBegin(a, r, w)
      PROVE  \E n \in Vma : AddsArea(a, n)
  BY <1>3, MmapArea
<1>4. CASE Load
  <2>1. \/ vmas' = vmas
        \/ \E v \in VA, p \in Page, x \in Value, w \in BOOLEAN : LoadSegmentPage(v, p, x, w)
        \/ \E low, v \in VA, p \in Page, x \in Value : LoadStack(low, v, p, x)
    BY Zenon, <1>4 DEF Load, LoadBegin, LoadEnd, LoadFail
  <2>. QED
    BY Zenon, <1>1, <1>2, <2>1
<1>5. CASE Fork \/ Teardown
  BY Zenon, <1>5 DEF Fork, ForkBegin, ClonePage, CloneFail, CloneEnd, SealPage, ForkFail,
         Teardown, ExitBegin, DestroyPage
<1>6. CASE Run \/ Kernel \/ CopyOut
  BY Zenon, <1>6 DEF Run, UserStore, CowFault, GrowFault, CreateThread, FreeThread, FreeStale,
         FreeBareThread, Kernel, KernelAlloc, KernelFree, CopyOut, CopyBegin, CopyPage, CopyFail, CopyEnd
<1>7. CASE Mmap
  BY Zenon, <1>3, <1>7 DEF Mmap, MmapPage, MmapEnd, MmapFail, RollbackPage
<1>8. CASE Munmap
  BY Zenon, <1>8 DEF Munmap, MunmapBegin, MunmapPage, MunmapAbsent
<1>. QED
  BY Zenon, <1>4, <1>5, <1>6, <1>7, <1>8 DEF Next

\* The areas of one space after a step, when the others keep theirs.
LEMMA DisjointIn ==
    ASSUME TypeOK, VmasDisjoint, NEW a \in AS, NEW M, vmas' = [vmas EXCEPT ![a] = M],
           \A m, n \in M : m # n => Pages(m) \cap Pages(n) = {}
    PROVE  VmasDisjoint'
<1>1. \A b \in AS : vmas'[b] = IF b = a THEN M ELSE vmas[b]
  BY DEF TypeOK
<1>2. ASSUME NEW b \in AS
      PROVE  \A m, n \in vmas'[b] : m # n => Pages(m) \cap Pages(n) = {}
  <2>1. CASE b = a
    <3>1. vmas'[b] = M
      BY <1>1, <2>1
    <3>. QED
      BY Zenon, <3>1
  <2>2. CASE b # a
    BY Zenon, <1>1, <2>2 DEF VmasDisjoint
  <2>. QED
    BY Zenon, <2>1, <2>2
<1>. QED
  BY Zenon, <1>2 DEF VmasDisjoint, Pages

LEMMA NextDisjoint ==
    ASSUME TypeOK, LocalsOK, VmasDisjoint, [Next]_vars PROVE VmasDisjoint'
<1>1. CASE vmas' = vmas
  BY Zenon, <1>1 DEF VmasDisjoint, Pages
<1>2. ASSUME NEW a \in AS, NEW n \in Vma, AddsArea(a, n) PROVE VmasDisjoint'
  <2>1. vmas' = [vmas EXCEPT ![a] = vmas[a] \cup {n}]
    BY <1>2 DEF AddsArea
  <2>2. ASSUME NEW k \in vmas[a] \cup {n}, NEW m \in vmas[a] \cup {n}, k # m
        PROVE  Pages(k) \cap Pages(m) = {}
    BY <1>2, <2>2 DEF AddsArea, VmasDisjoint
  <2>. QED
    BY Zenon, <2>1, <2>2, DisjointIn
<1>3. CASE ForkEnd
  <2>1. cur \in AS /\ src \in AS /\ vmas' = [vmas EXCEPT ![cur] = vmas[src]]
    BY <1>3 DEF ForkEnd, LocalsOK
  <2>2. \A m, n \in vmas[src] : m # n => Pages(m) \cap Pages(n) = {}
    BY Zenon, <2>1 DEF VmasDisjoint
  <2>. QED
    BY Zenon, <2>1, <2>2, DisjointIn
<1>4. CASE DestroyEnd
  <2>1. cur \in AS /\ vmas' = [vmas EXCEPT ![cur] = {}]
    BY <1>4 DEF DestroyEnd, LocalsOK
  <2>. QED
    BY Zenon, <2>1, DisjointIn
<1>5. CASE RollbackEnd
  <2>1. cur \in AS /\ vmas' = [vmas EXCEPT ![cur] = {m \in vmas[cur] : Pages(m) # rng}]
    BY <1>5 DEF RollbackEnd, LocalsOK
  <2>2. \A m, n \in {k \in vmas[cur] : Pages(k) # rng} : m # n => Pages(m) \cap Pages(n) = {}
    BY Zenon, <2>1 DEF VmasDisjoint
  <2>. QED
    BY Zenon, <2>1, <2>2, DisjointIn
<1>6. CASE MunmapEnd
  <2>0. cur \in AS /\ vmas[cur] \subseteq Vma
    BY <1>6 DEF MunmapEnd, LocalsOK, TypeOK
  <2>1. PICK m \in vmas[cur] :
          /\ rng \subseteq Pages(m)
          /\ vmas' = [vmas EXCEPT ![cur] = (vmas[cur] \ {m}) \cup
                      {n \in Split(m, rng) : Pages(n) \cap rng = {}}]
    BY <1>6 DEF MunmapEnd
  <2>2. DEFINE R == {n \in Split(m, rng) : Pages(n) \cap rng = {}}
  <2>3. ASSUME NEW n \in R, NEW k \in vmas[cur] \ {m} PROVE Pages(n) \cap Pages(k) = {}
    <3>1. Pages(n) \subseteq Pages(m) /\ Pages(m) \cap Pages(k) = {}
      BY Zenon, <2>0, <2>1, SplitParts DEF VmasDisjoint
    <3>. QED
      BY <3>1
  <2>4. ASSUME NEW n \in R, NEW k \in R, n # k PROVE Pages(n) \cap Pages(k) = {}
    BY Zenon, <2>0, <2>1, <2>4, SplitApart
  <2>5. ASSUME NEW n \in (vmas[cur] \ {m}) \cup R, NEW k \in (vmas[cur] \ {m}) \cup R, n # k
        PROVE  Pages(n) \cap Pages(k) = {}
    <3>. HIDE DEF R
    <3>1. CASE n \in R /\ k \in R
      BY <2>4, <2>5, <3>1
    <3>2. CASE n \in R /\ k \notin R
      BY <2>3, <2>5, <3>2
    <3>3. CASE n \notin R /\ k \in R
      BY <2>3, <2>5, <3>3
    <3>4. CASE n \notin R /\ k \notin R
      BY <2>0, <2>5, <3>4 DEF VmasDisjoint
    <3>. QED
      BY Zenon, <3>1, <3>2, <3>3, <3>4
  <2>6. vmas' = [vmas EXCEPT ![cur] = (vmas[cur] \ {m}) \cup R]
    BY <2>1
  <2>. HIDE DEF R
  <2>7. \A n, k \in (vmas[cur] \ {m}) \cup R : n # k => Pages(n) \cap Pages(k) = {}
    BY Zenon, <2>5
  <2>. QED
    BY Zenon, <2>0, <2>6, <2>7, DisjointIn
<1>. QED
  BY Zenon, <1>1, <1>2, <1>3, <1>4, <1>5, <1>6, AreaSteps DEF vars

\* While neither mmap nor munmap works, the invariant says less.
LEMMA QuietNow ==
    ASSUME AreaInv, ~Working PROVE Grown /\ \A a \in AS : stat[a] = "live" => Fine(a)
BY Zenon DEF AreaInv

LEMMA QuietNext ==
    ASSUME ~Working', Grown', \A a \in AS : stat'[a] = "live" => Fine(a)' PROVE AreaInv'
BY Zenon DEF AreaInv, Working

\* A space whose areas and thread pages stay, and no page of which goes.
Kept(a) == Anon(a)' = Anon(a) /\ Owned(a)' = Owned(a) /\ Mapped(a) \subseteq Mapped(a)'

LEMMA KeptFine == ASSUME NEW a, Fine(a), Kept(a) PROVE Fine(a)'
BY DEF Fine, Kept

\* Steps outside mmap and munmap that change no area and no thread page.
Calm ==
    /\ ~Working /\ ~Working'
    /\ vmas' = vmas /\ thread_pages' = thread_pages
    /\ \A a \in AS : \/ stat'[a] = stat[a] \/ stat'[a] = "dying"
                     \/ stat[a] = "unused" /\ stat'[a] = "building"
    /\ \A a \in AS : stat[a] = "live" => Mapped(a) \subseteq Mapped(a)'

LEMMA SameAreas ==
    ASSUME NEW a, vmas'[a] = vmas[a] PROVE Anon(a)' = Anon(a)
BY Zenon DEF Anon, Pages

LEMMA CalmStep == ASSUME TypeOK, AreaInv, Calm PROVE AreaInv'
<1>1. \A a \in AS : Anon(a)' = Anon(a) /\ Owned(a)' = Owned(a)
  BY Zenon, SameAreas DEF Calm, Owned
<1>2. Grown /\ \A a \in AS : stat[a] = "live" => Fine(a)
  BY Zenon, QuietNow DEF Calm
<1>3. Grown'
  <2>1. \A s \in thread_pages' : stat'[s[1]] \in {"live", "dying"}
    BY <1>2, SlotPair DEF Grown, Calm, TypeOK
  <2>2. \A a \in AS : stat'[a] = "unused" => vmas'[a] = {}
    BY <1>2 DEF Grown, Calm
  <2>3. ASSUME NEW a \in AS, stat'[a] = "building" PROVE Anon(a)' = {}
    <3>1. stat[a] = "building" \/ vmas[a] = {}
      BY <1>2, <2>3 DEF Grown, Calm
    <3>2. Anon(a) = {}
      BY Zenon, <1>2, <3>1 DEF Grown, Anon
    <3>. QED
      BY <1>1, <3>2
  <2>. QED
    BY Zenon, <2>1, <2>2, <2>3 DEF Grown
<1>4. ASSUME NEW a \in AS, stat'[a] = "live" PROVE Fine(a)'
  <2>1. stat[a] = "live"
    BY <1>4 DEF Calm
  <2>. QED
    BY Zenon, <1>1, <1>2, <2>1, KeptFine DEF Calm, Kept
<1>. QED
  BY Zenon, <1>3, <1>4, QuietNext DEF Calm

\* What the PTE operations do to the mapped pages of a space.
LEMMA MapNewMapped ==
    ASSUME TypeOK, NEW c \in AS, NEW v \in VA, NEW p \in Page, NEW m, NEW x,
           MapNew(<<c, v>>, p, m, x)
    PROVE  /\ v \notin Mapped(c) /\ Mapped(c)' = Mapped(c) \cup {v}
           /\ \A a \in AS : a # c => Mapped(a)' = Mapped(a)
<1>1. frame' = [frame EXCEPT ![<<c, v>>] = p] /\ frame[<<c, v>>] = None /\ p # None
  BY MemoryAssumption DEF MapNew
<1>2. \A a \in AS, y \in VA : frame'[<<a, y>>] = IF <<a, y>> = <<c, v>> THEN p ELSE frame[<<a, y>>]
  BY Zenon, <1>1, SlotPair DEF TypeOK, FrameTypes
<1>. QED
  BY <1>1, <1>2 DEF Mapped

LEMMA UnmapMapped ==
    ASSUME TypeOK, NEW c \in AS, NEW v \in VA, unmap_user_page(<<c, v>>)
    PROVE  /\ Mapped(c)' = Mapped(c) \ {v}
           /\ \A a \in AS : a # c => Mapped(a)' = Mapped(a)
<1>1. frame' = [frame EXCEPT ![<<c, v>>] = None]
  BY DEF unmap_user_page
<1>2. \A a \in AS, y \in VA : frame'[<<a, y>>] = IF <<a, y>> = <<c, v>> THEN None ELSE frame[<<a, y>>]
  BY Zenon, <1>1, SlotPair DEF TypeOK, FrameTypes
<1>. QED
  BY <1>2 DEF Mapped

LEMMA SharedMapped ==
    ASSUME TypeOK, NEW c \in AS, NEW v \in VA, NEW p, NEW m, MapShared(<<c, v>>, p, m)
    PROVE  \A a \in AS : a # c => Mapped(a)' = Mapped(a)
<1>1. frame' = [frame EXCEPT ![<<c, v>>] = p]
  BY DEF MapShared
<1>2. \A a \in AS, y \in VA : a # c => frame'[<<a, y>>] = frame[<<a, y>>]
  BY <1>1, SlotPair DEF TypeOK, FrameTypes
<1>. QED
  BY <1>2 DEF Mapped

LEMMA CowMapped ==
    ASSUME TypeOK, PteOK, NEW c \in AS, NEW v \in VA, NEW p \in Page,
           handle_cow_page_fault(<<c, v>>, p)
    PROVE  \A a \in AS : Mapped(a)' = Mapped(a)
<1>1. CASE frame' = frame
  BY <1>1 DEF Mapped
<1>2. CASE frame' = [frame EXCEPT ![<<c, v>>] = p]
  <2>1. frame[<<c, v>>] # None /\ p # None
    BY SlotPair, MemoryAssumption DEF handle_cow_page_fault, PteOK
  <2>2. \A a \in AS, y \in VA : frame'[<<a, y>>] = IF <<a, y>> = <<c, v>> THEN p ELSE frame[<<a, y>>]
    BY Zenon, <1>2, SlotPair DEF TypeOK, FrameTypes
  <2>. QED
    BY <2>1, <2>2 DEF Mapped
<1>. QED
  BY <1>1, <1>2 DEF handle_cow_page_fault

LEMMA SameMapped == ASSUME frame' = frame, NEW a PROVE Mapped(a)' = Mapped(a)
BY DEF Mapped

\* The operations that are calm.
CalmAction ==
    \/ \E c \in AS, old \in AS \cup {None} : LoadBegin(c, old)
    \/ LoadFail
    \/ \E a, c \in AS : ForkBegin(a, c)
    \/ \E v \in VA : ClonePage(v) \/ SealPage(v)
    \/ CloneFail \/ CloneEnd \/ ForkFail
    \/ \E a \in AS : ExitBegin(a)
    \/ \E v \in VA : DestroyPage(v)
    \/ \E s \in Slot, x \in Value : UserStore(s, x)
    \/ \E s \in Slot, p \in Page : CowFault(s, p) \/ GrowFault(s, p)
    \/ \E a \in AS : FreeBareThread(a)
    \/ Kernel \/ CopyOut

LEMMA CalmActions == ASSUME IInv, CalmAction PROVE Calm
<1>0. TypeOK /\ PteOK /\ LocalsOK
  BY DEF IInv, FramesOK
<1>1. ~Working /\ ~Working'
  BY Zenon DEF CalmAction, LoadBegin, LoadFail, ForkBegin, ClonePage, SealPage, CloneFail,
         CloneEnd, ForkFail, ExitBegin, DestroyPage, UserStore, CowFault, GrowFault,
         FreeBareThread, Kernel, KernelAlloc, KernelFree, CopyOut, CopyBegin, CopyPage,
         CopyEnd, CopyFail, Begin, End, Step, Idle, Working
<1>2. vmas' = vmas /\ thread_pages' = thread_pages
  BY Zenon DEF CalmAction, LoadBegin, LoadFail, ForkBegin, ClonePage, SealPage, CloneFail,
         CloneEnd, ForkFail, ExitBegin, DestroyPage, UserStore, CowFault, GrowFault,
         FreeBareThread, Kernel, KernelAlloc, KernelFree, CopyOut, CopyBegin, CopyPage,
         CopyEnd, CopyFail, thrs
<1>3. ASSUME NEW b \in AS
      PROVE  \/ stat'[b] = stat[b] \/ stat'[b] = "dying"
             \/ stat[b] = "unused" /\ stat'[b] = "building"
  <2>1. \/ stat' = stat
        \/ \E c \in AS : stat[c] = "unused" /\ stat' = [stat EXCEPT ![c] = "building"]
        \/ \E c \in AS : stat' = [stat EXCEPT ![c] = "dying"]
        \/ stat' = [stat EXCEPT ![cur] = "dying"]
    BY Zenon DEF CalmAction, LoadBegin, LoadFail, ForkBegin, ClonePage, SealPage, CloneFail,
         CloneEnd, ForkFail, ExitBegin, DestroyPage, UserStore, CowFault, GrowFault,
         FreeBareThread, Kernel, KernelAlloc, KernelFree, CopyOut, CopyBegin, CopyPage,
         CopyEnd, CopyFail
  <2>. QED
    BY <1>0, <2>1 DEF TypeOK
<1>4. ASSUME NEW b \in AS, stat[b] = "live" PROVE Mapped(b) \subseteq Mapped(b)'
  <2>1. ASSUME NEW v \in VA, ClonePage(v) \/ DestroyPage(v) PROVE Mapped(b) \subseteq Mapped(b)'
    <3>1. PICK c \in AS : c = cur
      BY <1>0, <2>1 DEF ClonePage, DestroyPage, LocalsOK
    <3>2. b # c
      BY <1>0, <1>4, <2>1, <3>1 DEF ClonePage, DestroyPage, LocalsOK
    <3>3. Mapped(b)' = Mapped(b)
      BY Zenon, <1>0, <2>1, <3>1, <3>2, SharedMapped, UnmapMapped DEF ClonePage, DestroyPage
    <3>. QED
      BY <3>3
  <2>2. ASSUME NEW s \in Slot, NEW p \in Page, CowFault(s, p) \/ GrowFault(s, p)
        PROVE  Mapped(b) \subseteq Mapped(b)'
    <3>1. PICK c \in AS, v \in VA : s = <<c, v>>
      BY SlotPair
    <3>2. Mapped(b)' = Mapped(b) \/ Mapped(b)' = Mapped(b) \cup {v}
      BY Zenon, <1>0, <2>2, <3>1, CowMapped, MapNewMapped DEF CowFault, GrowFault
    <3>. QED
      BY <3>2
  <2>3. ASSUME NEW v \in VA, NEW p \in Page, CopyPage(v, p) PROVE Mapped(b) \subseteq Mapped(b)'
    <3>1. PICK c \in AS : c = cur
      BY <1>0, <2>3 DEF CopyPage, LocalsOK
    <3>2. Mapped(b)' = Mapped(b)
      BY Zenon, <1>0, <2>3, <3>1, CowMapped, SameMapped DEF CopyPage, ptes
    <3>. QED
      BY <3>2
  <2>4. CASE frame' = frame
    BY <2>4, SameMapped
  <2>5. \/ frame' = frame
        \/ \E v \in VA : ClonePage(v) \/ DestroyPage(v)
        \/ \E s \in Slot, p \in Page : CowFault(s, p) \/ GrowFault(s, p)
        \/ \E v \in VA, p \in Page : CopyPage(v, p)
    BY Zenon DEF CalmAction, LoadBegin, LoadFail, ForkBegin, SealPage, CloneFail,
         CloneEnd, ForkFail, ExitBegin, UserStore,
         FreeBareThread, Kernel, KernelAlloc, KernelFree, CopyOut, CopyBegin,
         CopyEnd, CopyFail, ptes
  <2>. QED
    BY Zenon, <2>1, <2>2, <2>3, <2>4, <2>5
<1>. QED
  BY Zenon, <1>1, <1>2, <1>3, <1>4 DEF Calm

\* The loader adds an area of the file or the stack to a space that no
\* program runs in yet.
LEMMA LoadAreas ==
    ASSUME TypeOK, LocalsOK, AreaInv, op = "load", op' = op, stat' = stat,
           thread_pages' = thread_pages,
           NEW n, n.kind # "anon", vmas' = [vmas EXCEPT ![cur] = @ \cup {n}],
           \A a \in AS : a # cur => Mapped(a)' = Mapped(a)
    PROVE  AreaInv'
<1>0. cur \in AS /\ stat[cur] = "building" /\ ~Working /\ ~Working'
  BY DEF LocalsOK, Working
<1>1. \A a \in AS : vmas'[a] = IF a = cur THEN vmas[a] \cup {n} ELSE vmas[a]
  BY <1>0 DEF TypeOK
<1>2. Grown /\ \A a \in AS : stat[a] = "live" => Fine(a)
  BY Zenon, <1>0, QuietNow
<1>3. ASSUME NEW a \in AS PROVE Anon(a)' = Anon(a) /\ Owned(a)' = Owned(a)
  <2>1. CASE a = cur
    <3>1. vmas'[a] = vmas[a] \cup {n}
      BY <1>1, <2>1
    <3>2. Anon(a)' = Anon(a)
      BY <3>1 DEF Anon, Pages
    <3>. QED
      BY Zenon, <3>2 DEF Owned
  <2>2. CASE a # cur
    BY Zenon, <1>1, <2>2, SameAreas DEF Owned
  <2>. QED
    BY <2>1, <2>2
<1>4. Grown'
  <2>1. \A s \in thread_pages' : stat'[s[1]] \in {"live", "dying"}
    BY Zenon, <1>2 DEF Grown
  <2>2. \A a \in AS : stat'[a] = "unused" => vmas'[a] = {}
    BY <1>0, <1>1, <1>2 DEF Grown
  <2>. QED
    BY Zenon, <1>2, <1>3, <2>1, <2>2 DEF Grown
<1>5. ASSUME NEW a \in AS, stat'[a] = "live" PROVE Fine(a)'
  <2>1. a # cur /\ Fine(a)
    BY <1>0, <1>2, <1>5
  <2>2. Kept(a)
    BY <1>3, <2>1 DEF Kept
  <2>. QED
    BY <2>1, <2>2, KeptFine
<1>. QED
  BY Zenon, <1>0, <1>4, <1>5, QuietNext

\* LoadEnd: the program starts, with the TLS page of its first thread mapped.
LEMMA LoadEndAreas ==
    ASSUME IInv, AreaInv, NEW v \in VA, NEW p \in Page, NEW x, LoadEnd(v, p, x) PROVE AreaInv'
<1>0. PICK c \in AS : c = cur /\ stat[c] = "building" /\ TypeOK /\ LocalsOK
  BY DEF IInv, LoadEnd, LocalsOK
<1>1. ~Working /\ ~Working'
  BY Zenon DEF LoadEnd, LoadedNew, LoadedExec, Begin, End, Working
<1>2. Grown /\ \A a \in AS : stat[a] = "live" => Fine(a)
  BY Zenon, <1>1, QuietNow
<1>3. /\ Mapped(c)' = Mapped(c) \cup {v}
      /\ \A a \in AS : a # c => Mapped(a)' = Mapped(a)
  BY Zenon, <1>0, MapNewMapped DEF LoadEnd
<1>4. \A a \in AS : Anon(a)' = Anon(a)
  BY Zenon, SameAreas DEF LoadEnd
<1>5. /\ thread_pages' = thread_pages \cup {<<c, v>>}
      /\ stat'[c] = "live"
      /\ \A a \in AS : a # c => stat'[a] = stat[a] \/ (stat[a] = "live" /\ stat'[a] = "dying")
  <2>0. stat \in [AS -> {"unused", "building", "live", "dying"}] /\ src \in AS \cup {None}
    BY <1>0 DEF TypeOK
  <2>1. \/ stat' = [stat EXCEPT ![c] = "live"]
        \/ src # None /\ stat' = [stat EXCEPT ![c] = "live", ![src] = "dying"]
    BY Zenon, <1>0 DEF LoadEnd, LoadedNew, LoadedExec
  <2>2. src \in AS => src # c /\ stat[src] = "live"
    BY <1>0 DEF LoadEnd, LocalsOK
  <2>3. thread_pages' = thread_pages \cup {<<c, v>>}
    BY Zenon, <1>0 DEF LoadEnd
  <2>4. ASSUME NEW a \in AS
        PROVE  stat'[a] = IF a = c THEN "live" ELSE IF a = src THEN stat'[a] ELSE stat[a]
    BY <2>0, <2>1, <2>2
  <2>5. ASSUME src \in AS PROVE stat'[src] \in {"live", "dying"}
    BY <2>0, <2>1, <2>2, <2>5
  <2>6. stat'[c] = "live"
    BY <2>4
  <2>7. \A a \in AS : a # c => stat'[a] = stat[a] \/ (stat[a] = "live" /\ stat'[a] = "dying")
    <3>1. ASSUME NEW a \in AS, a # c, a # src PROVE stat'[a] = stat[a]
      BY <2>4, <3>1
    <3>2. ASSUME NEW a \in AS, a = src
          PROVE  stat[a] = "live" /\ (stat'[a] = "live" \/ stat'[a] = "dying")
      BY <2>2, <2>5, <3>2
    <3>. QED
      BY Zenon, <3>1, <3>2
  <2>. QED
    BY Zenon, <2>3, <2>6, <2>7
<1>6. Owned(c)' = {v} /\ \A a \in AS : a # c => Owned(a)' = Owned(a)
  <2>1. ASSUME NEW s \in thread_pages PROVE s[1] # c
    BY <1>0, <1>2, <2>1 DEF Grown
  <2>2. \A y \in VA : <<c, y>> \notin thread_pages
    BY <2>1
  <2>. QED
    BY <1>5, <2>2 DEF Owned
<1>7. Grown'
  <2>1. \A s \in thread_pages' : stat'[s[1]] \in {"live", "dying"}
    <3>1. ASSUME NEW s \in thread_pages PROVE stat'[s[1]] \in {"live", "dying"}
      BY <1>0, <1>2, <1>5, SlotPair DEF Grown, TypeOK
    <3>. QED
      BY <1>5, <3>1
  <2>2. \A a \in AS : stat'[a] = "unused" => vmas'[a] = {}
    BY <1>2, <1>5 DEF Grown, LoadEnd
  <2>3. \A a \in AS : stat'[a] = "building" => Anon(a)' = {}
    BY <1>2, <1>4, <1>5 DEF Grown
  <2>. QED
    BY Zenon, <2>1, <2>2, <2>3 DEF Grown
<1>8. ASSUME NEW a \in AS, stat'[a] = "live" PROVE Fine(a)'
  <2>1. CASE a = c
    BY <1>0, <1>2, <1>3, <1>4, <1>6, <2>1 DEF Grown, Fine
  <2>2. CASE a # c
    BY <1>2, <1>3, <1>4, <1>5, <1>6, <1>8, <2>2, KeptFine DEF Kept
  <2>. QED
    BY <2>1, <2>2
<1>. QED
  BY Zenon, <1>1, <1>7, <1>8, QuietNext

\* ForkEnd: the child has the parent's areas and its mapped pages.
LEMMA ForkEndAreas == ASSUME IInv, AreaInv, ForkEnd PROVE AreaInv'
<1>0. PICK c \in AS, b \in AS : c = cur /\ b = src /\ b # c
  BY DEF IInv, ForkEnd, LocalsOK
<1>1. stat[c] = "building" /\ stat[b] = "live" /\ TypeOK
  BY <1>0 DEF IInv, ForkEnd, LocalsOK
<1>2. ~Working /\ ~Working'
  BY Zenon DEF ForkEnd, Begin, End, Working
<1>3. Grown /\ \A a \in AS : stat[a] = "live" => Fine(a)
  BY Zenon, <1>2, QuietNow
<1>4. /\ stat'[c] = "live" /\ \A a \in AS : a # c => stat'[a] = stat[a]
      /\ vmas'[c] = vmas[b] /\ \A a \in AS : a # c => vmas'[a] = vmas[a]
  BY <1>0, <1>1 DEF ForkEnd, TypeOK
<1>5. Anon(c)' = Anon(b) /\ \A a \in AS : a # c => Anon(a)' = Anon(a)
  BY Zenon, <1>4 DEF Anon, Pages
<1>6. thread_pages' = thread_pages /\ frame' = frame
  BY DEF ForkEnd, ptes
<1>7. \A a \in AS : Owned(a)' = Owned(a) /\ Mapped(a)' = Mapped(a)
  BY Zenon, <1>6 DEF Owned, Mapped
<1>8. Owned(c) = {} /\ Mapped(c) = Mapped(b)
  <2>1. ASSUME NEW s \in thread_pages PROVE s[1] # c
    BY <1>1, <1>3, <2>1 DEF Grown
  <2>2. \A y \in VA : <<c, y>> \notin thread_pages
    BY <2>1
  <2>3. \A y \in VA : frame[<<c, y>>] = frame[<<b, y>>]
    BY Zenon, <1>0 DEF ForkEnd, IInv, ChildOK
  <2>. QED
    BY Zenon, <2>2, <2>3 DEF Owned, Mapped
<1>9. Grown'
  <2>1. \A s \in thread_pages' : stat'[s[1]] \in {"live", "dying"}
    BY <1>1, <1>3, <1>4, <1>6, SlotPair DEF Grown, TypeOK
  <2>2. \A a \in AS : stat'[a] = "unused" => vmas'[a] = {}
    BY <1>3, <1>4 DEF Grown
  <2>3. \A a \in AS : stat'[a] = "building" => Anon(a)' = {}
    BY <1>3, <1>4, <1>5 DEF Grown
  <2>. QED
    BY Zenon, <2>1, <2>2, <2>3 DEF Grown
<1>10. ASSUME NEW a \in AS, stat'[a] = "live" PROVE Fine(a)'
  <2>1. CASE a = c
    BY <1>1, <1>3, <1>5, <1>7, <1>8, <2>1 DEF Fine
  <2>2. CASE a # c
    BY <1>3, <1>4, <1>5, <1>7, <1>10, <2>2, KeptFine DEF Kept
  <2>. QED
    BY <2>1, <2>2
<1>. QED
  BY Zenon, <1>2, <1>9, <1>10, QuietNext

\* DestroyEnd: the areas and the threads go with the address space.
LEMMA DestroyEndAreas == ASSUME IInv, AreaInv, DestroyEnd PROVE AreaInv'
<1>0. PICK c \in AS : c = cur /\ TypeOK
  BY DEF IInv, DestroyEnd, LocalsOK
<1>1. ~Working /\ ~Working'
  BY Zenon DEF DestroyEnd, Begin, End, Working
<1>2. Grown /\ \A a \in AS : stat[a] = "live" => Fine(a)
  BY Zenon, <1>1, QuietNow
<1>3. /\ stat'[c] = "unused" /\ \A a \in AS : a # c => stat'[a] = stat[a]
      /\ vmas'[c] = {} /\ \A a \in AS : a # c => vmas'[a] = vmas[a]
  BY <1>0 DEF DestroyEnd, TypeOK
<1>4. \A a \in AS : a # c => Anon(a)' = Anon(a)
  BY Zenon, <1>3, SameAreas
<1>5. thread_pages' = {s \in thread_pages : s[1] # c} /\ frame' = frame
  BY <1>0 DEF DestroyEnd, ptes
<1>6. \A a \in AS : Mapped(a)' = Mapped(a)
  BY Zenon, <1>5 DEF Mapped
<1>7. \A a \in AS : a # c => Owned(a)' = Owned(a)
  BY <1>5 DEF Owned
<1>8. Grown'
  <2>1. \A s \in thread_pages' : stat'[s[1]] \in {"live", "dying"}
    BY <1>0, <1>2, <1>3, <1>5, SlotPair DEF Grown, TypeOK
  <2>2. \A a \in AS : stat'[a] = "unused" => vmas'[a] = {}
    BY <1>2, <1>3 DEF Grown
  <2>3. \A a \in AS : stat'[a] = "building" => Anon(a)' = {}
    BY <1>2, <1>3, <1>4 DEF Grown
  <2>. QED
    BY Zenon, <2>1, <2>2, <2>3 DEF Grown
<1>9. ASSUME NEW a \in AS, stat'[a] = "live" PROVE Fine(a)'
  <2>1. a # c
    BY <1>3, <1>9
  <2>. QED
    BY <1>2, <1>3, <1>4, <1>6, <1>7, <1>9, <2>1, KeptFine DEF Kept
<1>. QED
  BY Zenon, <1>1, <1>8, <1>9, QuietNext

\* A thread is created or freed: its page is outside every mmap area, whose
\* pages are mapped.
LEMMA ThreadAreas ==
    ASSUME IInv, AreaInv, NEW s \in Slot,
           FreeThread(s) \/ \E p \in Page : CreateThread(s, p)
    PROVE  AreaInv'
<1>0. PICK c \in AS, v \in VA : s = <<c, v>>
  BY SlotPair
<1>1. ~Working /\ ~Working' /\ vmas' = vmas /\ stat' = stat
  BY Zenon DEF FreeThread, CreateThread, Idle, Begin, End, Working
<1>2. Grown /\ (\A a \in AS : stat[a] = "live" => Fine(a)) /\ TypeOK
  BY Zenon, <1>1, QuietNow DEF IInv
<1>3. \A a \in AS : Anon(a)' = Anon(a)
  BY Zenon, <1>1, SameAreas
<1>4. /\ \A a \in AS : a # c => Mapped(a)' = Mapped(a) /\ Owned(a)' = Owned(a)
      /\ \/ v \in Owned(c) /\ Mapped(c)' = Mapped(c) \ {v} /\ Owned(c)' = Owned(c) \ {v}
         \/ v \notin Mapped(c) /\ Mapped(c)' = Mapped(c) \cup {v} /\ Owned(c)' = Owned(c) \cup {v}
  <2>1. CASE FreeThread(s)
    <3>1. Mapped(c)' = Mapped(c) \ {v} /\ \A a \in AS : a # c => Mapped(a)' = Mapped(a)
      BY Zenon, <1>0, <1>2, <2>1, UnmapMapped DEF FreeThread
    <3>2. <<c, v>> \in thread_pages /\ thread_pages' = thread_pages \ {<<c, v>>}
      BY <1>0, <2>1 DEF FreeThread
    <3>3. v \in Owned(c) /\ Owned(c)' = Owned(c) \ {v} /\ \A a \in AS : a # c => Owned(a)' = Owned(a)
      BY <3>2 DEF Owned
    <3>. QED
      BY Zenon, <3>1, <3>3
  <2>2. ASSUME NEW p \in Page, CreateThread(s, p)
        PROVE  /\ v \notin Mapped(c) /\ Mapped(c)' = Mapped(c) \cup {v} /\ Owned(c)' = Owned(c) \cup {v}
               /\ \A a \in AS : a # c => Mapped(a)' = Mapped(a) /\ Owned(a)' = Owned(a)
    <3>1. /\ v \notin Mapped(c) /\ Mapped(c)' = Mapped(c) \cup {v}
          /\ \A a \in AS : a # c => Mapped(a)' = Mapped(a)
      BY Zenon, <1>0, <1>2, <2>2, MapNewMapped DEF CreateThread
    <3>2. thread_pages' = thread_pages \cup {<<c, v>>}
      BY <1>0, <2>2 DEF CreateThread
    <3>3. Owned(c)' = Owned(c) \cup {v} /\ \A a \in AS : a # c => Owned(a)' = Owned(a)
      BY <3>2 DEF Owned
    <3>. QED
      BY Zenon, <3>1, <3>3
  <2>. QED
    BY Zenon, <2>1, <2>2
<1>5. Grown'
  <2>1. \A t \in thread_pages' : stat[t[1]] \in {"live", "dying"}
    <3>1. CASE FreeThread(s)
      BY <1>2, <3>1 DEF FreeThread, Grown
    <3>2. ASSUME NEW p \in Page, CreateThread(s, p) PROVE \A t \in thread_pages' : stat[t[1]] \in {"live", "dying"}
      BY <1>2, <3>2 DEF CreateThread, Grown
    <3>. QED
      BY Zenon, <3>1, <3>2
  <2>. QED
    BY Zenon, <1>1, <1>2, <1>3, <2>1 DEF Grown
<1>6. ASSUME NEW a \in AS, stat'[a] = "live" PROVE Fine(a)'
  <2>1. Fine(a)
    BY <1>1, <1>2, <1>6
  <2>2. CASE a = c
    BY <1>3, <1>4, <2>1, <2>2 DEF Fine
  <2>3. CASE a # c
    BY <1>3, <1>4, <2>1, <2>3, KeptFine DEF Kept
  <2>. QED
    BY <2>2, <2>3
<1>. QED
  BY Zenon, <1>1, <1>5, <1>6, QuietNext

\* mmap and munmap change one running space; the others stay fine.
LEMMA WorkElsewhere ==
    ASSUME TypeOK, LocalsOK, AreaInv, NEW c \in AS, stat[c] = "live", stat' = stat,
           thread_pages' = thread_pages,
           ~Working \/ cur = c, ~Working' \/ cur' = c,
           \A a \in AS : a # c => vmas'[a] = vmas[a] /\ Mapped(a)' = Mapped(a)
    PROVE  /\ Grown' /\ Owned(c)' = Owned(c)
           /\ \A a \in AS : stat'[a] = "live" /\ a # c => Fine(a)'
<1>1. \A a \in AS : Owned(a)' = Owned(a)
  BY Zenon DEF Owned
<1>2. \A a \in AS : a # c => Anon(a)' = Anon(a)
  BY Zenon, SameAreas
<1>3. Grown'
  <2>1. \A s \in thread_pages' : stat'[s[1]] \in {"live", "dying"}
    BY Zenon DEF AreaInv, Grown
  <2>2. \A a \in AS : stat'[a] = "unused" => a # c /\ vmas'[a] = {}
    BY DEF AreaInv, Grown
  <2>3. \A a \in AS : stat'[a] = "building" => a # c /\ Anon(a)' = {}
    BY <1>2 DEF AreaInv, Grown
  <2>. QED
    BY Zenon, <2>1, <2>2, <2>3 DEF Grown
<1>4. ASSUME NEW a \in AS, stat'[a] = "live", a # c PROVE Fine(a)'
  <2>1. Fine(a)
    BY Zenon, <1>4 DEF AreaInv
  <2>2. Kept(a)
    BY <1>1, <1>2, <1>4 DEF Kept
  <2>. QED
    BY <2>1, <2>2, KeptFine
<1>. QED
  BY Zenon, <1>1, <1>3, <1>4

\* A step of mmap that leaves it unfinished.
LEMMA MmapAreas ==
    ASSUME IInv, AreaInv,
           \/ \E a \in AS, r \in Ranges, w \in BOOLEAN : MmapBegin(a, r, w)
           \/ \E v \in VA, p \in Page : MmapPage(v, p)
    PROVE  AreaInv'
<1>. USE DEF IInv
<1>1. ASSUME NEW a \in AS, NEW r \in Ranges, NEW w \in BOOLEAN, MmapBegin(a, r, w)
      PROVE  AreaInv'
  <2>1. PICK n \in Vma : AddsArea(a, n) /\ Pages(n) = r /\ n.kind = "anon"
    BY Zenon, <1>1, MmapArea
  <2>2. /\ op' = "mmap" /\ cur' = a /\ todo' = r /\ rng' = r
        /\ stat' = stat /\ thread_pages' = thread_pages /\ frame' = frame
        /\ ~Working /\ Working' /\ stat[a] = "live"
    BY <1>1 DEF MmapBegin, Begin, thrs, ptes, Working, Idle
  <2>3. vmas'[a] = vmas[a] \cup {n} /\ \A b \in AS : b # a => vmas'[b] = vmas[b]
    BY <2>1 DEF AddsArea, TypeOK
  <2>4. \A b \in AS : Mapped(b)' = Mapped(b)
    BY Zenon, <2>2, SameMapped
  <2>5. /\ Grown' /\ Owned(a)' = Owned(a)
        /\ \A b \in AS : stat'[b] = "live" /\ b # a => Fine(b)'
    BY Zenon, <2>2, <2>3, <2>4, WorkElsewhere
  <2>6. Anon(a)' = Anon(a) \cup r
    <3>1. r \subseteq VA
      BY DEF Ranges
    <3>. QED
      BY <2>1, <2>3, <3>1 DEF Anon, Pages
  <2>7. Fine(a)
    BY Zenon, <2>2, QuietNow
  <2>8. MidMmap'
    <3>1. Entered'
      BY <2>1, <2>2, <2>3 DEF Entered, Pages
    <3>2. /\ (Anon(a)' \ r) \cup Owned(a)' \subseteq Mapped(a)'
          /\ Anon(a)' \cap Owned(a)' \subseteq r
      BY <2>4, <2>5, <2>6, <2>7 DEF Fine
    <3>. QED
      BY Zenon, <2>2, <3>1, <3>2 DEF MidMmap, Anon, Owned, Mapped, Pages
  <2>. QED
    BY Zenon, <2>2, <2>5, <2>8 DEF AreaInv
<1>2. ASSUME NEW v \in VA, NEW p \in Page, MmapPage(v, p) PROVE AreaInv'
  <2>1. PICK c \in AS : c = cur /\ stat[c] = "live"
    BY <1>2 DEF MmapPage, LocalsOK
  <2>2. /\ op = "mmap" /\ op' = "mmap" /\ cur' = c /\ todo' = todo \ {v} /\ rng' = rng
        /\ stat' = stat /\ thread_pages' = thread_pages /\ vmas' = vmas
        /\ v \in todo /\ Working
    BY <1>2, <2>1 DEF MmapPage, Step, Lowest, thrs, Working
  <2>3. /\ v \notin Mapped(c) /\ Mapped(c)' = Mapped(c) \cup {v}
        /\ \A b \in AS : b # c => Mapped(b)' = Mapped(b)
    BY Zenon, <1>2, <2>1, MapNewMapped DEF MmapPage
  <2>4. Anon(c)' = Anon(c)
    BY Zenon, <2>2, SameAreas
  <2>5. /\ Grown' /\ Owned(c)' = Owned(c)
        /\ \A b \in AS : stat'[b] = "live" /\ b # c => Fine(b)'
    BY Zenon, <2>1, <2>2, <2>3, WorkElsewhere
  <2>6. MidMmap
    BY <2>2 DEF AreaInv
  <2>7. MidMmap'
    <3>1. Entered'
      BY <2>1, <2>2, <2>6 DEF MidMmap, Entered, Pages
    <3>2. /\ (Anon(c)' \ (todo \ {v})) \cup Owned(c)' \subseteq Mapped(c)'
          /\ Anon(c)' \cap Owned(c)' \subseteq todo \ {v}
      BY <2>1, <2>3, <2>4, <2>5, <2>6 DEF MidMmap
    <3>. QED
      BY Zenon, <2>2, <3>1, <3>2 DEF MidMmap, Anon, Owned, Mapped, Pages
  <2>. QED
    BY Zenon, <2>2, <2>5, <2>7 DEF AreaInv, Working
<1>. QED
  BY Zenon, <1>1, <1>2

\* A failed mmap unmaps only what it has mapped.
LEMMA RollbackAreas ==
    ASSUME IInv, AreaInv, MmapFail \/ \E v \in VA : RollbackPage(v) PROVE AreaInv'
<1>. USE DEF IInv
<1>1. PICK c \in AS : c = cur /\ stat[c] = "live"
  BY Zenon DEF MmapFail, RollbackPage, LocalsOK
<1>2. /\ op' = "rollback" /\ cur' = c /\ rng' = rng /\ Working
      /\ stat' = stat /\ thread_pages' = thread_pages /\ vmas' = vmas
  BY Zenon, <1>1 DEF MmapFail, RollbackPage, Begin, Step, thrs, Working
<1>3. /\ \A b \in AS : b # c => Mapped(b)' = Mapped(b)
      /\ Entered /\ (Anon(c) \ rng) \cup Owned(c) \subseteq Mapped(c)'
      /\ Anon(c) \cap Owned(c) \subseteq rng \ todo' /\ todo' \subseteq rng
  <2>1. CASE MmapFail
    <3>1. MidMmap /\ frame' = frame /\ todo' = rng \ todo
      BY <2>1 DEF MmapFail, Begin, ptes, AreaInv
    <3>2. \A b \in AS : Mapped(b)' = Mapped(b)
      BY Zenon, <3>1, SameMapped
    <3>. QED
      BY <1>1, <3>1, <3>2 DEF MidMmap, Entered
  <2>2. ASSUME NEW v \in VA, RollbackPage(v)
        PROVE  /\ \A b \in AS : b # c => Mapped(b)' = Mapped(b)
               /\ Entered /\ (Anon(c) \ rng) \cup Owned(c) \subseteq Mapped(c)'
               /\ Anon(c) \cap Owned(c) \subseteq rng \ todo' /\ todo' \subseteq rng
    <3>1. MidRollback /\ v \in todo /\ todo' = todo \ {v}
      BY <2>2 DEF RollbackPage, Step, Lowest, AreaInv
    <3>2. Mapped(c)' = Mapped(c) \ {v} /\ \A b \in AS : b # c => Mapped(b)' = Mapped(b)
      BY Zenon, <1>1, <2>2, UnmapMapped DEF RollbackPage
    <3>3. rng \subseteq Anon(c)
      BY <1>1, <3>1 DEF MidRollback, Entered, Anon, Pages
    <3>. QED
      BY <1>1, <3>1, <3>2, <3>3 DEF MidRollback, Entered
  <2>. QED
    BY Zenon, <2>1, <2>2
<1>4. Anon(c)' = Anon(c)
  BY Zenon, <1>2, SameAreas
<1>5. /\ Grown' /\ Owned(c)' = Owned(c)
      /\ \A b \in AS : stat'[b] = "live" /\ b # c => Fine(b)'
  BY Zenon, <1>1, <1>2, <1>3, WorkElsewhere
<1>6. MidRollback'
  <2>1. Entered'
    BY <1>1, <1>2, <1>3 DEF Entered, Pages
  <2>2. /\ (Anon(c)' \ rng) \cup Owned(c)' \subseteq Mapped(c)'
        /\ Anon(c)' \cap Owned(c)' \subseteq rng \ todo'
    BY <1>3, <1>4, <1>5
  <2>. QED
    BY Zenon, <1>2, <2>1, <2>2 DEF MidRollback, Anon, Owned, Mapped, Pages
<1>. QED
  BY Zenon, <1>2, <1>5, <1>6 DEF AreaInv, Working

\* mmap ends, rolled back or not, and munmap ends: what is left in mmap areas
\* is mapped and no thread's.
LEMMA EndAreas ==
    ASSUME IInv, AreaInv, VmasDisjoint, MmapEnd \/ RollbackEnd \/ MunmapEnd PROVE AreaInv'
<1>. USE DEF IInv
<1>1. PICK c \in AS : c = cur /\ stat[c] = "live"
  BY DEF MmapEnd, RollbackEnd, MunmapEnd, LocalsOK
<1>2. /\ ~Working' /\ Working /\ todo = {}
      /\ stat' = stat /\ thread_pages' = thread_pages /\ frame' = frame
  BY <1>1 DEF MmapEnd, RollbackEnd, MunmapEnd, Begin, End, thrs, ptes, Working
<1>3. \A b \in AS : Mapped(b)' = Mapped(b)
  BY Zenon, <1>2, SameMapped
<1>4. \A b \in AS : b # c => vmas'[b] = vmas[b]
  BY <1>1 DEF MmapEnd, RollbackEnd, MunmapEnd, TypeOK
<1>5. /\ Grown' /\ Owned(c)' = Owned(c)
      /\ \A b \in AS : stat'[b] = "live" /\ b # c => Fine(b)'
  BY Zenon, <1>1, <1>2, <1>3, <1>4, WorkElsewhere
<1>6. CASE MmapEnd
  <2>1. MidMmap /\ vmas' = vmas
    BY <1>6 DEF MmapEnd, AreaInv
  <2>2. Anon(c)' = Anon(c)
    BY Zenon, <2>1, SameAreas
  <2>3. Fine(c)'
    BY <1>1, <1>2, <1>3, <1>5, <2>1, <2>2 DEF MidMmap, Fine
  <2>. QED
    BY Zenon, <1>2, <1>5, <2>3, QuietNext
<1>7. CASE RollbackEnd
  <2>1. MidRollback /\ vmas'[c] = {m \in vmas[c] : Pages(m) # rng}
    BY <1>1, <1>7 DEF RollbackEnd, AreaInv, TypeOK
  <2>2. PICK n \in vmas[c] : Pages(n) = rng
    BY <1>1, <2>1 DEF MidRollback, Entered
  <2>3. ASSUME NEW m \in vmas'[c] PROVE m \in vmas[c] /\ Pages(m) \cap rng = {}
    BY Zenon, <2>1, <2>2 DEF VmasDisjoint
  <2>4. Anon(c)' \subseteq Anon(c) \ rng
    BY <2>3 DEF Anon, Pages
  <2>5. Fine(c)'
    BY <1>1, <1>2, <1>3, <1>5, <2>1, <2>4 DEF MidRollback, Fine
  <2>. QED
    BY Zenon, <1>2, <1>5, <2>5, QuietNext
<1>8. CASE MunmapEnd
  <2>1. PICK m \in vmas[c] :
          /\ rng \subseteq Pages(m)
          /\ vmas'[c] = (vmas[c] \ {m}) \cup {n \in Split(m, rng) : Pages(n) \cap rng = {}}
    BY <1>1, <1>8 DEF MunmapEnd, TypeOK
  <2>2. MidMunmap /\ m \in Vma
    BY <1>8 DEF MunmapEnd, AreaInv, TypeOK
  <2>3. ASSUME NEW n \in vmas'[c], n.kind = "anon"
        PROVE  Pages(n) \subseteq Anon(c) /\ Pages(n) \cap rng = {}
    <3>1. CASE n \in vmas[c] \ {m}
      <4>1. Pages(n) \cap Pages(m) = {}
        BY Zenon, <3>1 DEF VmasDisjoint
      <4>. QED
        BY <2>1, <2>3, <3>1, <4>1 DEF Anon, Pages
    <3>2. CASE n \in Split(m, rng) /\ Pages(n) \cap rng = {}
      <4>1. Pages(n) \subseteq Pages(m) /\ n.kind = m.kind
        BY Zenon, <2>1, <2>2, <3>2, SplitParts
      <4>. QED
        BY <2>3, <3>2, <4>1 DEF Anon, Pages
    <3>. QED
      BY <2>1, <3>1, <3>2
  <2>4. Anon(c)' \subseteq Anon(c) \ rng
    <3>1. ASSUME NEW v \in Anon(c)' PROVE v \in Anon(c) /\ v \notin rng
      <4>1. PICK n \in vmas'[c] : n.kind = "anon" /\ v \in Pages(n)
        BY Zenon DEF Anon, Pages
      <4>. QED
        BY Zenon, <2>3, <4>1
    <3>. QED
      BY <3>1
  <2>5. Fine(c)'
    BY <1>1, <1>2, <1>3, <1>5, <2>2, <2>4 DEF MidMunmap, Fine
  <2>. QED
    BY Zenon, <1>2, <1>5, <2>5, QuietNext
<1>. QED
  BY <1>6, <1>7, <1>8

\* munmap finds every page of its range mapped, and none is a thread's.
LEMMA MunmapAreas ==
    ASSUME IInv, AreaInv,
           \/ \E a \in AS, r \in Ranges : MunmapBegin(a, r)
           \/ \E v \in VA : MunmapPage(v) \/ MunmapAbsent(v)
    PROVE  AreaInv'
<1>. USE DEF IInv
<1>1. ASSUME NEW a \in AS, NEW r \in Ranges, MunmapBegin(a, r) PROVE AreaInv'
  <2>1. /\ op' = "munmap" /\ cur' = a /\ todo' = r /\ rng' = r
        /\ stat' = stat /\ thread_pages' = thread_pages /\ frame' = frame
        /\ ~Working /\ stat[a] = "live" /\ vmas' = vmas
    BY <1>1 DEF MunmapBegin, Begin, thrs, ptes, Working, Idle
  <2>2. \A b \in AS : Mapped(b)' = Mapped(b) /\ Anon(b)' = Anon(b)
    BY Zenon, <2>1, SameMapped, SameAreas
  <2>3. /\ Grown' /\ Owned(a)' = Owned(a)
        /\ \A b \in AS : stat'[b] = "live" /\ b # a => Fine(b)'
    BY Zenon, <2>1, <2>2, WorkElsewhere
  <2>4. Fine(a)
    BY Zenon, <2>1, QuietNow
  <2>5. r \subseteq Anon(a)
    BY <1>1 DEF MunmapBegin, Anon, Ranges
  <2>6. MidMunmap'
    <3>1. /\ (Anon(a)' \ r) \cup r \cup Owned(a)' \subseteq Mapped(a)'
          /\ Anon(a)' \cap Owned(a)' = {} /\ r \subseteq r /\ r \subseteq Anon(a)'
      BY <2>2, <2>3, <2>4, <2>5 DEF Fine
    <3>. QED
      BY Zenon, <2>1, <3>1 DEF MidMunmap, Anon, Owned, Mapped, Pages
  <2>. QED
    BY Zenon, <2>1, <2>3, <2>6 DEF AreaInv, Working
<1>2. ASSUME NEW v \in VA, MunmapPage(v) PROVE AreaInv'
  <2>1. PICK c \in AS : c = cur /\ stat[c] = "live"
    BY <1>2 DEF MunmapPage, LocalsOK
  <2>2. /\ op = "munmap" /\ op' = "munmap" /\ cur' = c /\ todo' = todo \ {v} /\ rng' = rng
        /\ stat' = stat /\ thread_pages' = thread_pages /\ vmas' = vmas
        /\ v \in todo /\ Working
    BY <1>2, <2>1 DEF MunmapPage, Step, Lowest, thrs, Working
  <2>3. Mapped(c)' = Mapped(c) \ {v} /\ \A b \in AS : b # c => Mapped(b)' = Mapped(b)
    BY Zenon, <1>2, <2>1, UnmapMapped DEF MunmapPage
  <2>4. Anon(c)' = Anon(c)
    BY Zenon, <2>2, SameAreas
  <2>5. /\ Grown' /\ Owned(c)' = Owned(c)
        /\ \A b \in AS : stat'[b] = "live" /\ b # c => Fine(b)'
    BY Zenon, <2>1, <2>2, <2>3, WorkElsewhere
  <2>6. MidMunmap
    BY <2>2 DEF AreaInv
  <2>7. MidMunmap'
    <3>1. /\ (Anon(c)' \ rng) \cup (todo \ {v}) \cup Owned(c)' \subseteq Mapped(c)'
          /\ Anon(c)' \cap Owned(c)' = {} /\ todo \ {v} \subseteq rng /\ rng \subseteq Anon(c)'
      BY <2>1, <2>2, <2>3, <2>4, <2>5, <2>6 DEF MidMunmap
    <3>. QED
      BY Zenon, <2>2, <3>1 DEF MidMunmap, Anon, Owned, Mapped, Pages
  <2>. QED
    BY Zenon, <2>2, <2>5, <2>7 DEF AreaInv, Working
<1>3. ASSUME NEW v \in VA, MunmapAbsent(v) PROVE FALSE
  <2>1. MidMunmap /\ v \in todo /\ v \notin Mapped(cur)
    BY <1>3 DEF MunmapAbsent, Lowest, AreaInv, Mapped
  <2>. QED
    BY <2>1 DEF MidMunmap
<1>. QED
  BY Zenon, <1>1, <1>2, <1>3

LEMMA NextAreas ==
    ASSUME IInv, VmasDisjoint, AreaInv, NoStaleStacks, [Next]_vars PROVE AreaInv'
<1>1. CASE UNCHANGED vars
  <2>1. UNCHANGED <<vmas, thread_pages, stat, frame, op, cur, todo, rng>>
    BY Zenon, <1>1 DEF vars
  <2>. QED
    BY Zenon, <2>1 DEF AreaInv, Working, Grown, Fine, MidMmap, MidRollback, MidMunmap, Entered,
           Anon, Owned, Mapped, Pages
<1>2. CASE CalmAction
  BY Zenon, <1>2, CalmActions, CalmStep DEF IInv
<1>3. ASSUME NEW v \in VA, NEW p \in Page, NEW x, NEW w \in BOOLEAN, LoadSegmentPage(v, p, x, w)
      PROVE  AreaInv'
  <2>1. PICK n : n = [first |-> v, last |-> v, kind |-> "file", w |-> w]
    BY Zenon
  <2>2. n.kind # "anon"
    BY <2>1
  <2>3. TypeOK /\ LocalsOK /\ cur \in AS
    BY <1>3 DEF IInv, LocalsOK, LoadSegmentPage
  <2>4. \A a \in AS : a # cur => Mapped(a)' = Mapped(a)
    BY Zenon, <1>3, <2>3, MapNewMapped DEF LoadSegmentPage
  <2>5. /\ op = "load" /\ op' = op /\ stat' = stat /\ thread_pages' = thread_pages
        /\ vmas' = [vmas EXCEPT ![cur] = @ \cup {n}]
    BY Zenon, <1>3, <2>1 DEF LoadSegmentPage, thrs
  <2>. QED
    BY Zenon, <2>2, <2>3, <2>4, <2>5, LoadAreas
<1>4. ASSUME NEW low \in VA, NEW v \in VA, NEW p \in Page, NEW x, LoadStack(low, v, p, x)
      PROVE  AreaInv'
  <2>1. PICK n : n = [first |-> low, last |-> v, kind |-> "grow", w |-> TRUE]
    BY Zenon
  <2>2. n.kind # "anon"
    BY <2>1
  <2>3. TypeOK /\ LocalsOK /\ cur \in AS
    BY <1>4 DEF IInv, LocalsOK, LoadStack
  <2>4. \A a \in AS : a # cur => Mapped(a)' = Mapped(a)
    BY Zenon, <1>4, <2>3, MapNewMapped DEF LoadStack
  <2>5. /\ op = "load" /\ op' = op /\ stat' = stat /\ thread_pages' = thread_pages
        /\ vmas' = [vmas EXCEPT ![cur] = @ \cup {n}]
    BY Zenon, <1>4, <2>1 DEF LoadStack, thrs
  <2>. QED
    BY Zenon, <2>2, <2>3, <2>4, <2>5, LoadAreas
<1>5. ASSUME NEW s \in Slot, FreeStale(s) PROVE FALSE
  BY Zenon, <1>5 DEF FreeStale, StaleStacks, NoStaleStacks
<1>6. CASE Load
  BY Zenon, <1>2, <1>3, <1>4, <1>6, LoadEndAreas DEF Load, CalmAction
<1>7. CASE Fork \/ Teardown \/ Kernel \/ CopyOut
  BY Zenon, <1>2, <1>7, ForkEndAreas, DestroyEndAreas DEF Fork, Teardown, CalmAction
<1>8. CASE Run
  BY Zenon, <1>2, <1>5, <1>8, ThreadAreas DEF Run, CalmAction
<1>9. CASE Mmap \/ Munmap
  BY Zenon, <1>9, MmapAreas, RollbackAreas, EndAreas, MunmapAreas DEF Mmap, Munmap
<1>. QED
  BY Zenon, <1>1, <1>6, <1>7, <1>8, <1>9 DEF Next

-----------------------------------------------------------------------------
(* Theorems                                                                *)

INSTANCE FiniteSetTheorems

LEMMA CountFactsHold == CountFacts
<1>1. IsFiniteSet(Slot)
  BY FS_Product, MemoryAssumption DEF Slot
<1>2. ASSUME NEW S \in SUBSET Slot
      PROVE  /\ Cardinality(S) \in Nat
             /\ Cardinality(S) = 0 => S = {}
             /\ \A s \in Slot \ S : Cardinality(S \cup {s}) = Cardinality(S) + 1
             /\ \A s \in S : Cardinality(S \ {s}) = Cardinality(S) - 1
  <2>1. IsFiniteSet(S)
    BY <1>1, FS_Subset
  <2>. QED
    BY <2>1, FS_CardinalityType, FS_EmptySet, FS_AddElement, FS_RemoveElement
<1>. QED
  BY <1>2, FS_EmptySet DEF CountFacts

\* The inductive invariant holds in every reachable state.
THEOREM Invariance == Spec => []IInv
<1>1. Init => IInv
  BY InitIInv, CountFactsHold
<1>2. IInv /\ [Next]_vars => IInv'
  BY NextIInv, CountFactsHold
<1>. QED
  BY <1>1, <1>2, PTL DEF Spec

\* Type correctness of every reachable state, the locals of unfinished
\* operations included.
THEOREM TypeCorrect == Spec => []TypeOK
<1>1. IInv => TypeOK
  BY DEF IInv
<1>. QED
  BY <1>1, Invariance, PTL

\* page_refcount always equals the number of user PTEs that map the frame,
\* and a frame is user-owned exactly while there is one: fork, COW faults,
\* mmap, munmap, exec, teardown and every failure in the middle of them
\* neither leak a frame nor free one that is still mapped.
THEOREM FrameAccounting == Spec => []Accounting
<1>1. IInv => Accounting
  BY DEF IInv, FramesOK, Accounting
<1>. QED
  BY <1>1, Invariance, PTL

\* A frame is writable for at most one address space (but for a fork that has
\* not finished): the copy-on-write discipline isolates processes.
THEOREM Isolation == Spec => []WritableIsPrivate
<1>1. IInv => WritableIsPrivate
  BY DEF IInv
<1>. QED
  BY <1>1, Invariance, PTL

\* Frames on the free list are clear, so memory that is handed out without
\* being cleared shows nothing of its former owner.
THEOREM FreedFramesClear == Spec => []FreeIsClear
<1>1. IInv => FreeIsClear
  BY DEF IInv, FramesOK
<1>. QED
  BY <1>1, Invariance, PTL

\* UserMemory implements PrivateMemory: whatever is shared, copied late,
\* reclaimed or rolled back, each process sees a memory of its own in which
\* fork copies, stores are its own, new memory is zero and operations happen
\* entirely or not at all.
THEOREM Refinement == Spec => PrivateSpec
<1>1. Init => Private!Init
  <2>1. Init => mem = [a \in AS |-> Private!Empty]
    BY SlotPair DEF Init, Private!Empty, mem, Cell, View
  <2>2. Init => req = Private!NoRequest
    BY ReqNow DEF Init, Private!NoRequest, Op
  <2>. QED
    BY <2>1, <2>2 DEF Private!Init
<1>2. IInv /\ RangeOK /\ [Next]_vars => [Private!Next]_<<mem, req>>
  <2>. SUFFICES ASSUME IInv, RangeOK, [Next]_vars PROVE SimStep
    BY DEF SimStep
  <2>1. CASE UNCHANGED vars
    <3>1. mem' = mem
      BY <2>1 DEF vars, mem, Cell, Unfinished, View
    <3>. QED
      BY <2>1, <3>1, ReqSame, Hidden DEF vars
  <2>. QED
    BY <2>1, CountFactsHold, LoadSim, ForkSim, TeardownSim, RunSim, KernelSim, MmapSim,
       MunmapSim, CopyOutSim DEF Next
<1>. QED
  BY <1>1, <1>2, Invariance, InitRange, NextRange, PTL DEF Spec, PrivateSpec, Private!Spec

\* A fork that fails while it builds the child changes nothing in the
\* parent's page table.
THEOREM ForkRollback == Spec => FailedForkLossless
<1>. DEFINE SameParent == op = "clone" \/ (op = "destroy" /\ src # None) =>
                \A v \in VA : /\ frame'[<<src, v>>] = frame[<<src, v>>]
                              /\ perm'[<<src, v>>] = perm[<<src, v>>]
<1>1. IInv /\ [Next]_vars => [SameParent]_vars
  <2>. SUFFICES ASSUME IInv, Next, op = "clone" \/ (op = "destroy" /\ src # None),
                       NEW v \in VA
                PROVE  /\ frame'[<<src, v>>] = frame[<<src, v>>]
                       /\ perm'[<<src, v>>] = perm[<<src, v>>]
    OBVIOUS
  <2>. USE MemoryAssumption, SlotPair DEF IInv, TypeOK, FrameTypes
  <2>0. cur \in AS /\ src \in AS /\ src # cur
    BY DEF LocalsOK
  <2>1. ASSUME NEW y \in VA, ClonePage(y) \/ DestroyPage(y)
        PROVE  \A s \in Slot : s[1] # cur => frame'[s] = frame[s] /\ perm'[s] = perm[s]
    BY <2>0, <2>1 DEF ClonePage, DestroyPage, MapShared, unmap_user_page
  <2>2. CASE CloneFail \/ CloneEnd \/ DestroyEnd
    BY <2>2 DEF CloneFail, CloneEnd, DestroyEnd, ptes
  <2>3. \/ CloneFail \/ CloneEnd \/ DestroyEnd
        \/ \E y \in VA : ClonePage(y) \/ DestroyPage(y)
    BY Zenon DEF Next, Load, LoadBegin, LoadSegmentPage, LoadStack, LoadEnd, LoadedNew, LoadedExec, LoadFail,
         Fork, ForkBegin, SealPage, ForkEnd, ForkFail,
         Teardown, ExitBegin, Run, UserStore, CowFault, GrowFault, CreateThread,
         FreeThread, FreeStale, FreeBareThread, Kernel, KernelAlloc, KernelFree, Idle,
         Mmap, MmapBegin, MmapPage, MmapEnd, MmapFail, RollbackPage, RollbackEnd,
         Munmap, MunmapBegin, MunmapPage, MunmapAbsent, MunmapEnd,
         CopyOut, CopyBegin, CopyPage, CopyEnd, CopyFail
  <2>. QED
    BY <2>0, <2>1, <2>2, <2>3
<1>. QED
  BY <1>1, Invariance, PTL DEF Spec, FailedForkLossless

\* A copy-on-write fault changes nothing that any process can read: not the
\* page that faulted, and not the pages of the other sharers.
THEOREM FaultTransparency == Spec => FaultsInvisible
<1>. DEFINE Fault == \E s \in Slot : perm[s] = "cow" /\ perm'[s] = "rw"
<1>1. ASSUME IInv, RangeOK, Next, Fault PROVE mem' = mem
  <2>. USE <1>1, MemoryAssumption, SlotPair
  <2>1. ASSUME NEW s \in Slot, NEW p \in Page, handle_cow_page_fault(s, p),
               UNCHANGED <<stat, op, cur, rng>>, op \in {"idle", "copyout"}
        PROVE  mem' = mem
    <3>1. \A t \in Slot : View(t)' = View(t)
      BY <2>1, CowView DEF IInv, TypeOK
    <3>. QED
      BY <2>1, <3>1, SameCells DEF Cell, Unfinished
  <2>2. CASE \E s \in Slot, p \in Page : CowFault(s, p)
    BY <2>1, <2>2 DEF CowFault, Idle
  <2>3. CASE \E v \in VA, p \in Page : CopyPage(v, p)
    <3>1. PICK v \in VA, p \in Page : CopyPage(v, p)
      BY <2>3
    <3>2. <<cur, v>> \in Slot /\ ~UNCHANGED <<phys, ptes>>
      BY <3>1 DEF CopyPage, IInv, LocalsOK, ptes
    <3>. QED
      BY <2>1, <3>1, <3>2 DEF CopyPage, Step
  <2>4. \/ \E s \in Slot, p \in Page : CowFault(s, p)
        \/ \E v \in VA, p \in Page : CopyPage(v, p)
    <3>. PICK s \in Slot : perm[s] = "cow" /\ perm'[s] = "rw"
      OBVIOUS
    <3>. USE DEF IInv, TypeOK, FrameTypes, ptes
    <3>1. ASSUME UNCHANGED perm PROVE FALSE
      BY <3>1
    <3>2. ASSUME NEW t \in Slot, NEW p, NEW m, NEW x, MapNew(t, p, m, x) PROVE FALSE
      BY <3>2 DEF MapNew, FramesOK, PteOK
    <3>3. ASSUME NEW t \in Slot, unmap_user_page(t) PROVE FALSE
      BY <3>3 DEF unmap_user_page
    <3>4. ASSUME NEW v \in VA, ClonePage(v) PROVE FALSE
      BY <3>4 DEF ClonePage, MapShared, ChildPerm, LocalsOK, FramesOK, PteOK
    <3>5. ASSUME NEW v \in VA, SealPage(v) PROVE FALSE
      BY <3>5 DEF SealPage
    <3>6. cur \in AS \cup {None} /\ (op # "idle" => cur \in AS)
      BY DEF LocalsOK
    <3>7. ~Load
      BY Zenon, <3>1, <3>2, <3>6 DEF Load, LoadBegin, LoadSegmentPage, LoadStack, LoadEnd, LoadedNew, LoadedExec, LoadFail
    <3>8. ~Fork /\ ~Kernel
      BY <3>1, <3>4, <3>5 DEF Fork, ForkBegin, CloneFail, CloneEnd, ForkEnd, ForkFail,
         Kernel, KernelAlloc, KernelFree
    <3>9. ~Teardown /\ ~Munmap
      BY Zenon, <3>1, <3>3, <3>6 DEF Teardown, ExitBegin, DestroyPage, DestroyEnd,
         Munmap, MunmapBegin, MunmapPage, MunmapAbsent, MunmapEnd
    <3>10. ~Mmap
      BY Zenon, <3>1, <3>2, <3>3, <3>6 DEF Mmap, MmapBegin, MmapPage, MmapEnd, MmapFail,
         RollbackPage, RollbackEnd
    <3>11. Run => \E t \in Slot, p \in Page : CowFault(t, p)
      BY Zenon, <3>1, <3>2, <3>3 DEF Run, UserStore, GrowFault, CreateThread, FreeThread,
         FreeStale, FreeBareThread
    <3>12. CopyOut => \E v \in VA, p \in Page : CopyPage(v, p)
      BY <3>1 DEF CopyOut, CopyBegin, CopyEnd, CopyFail
    <3>. QED
      BY <3>7, <3>8, <3>9, <3>10, <3>11, <3>12 DEF Next
  <2>. QED
    BY <2>2, <2>3, <2>4
<1>2. IInv /\ RangeOK /\ [Next]_vars => [Fault => mem' = mem]_vars
  BY <1>1
<1>. QED
  BY <1>2, Invariance, InitRange, NextRange, PTL DEF Spec, FaultsInvisible

\* The areas of a process never overlap, for any number of segments, mappings
\* and splits: what process_mmap, process_munmap and the loader enter in the
\* list is disjoint from what is there, also after a roll-back.
THEOREM AreasDisjoint == Spec => []VmasDisjoint
<1>1. Init => VmasDisjoint
  BY DEF Init, VmasDisjoint
<1>2. IInv => TypeOK /\ LocalsOK
  BY DEF IInv
<1>. QED
  BY <1>1, <1>2, Invariance, NextDisjoint, PTL DEF Spec

\* The area invariant holds as long as no thread object records a stack that
\* is not its own.
THEOREM AreaInvariance == Spec /\ []NoStaleStacks => []AreaInv
<1>1. Init => AreaInv
  BY DEF Init, AreaInv, Grown, Working, Anon
<1>. QED
  BY <1>1, Invariance, AreasDisjoint, NextAreas, PTL DEF Spec

\* Every page of an mmap area is mapped outside the mmap or munmap that works
\* on it, through fork, exec, faults, thread exits and roll-backs; so munmap
\* never meets an absent page and stops half-way.
THEOREM AreasResident == Spec /\ []NoStaleStacks => []MmapAreasResident
<1>1. AreaInv => MmapAreasResident
  <2>. SUFFICES ASSUME AreaInv, NEW a \in AS, stat[a] = "live", NEW m \in vmas[a],
                       m.kind = "anon", NEW v \in Pages(m), ~(Working /\ cur = a /\ v \in rng)
                PROVE  v \in Mapped(a)
    BY Zenon DEF MmapAreasResident, Working, Mapped
  <2>1. v \in Anon(a)
    BY DEF Anon, Pages
  <2>2. CASE ~(Working /\ cur = a)
    BY Zenon, <2>1, <2>2 DEF AreaInv, Fine
  <2>3. CASE Working /\ cur = a
    BY Zenon, <2>1, <2>3 DEF AreaInv, Working, MidMmap, MidRollback, MidMunmap, Entered
  <2>. QED
    BY <2>2, <2>3
<1>. QED
  BY <1>1, AreaInvariance, PTL

\* The page of a thread stays mapped until thread_free_object gives it back:
\* no mmap laid over it, roll-back or munmap takes it away.
THEOREM ThreadPagesStay == Spec /\ []NoStaleStacks => []ThreadPagesMapped
<1>1. IInv /\ AreaInv => ThreadPagesMapped
  <2>. SUFFICES ASSUME IInv, AreaInv, NEW s \in thread_pages, stat[s[1]] = "live"
                PROVE  frame[s] # None
    BY DEF ThreadPagesMapped
  <2>1. PICK a \in AS, v \in VA : s = <<a, v>> /\ stat[a] = "live" /\ v \in Owned(a)
    BY SlotPair DEF IInv, TypeOK, Owned
  <2>2. v \in Mapped(a)
    <3>1. CASE ~(Working /\ cur = a)
      BY <2>1, <3>1 DEF AreaInv, Fine
    <3>2. CASE Working /\ cur = a
      BY <2>1, <3>2 DEF AreaInv, Working, MidMmap, MidRollback, MidMunmap
    <3>. QED
      BY <3>1, <3>2
  <2>. QED
    BY Zenon, <2>1, <2>2 DEF Mapped
<1>. QED
  BY <1>1, Invariance, AreaInvariance, PTL
=============================================================================
