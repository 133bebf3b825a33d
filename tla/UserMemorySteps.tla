-------------------------- MODULE UserMemorySteps ---------------------------
(***************************************************************************)
(* The inductive invariant of UserMemory, and proofs that every operation  *)
(* keeps it and does a step of PrivateMemory or nothing that it shows, for *)
(* any number of frames, address spaces, virtual pages and page contents.  *)
(* What the proofs use about cardinalities is CountFacts, which            *)
(* UserMemoryProofs proves.                                                *)
(***************************************************************************)
EXTENDS UserMemory, TLAPS

\* Cardinalities of sets of slots.
CountFacts ==
    /\ Cardinality({}) = 0
    /\ \A S \in SUBSET Slot :
         /\ Cardinality(S) \in Nat
         /\ Cardinality(S) = 0 => S = {}
         /\ \A s \in Slot \ S : Cardinality(S \cup {s}) = Cardinality(S) + 1
         /\ \A s \in S : Cardinality(S \ {s}) = Cardinality(S) - 1

\* A PTE is absent exactly when it has no access bits.
PteOK == \A s \in Slot : frame[s] = None <=> perm[s] = "none"

\* The frame-level invariant: it only mentions frames and PTEs.
FramesOK == PteOK /\ RefsExact /\ NoLeakNoDangling /\ FreeIsClear

\* The locals of the operation in progress name address spaces in the right
\* stage of their life, and no other is being built or destroyed.
LocalsOK ==
    /\ op = "idle" => cur = None /\ src = None
    /\ op # "idle" => cur \in AS /\ src # cur
    /\ op \in {"load", "clone", "seal"} => stat[cur] = "building"
    /\ op = "destroy" => stat[cur] = "dying"
    /\ op \in {"clone", "seal"} => src \in AS
    /\ op \in {"mmap", "rollback", "munmap", "copyout", "free"} =>
         stat[cur] = "live" /\ src = None
    /\ src \in AS => stat[src] = "live"
    /\ \A a \in AS : stat[a] \in {"building", "dying"} => a = cur

\* An unused address space has no PTE.
UnusedEmpty == \A s \in Slot : stat[s[1]] = "unused" => frame[s] = None

\* How far a fork has come: the child repeats the parent's PTEs, none of
\* them writable; then the parent's writable ones are those still to seal.
ChildOK ==
    /\ op = "clone" => \A v \in VA :
         IF v \in todo
           THEN frame[<<cur, v>>] = None /\ frame[<<src, v>>] # None
           ELSE /\ frame[<<cur, v>>] = frame[<<src, v>>]
                /\ perm[<<cur, v>>] = ChildPerm(perm[<<src, v>>])
    /\ op = "seal" => \A v \in VA :
         /\ frame[<<cur, v>>] = frame[<<src, v>>]
         /\ perm[<<cur, v>>] # "rw"
         /\ perm[<<src, v>>] = "rw" <=> v \in todo
    /\ op = "destroy" /\ src \in AS => \A v \in VA : perm[<<cur, v>>] # "rw"

\* The inductive invariant.
IInv == /\ TypeOK
        /\ FramesOK
        /\ LocalsOK
        /\ UnusedEmpty
        /\ ChildOK
        /\ WritableIsPrivate

-----------------------------------------------------------------------------
(* The mapping sets under an update of one PTE.                            *)

LEMMA MappingsCount ==
    ASSUME CountFacts, NEW p
    PROVE  /\ Mappings(p) \in SUBSET Slot /\ Cardinality(Mappings(p)) \in Nat
           /\ Cardinality(Mappings(p)) = 0 <=> Mappings(p) = {}
           /\ \A s \in Mappings(p) : Cardinality(Mappings(p) \ {s}) = Cardinality(Mappings(p)) - 1
           /\ \A s \in Slot \ Mappings(p) :
                Cardinality(Mappings(p) \cup {s}) = Cardinality(Mappings(p)) + 1
<1>1. Mappings(p) \in SUBSET Slot
  BY DEF Mappings
<1>. QED
  BY <1>1 DEF CountFacts

LEMMA OneSlot ==
    ASSUME CountFacts, NEW s \in Slot
    PROVE  /\ Cardinality({s}) = 1
           /\ \A S \in SUBSET Slot : s \in S /\ Cardinality(S) = 1 => S = {s}
<1>1. Cardinality({} \cup {s}) = 0 + 1
  BY DEF CountFacts
<1>2. Cardinality({s}) = 1
  <2>1. {} \cup {s} = {s}
    OBVIOUS
  <2>. QED
    BY <1>1, <2>1
<1>3. ASSUME NEW S \in SUBSET Slot, s \in S, Cardinality(S) = 1 PROVE S = {s}
  <2>1. S \ {s} \in SUBSET Slot /\ Cardinality(S \ {s}) = 0
    BY <1>3 DEF CountFacts
  <2>2. S \ {s} = {}
    BY <2>1 DEF CountFacts
  <2>. QED
    BY <1>3, <2>2
<1>. QED
  BY <1>2, <1>3

\* MapNew keeps the frame-level invariant: the frame had no mapping.
LEMMA MapNewFrames ==
    ASSUME CountFacts, FrameTypes, FramesOK, NEW s \in Slot, NEW p \in Page,
           NEW m \in {"ro", "rw"}, NEW x \in Value, MapNew(s, p, m, x)
    PROVE  /\ FrameTypes' /\ FramesOK'
           /\ \A t, u \in Slot : WritableShared(t, u)' => WritableShared(t, u)
<1>. USE DEF FrameTypes, MapNew
<1>0. None \notin Page
  BY MemoryAssumption
<1>1. Mappings(p) = {}
  BY DEF FramesOK, NoLeakNoDangling
<1>2. /\ Mappings(p)' = {s}
      /\ \A q \in Page : q # p => Mappings(q)' = Mappings(q)
  BY <1>0, <1>1 DEF Mappings
<1>3. PteOK'
  BY <1>0 DEF FramesOK, PteOK
<1>4. RefsExact'
  <2>1. Cardinality(Mappings(p)') = 1
    BY Zenon, <1>2, OneSlot
  <2>. QED
    BY Zenon, <1>2, <2>1 DEF FramesOK, RefsExact
<1>5. NoLeakNoDangling'
  BY Zenon, <1>2 DEF FramesOK, NoLeakNoDangling
<1>6. FreeIsClear'
  BY DEF FramesOK, FreeIsClear
<1>7. \A t, u \in Slot : WritableShared(t, u)' => WritableShared(t, u)
  BY <1>0, <1>1 DEF WritableShared, Mappings
<1>t. FrameTypes'
  BY DEF Perm
<1>. QED
  BY <1>t, <1>3, <1>4, <1>5, <1>6, <1>7 DEF FramesOK

\* unmap_user_page keeps it: the count goes down with the mapping, and the
\* frame is freed and cleared exactly when the mapping was the last.
LEMMA UnmapFrames ==
    ASSUME CountFacts, FrameTypes, FramesOK, NEW s \in Slot, unmap_user_page(s)
    PROVE  /\ FrameTypes' /\ FramesOK'
           /\ \A t, u \in Slot : WritableShared(t, u)' => WritableShared(t, u)
<1>. USE DEF FrameTypes, unmap_user_page, Release
<1>p. PICK p \in Page : p = frame[s]
  BY DEF FramesOK, PteOK
<1>0. None \notin Page
  BY MemoryAssumption
<1>1. /\ Mappings(p)' = Mappings(p) \ {s}
      /\ s \in Mappings(p)
      /\ \A q \in Page : q # p => Mappings(q)' = Mappings(q)
  BY <1>p, <1>0 DEF Mappings
<1>2. /\ refs[p] = Cardinality(Mappings(p)) /\ refs[p] \in Nat
      /\ Cardinality(Mappings(p)') = refs[p] - 1
  <2>1. refs[p] = Cardinality(Mappings(p)) /\ refs[p] \in Nat
    BY <1>p, <1>0 DEF FramesOK, RefsExact
  <2>2. Cardinality(Mappings(p) \ {s}) = Cardinality(Mappings(p)) - 1
    BY Zenon, <1>1, MappingsCount
  <2>. QED
    BY <1>1, <2>1, <2>2
<1>3. refs[p] = 1 <=> Mappings(p)' = {}
  <2>1. Mappings(p) \ {s} \in SUBSET Slot
    BY MappingsCount
  <2>2. Cardinality(Mappings(p) \ {s}) = 0 <=> Mappings(p) \ {s} = {}
    BY Zenon, <2>1 DEF CountFacts
  <2>. QED
    BY <1>1, <1>2, <2>2
<1>4. owner[p] = "USER"
  BY <1>p, <1>0, <1>1 DEF FramesOK, NoLeakNoDangling
<1>5. PteOK'
  BY <1>p, <1>0 DEF FramesOK, PteOK
<1>6. RefsExact'
  BY Zenon, <1>p, <1>0, <1>1, <1>2 DEF FramesOK, RefsExact
<1>7. NoLeakNoDangling'
  <2>. SUFFICES ASSUME NEW q \in Page
                PROVE  owner'[q] = "USER" <=> Mappings(q)' # {}
    BY DEF NoLeakNoDangling
  <2>1. CASE q = p
    BY <1>p, <1>0, <1>3, <1>4, <2>1
  <2>2. CASE q # p
    BY <1>p, <1>0, <1>1, <2>2 DEF FramesOK, NoLeakNoDangling
  <2>. QED
    BY <2>1, <2>2
<1>8. FreeIsClear'
  BY <1>p, <1>0, <1>4 DEF FramesOK, FreeIsClear
<1>9. \A t, u \in Slot : WritableShared(t, u)' => WritableShared(t, u)
  BY <1>p, <1>0 DEF WritableShared
<1>t. FrameTypes'
  <2>1. refs[p] - 1 \in Nat
    <3>1. refs[p] # 0
      BY <1>1, <1>2, MappingsCount
    <3>. QED
      BY <1>2, <3>1
  <2>2. content' \in [Page -> Value]
    BY MemoryAssumption
  <2>. QED
    BY <1>p, <2>1, <2>2 DEF Perm
<1>. QED
  BY <1>t, <1>5, <1>6, <1>7, <1>8, <1>9 DEF FramesOK

\* MapShared keeps it.
LEMMA MapSharedFrames ==
    ASSUME CountFacts, FrameTypes, FramesOK, NEW s \in Slot, NEW r \in Slot, frame[r] # None,
           NEW m \in {"ro", "rw", "cow"}, MapShared(s, frame[r], m)
    PROVE  FrameTypes' /\ FramesOK'
<1>. USE DEF FrameTypes, MapShared
<1>p. PICK p \in Page : p = frame[r]
  BY DEF FramesOK, PteOK
<1>0. None \notin Page
  BY MemoryAssumption
<1>1. /\ Mappings(p)' = Mappings(p) \cup {s}
      /\ s \notin Mappings(p) /\ r \in Mappings(p)
      /\ \A q \in Page : q # p => Mappings(q)' = Mappings(q)
  BY <1>p, <1>0 DEF Mappings
<1>2. Cardinality(Mappings(p)') = refs[p] + 1
  <2>1. Cardinality(Mappings(p) \cup {s}) = Cardinality(Mappings(p)) + 1
    BY Zenon, <1>1, MappingsCount
  <2>. QED
    BY <1>1, <2>1 DEF FramesOK, RefsExact
<1>3. PteOK'
  BY <1>p, <1>0 DEF FramesOK, PteOK
<1>4. RefsExact'
  BY Zenon, <1>p, <1>0, <1>1, <1>2 DEF FramesOK, RefsExact
<1>5. NoLeakNoDangling'
  BY <1>p, <1>0, <1>1 DEF FramesOK, NoLeakNoDangling
<1>6. FreeIsClear'
  BY <1>p DEF FramesOK, FreeIsClear
<1>t. FrameTypes'
  BY <1>p DEF Perm
<1>. QED
  BY <1>t, <1>3, <1>4, <1>5, <1>6 DEF FramesOK

\* handle_cow_page_fault keeps it; the last sharer that turns writable has
\* no one to share with.
LEMMA CowFrames ==
    ASSUME CountFacts, FrameTypes, FramesOK, NEW s \in Slot, NEW n \in Page,
           handle_cow_page_fault(s, n)
    PROVE  /\ FrameTypes' /\ FramesOK'
           /\ \A t, u \in Slot : WritableShared(t, u)' => WritableShared(t, u)
<1>. USE DEF FrameTypes, handle_cow_page_fault
<1>p. PICK p \in Page : p = frame[s]
  BY DEF FramesOK, PteOK
<1>0. None \notin Page /\ s \in Mappings(p)
  BY <1>p, MemoryAssumption DEF Mappings
<1>t. FrameTypes'
  BY <1>p DEF Perm
<1>1. CASE refs[p] = 1 /\ perm' = [perm EXCEPT ![s] = "rw"]
           /\ UNCHANGED <<owner, refs, content, frame>>
  <2>1. Mappings(p) = {s}
    <3>1. Cardinality(Mappings(p)) = 1
      BY <1>p, <1>0, <1>1 DEF FramesOK, RefsExact
    <3>. QED
      BY Zenon, <1>0, <3>1, MappingsCount, OneSlot
  <2>2. \A q \in Page : Mappings(q)' = Mappings(q)
    BY <1>1 DEF Mappings
  <2>3. PteOK'
    BY <1>p, <1>0, <1>1 DEF FramesOK, PteOK
  <2>4. RefsExact' /\ NoLeakNoDangling' /\ FreeIsClear'
    BY <1>1, <2>2 DEF FramesOK, RefsExact, NoLeakNoDangling, FreeIsClear
  <2>5. \A t, u \in Slot : WritableShared(t, u)' => WritableShared(t, u)
    BY <1>p, <1>0, <1>1, <2>1 DEF WritableShared, Mappings
  <2>. QED
    BY <1>t, <2>3, <2>4, <2>5 DEF FramesOK
<1>2. CASE /\ refs[p] > 1 /\ owner[n] = "FREE"
           /\ owner' = [owner EXCEPT ![n] = "USER"]
           /\ content' = [content EXCEPT ![n] = content[p]]
           /\ refs' = [refs EXCEPT ![n] = 1, ![p] = @ - 1]
           /\ frame' = [frame EXCEPT ![s] = n]
           /\ perm' = [perm EXCEPT ![s] = "rw"]
  <2>1. Mappings(n) = {} /\ n # p
    BY <1>p, <1>0, <1>2 DEF FramesOK, NoLeakNoDangling
  <2>2. /\ Mappings(p)' = Mappings(p) \ {s}
        /\ Mappings(n)' = {s}
        /\ \A q \in Page : q # p /\ q # n => Mappings(q)' = Mappings(q)
    BY <1>p, <1>0, <1>2, <2>1 DEF Mappings
  <2>3. /\ Cardinality(Mappings(p)') = refs[p] - 1
        /\ Cardinality(Mappings(n)') = 1
    <3>1. refs[p] = Cardinality(Mappings(p))
      BY <1>p, <1>0 DEF FramesOK, RefsExact
    <3>2. Cardinality(Mappings(p) \ {s}) = Cardinality(Mappings(p)) - 1
      BY Zenon, <1>0, MappingsCount
    <3>3. Cardinality({s}) = 1
      BY OneSlot
    <3>. QED
      BY <2>2, <3>1, <3>2, <3>3
  <2>4. Mappings(p)' # {}
    <3>1. Cardinality({}) = 0
      BY DEF CountFacts
    <3>2. refs[p] - 1 # 0
      BY <1>p, <1>2
    <3>. QED
      BY <2>3, <3>1, <3>2
  <2>5. PteOK'
    BY <1>p, <1>0, <1>2 DEF FramesOK, PteOK
  <2>6. RefsExact'
    BY Zenon, <1>p, <1>0, <1>2, <2>1, <2>2, <2>3 DEF FramesOK, RefsExact
  <2>7. NoLeakNoDangling'
    BY Zenon, <1>p, <1>0, <1>2, <2>1, <2>2, <2>4 DEF FramesOK, NoLeakNoDangling
  <2>8. FreeIsClear'
    BY <1>2 DEF FramesOK, FreeIsClear
  <2>9. \A t, u \in Slot : WritableShared(t, u)' => WritableShared(t, u)
    BY <1>p, <1>0, <1>2, <2>1 DEF WritableShared, Mappings
  <2>. QED
    BY <1>t, <2>5, <2>6, <2>7, <2>8, <2>9 DEF FramesOK
<1>. QED
  BY <1>t, <1>p, <1>1, <1>2

\* A step that touches neither frames nor PTEs keeps it.
LEMMA SameFrames ==
    ASSUME FrameTypes, FramesOK, UNCHANGED <<phys, ptes>>
    PROVE  /\ FrameTypes' /\ FramesOK'
           /\ \A t, u \in Slot : WritableShared(t, u)' => WritableShared(t, u)
BY DEF FramesOK, PteOK, RefsExact, NoLeakNoDangling, FreeIsClear, Mappings,
       WritableShared, FrameTypes, phys, ptes

LEMMA SlotPair ==
    /\ \A s \in Slot : s[1] \in AS /\ s[2] \in VA /\ s = <<s[1], s[2]>>
    /\ \A a \in AS, v \in VA : <<a, v>> \in Slot
BY DEF Slot

-----------------------------------------------------------------------------
(* One lemma per operation.                                                *)

LEMMA InitIInv == CountFacts /\ Init => IInv
<1>. SUFFICES ASSUME CountFacts, Init PROVE IInv
  OBVIOUS
<1>. USE DEF Init
<1>1. TypeOK
  BY MemoryAssumption DEF TypeOK, FrameTypes, Perm, Op
<1>2. \A p \in Page : Mappings(p) = {}
  BY MemoryAssumption DEF Mappings
<1>3. FramesOK
  BY <1>2
  DEF CountFacts, FramesOK, PteOK, RefsExact, NoLeakNoDangling, FreeIsClear
<1>4. LocalsOK /\ UnusedEmpty /\ ChildOK /\ WritableIsPrivate
  BY MemoryAssumption, SlotPair DEF LocalsOK, UnusedEmpty, ChildOK, WritableIsPrivate, WritableShared
<1>. QED
  BY <1>1, <1>3, <1>4 DEF IInv

\* Loading a program keeps the inductive invariant.
LEMMA LoadStep == ASSUME CountFacts, IInv, Load PROVE IInv'
<1>. USE MemoryAssumption, SlotPair DEF IInv
<1>1. ASSUME NEW c \in AS, NEW old \in AS \cup {None},
             LoadBegin(c, old)
      PROVE  IInv'
  <2>. USE <1>1 DEF LoadBegin, Begin, Idle
  <2>1. /\ FrameTypes' /\ FramesOK'
        /\ \A t, u \in Slot : WritableShared(t, u)' => WritableShared(t, u)
    BY SameFrames DEF TypeOK
  <2>2. TypeOK'
    BY <2>1 DEF TypeOK, Op, thrs
  <2>3. LocalsOK'
    BY <2>1 DEF TypeOK, LocalsOK
  <2>4. UnusedEmpty'
    BY <2>1 DEF TypeOK, FrameTypes, UnusedEmpty, LocalsOK, ptes
  <2>5. ChildOK'
    BY <2>1 DEF TypeOK, FrameTypes, ChildOK, LocalsOK, ptes
  <2>6. WritableIsPrivate'
    BY <2>1 DEF WritableIsPrivate, LocalsOK
  <2>. QED
    BY <2>1, <2>2, <2>3, <2>4, <2>5, <2>6
<1>2. ASSUME NEW v \in VA, NEW p \in Page, NEW x \in Value, NEW w \in BOOLEAN,
             LoadSegmentPage(v, p, x, w)
      PROVE  IInv'
  <2>. USE <1>2 DEF LoadSegmentPage
  <2>0. /\ cur \in AS /\ stat[cur] = "building"
        /\ (IF w THEN "rw" ELSE "ro") \in {"ro", "rw"}
        /\ [first |-> v, last |-> v, kind |-> "file", w |-> w] \in Vma
    BY DEF LocalsOK, Vma
  <2>1. /\ FrameTypes' /\ FramesOK'
        /\ \A t, u \in Slot : WritableShared(t, u)' => WritableShared(t, u)
    BY <2>0, MapNewFrames DEF TypeOK
  <2>2. TypeOK'
    BY <2>0, <2>1 DEF TypeOK, Op, thrs
  <2>3. LocalsOK'
    BY <2>0, <2>1 DEF TypeOK, LocalsOK
  <2>4. UnusedEmpty'
    BY <2>0, <2>1 DEF TypeOK, FrameTypes, UnusedEmpty, LocalsOK, MapNew
  <2>5. ChildOK'
    BY <2>0, <2>1 DEF TypeOK, FrameTypes, ChildOK, LocalsOK, MapNew
  <2>6. WritableIsPrivate'
    BY <2>0, <2>1 DEF WritableIsPrivate, LocalsOK
  <2>. QED
    BY <2>1, <2>2, <2>3, <2>4, <2>5, <2>6
<1>3. ASSUME NEW low \in VA, NEW v \in VA, NEW p \in Page, NEW x \in Value,
             LoadStack(low, v, p, x)
      PROVE  IInv'
  <2>. USE <1>3 DEF LoadStack
  <2>0. /\ cur \in AS /\ stat[cur] = "building"
        /\ [first |-> low, last |-> v, kind |-> "grow", w |-> TRUE] \in Vma
    BY DEF LocalsOK, Vma
  <2>1. /\ FrameTypes' /\ FramesOK'
        /\ \A t, u \in Slot : WritableShared(t, u)' => WritableShared(t, u)
    BY <2>0, MapNewFrames DEF TypeOK
  <2>2. TypeOK'
    BY Zenon, <2>0, <2>1 DEF TypeOK, Op, thrs
  <2>3. LocalsOK'
    BY <2>0, <2>1 DEF TypeOK, LocalsOK
  <2>4. UnusedEmpty'
    BY <2>0, <2>1 DEF TypeOK, FrameTypes, UnusedEmpty, LocalsOK, MapNew
  <2>5. ChildOK'
    BY <2>0, <2>1 DEF TypeOK, FrameTypes, ChildOK, LocalsOK, MapNew
  <2>6. WritableIsPrivate'
    BY <2>0, <2>1 DEF WritableIsPrivate, LocalsOK
  <2>. QED
    BY <2>1, <2>2, <2>3, <2>4, <2>5, <2>6
<1>4. ASSUME NEW v \in VA, NEW p \in Page, NEW x \in Value,
             LoadEnd(v, p, x)
      PROVE  IInv'
  <2>. USE <1>4 DEF LoadEnd, LoadedNew, LoadedExec, Begin, End
  <2>0. /\ cur \in AS /\ stat[cur] = "building" /\ src # cur
        /\ src \in AS \cup {None}
    BY DEF LocalsOK, TypeOK
  <2>1. /\ FrameTypes' /\ FramesOK'
        /\ \A t, u \in Slot : WritableShared(t, u)' => WritableShared(t, u)
    BY <2>0, MapNewFrames DEF TypeOK
  <2>2. TypeOK'
    <3>1. thread_pages' \subseteq Slot
      BY <2>0 DEF TypeOK
    <3>3. stacks' \subseteq Slot
      <4>1. CASE LoadedExec
        <5>1. {s \in Slot : s[1] = cur /\ <<src, s[2]>> \in stacks} \subseteq Slot
          OBVIOUS
        <5>. QED
          BY <4>1, <5>1 DEF TypeOK
      <4>. QED
        BY <4>1 DEF TypeOK
    <3>4. fresh' \in [AS -> SUBSET VA]
      BY <2>0 DEF TypeOK
    <3>2. stat' \in [AS -> {"unused", "building", "live", "dying"}]
      BY <2>0 DEF TypeOK
    <3>. QED
      BY <2>0, <2>1, <3>1, <3>2, <3>3, <3>4 DEF TypeOK, Op
  <2>3. LocalsOK'
    BY <2>0, <2>1 DEF TypeOK, LocalsOK
  <2>4. UnusedEmpty'
    BY <2>0, <2>1 DEF TypeOK, FrameTypes, UnusedEmpty, LocalsOK, MapNew
  <2>5. ChildOK'
    BY <2>0, <2>1 DEF TypeOK, FrameTypes, ChildOK, LocalsOK, MapNew
  <2>6. WritableIsPrivate'
    BY <2>0, <2>1 DEF WritableIsPrivate, LocalsOK
  <2>. QED
    BY <2>1, <2>2, <2>3, <2>4, <2>5, <2>6
<1>5. CASE LoadFail
  <2>. USE <1>5 DEF LoadFail, Begin
  <2>1. /\ FrameTypes' /\ FramesOK'
        /\ \A t, u \in Slot : WritableShared(t, u)' => WritableShared(t, u)
    BY SameFrames DEF TypeOK
  <2>2. TypeOK'
    BY Zenon, <2>1 DEF TypeOK, Op, thrs
  <2>3. LocalsOK'
    BY <2>1 DEF TypeOK, LocalsOK
  <2>4. UnusedEmpty'
    BY <2>1 DEF TypeOK, FrameTypes, UnusedEmpty, LocalsOK, ptes
  <2>5. ChildOK'
    BY <2>1 DEF TypeOK, FrameTypes, ChildOK, LocalsOK, ptes
  <2>6. WritableIsPrivate'
    BY <2>1 DEF WritableIsPrivate, LocalsOK
  <2>. QED
    BY <2>1, <2>2, <2>3, <2>4, <2>5, <2>6
<1>. QED
  BY <1>1, <1>2, <1>3, <1>4, <1>5 DEF Load

\* fork keeps it.
LEMMA ForkStep == ASSUME CountFacts, IInv, Fork PROVE IInv'
<1>. USE MemoryAssumption, SlotPair DEF IInv
<1>1. ASSUME NEW a \in AS, NEW c \in AS,
             ForkBegin(a, c)
      PROVE  IInv'
  <2>. USE <1>1 DEF ForkBegin, Begin, Idle
  <2>1. /\ FrameTypes' /\ FramesOK'
        /\ \A t, u \in Slot : WritableShared(t, u)' => WritableShared(t, u)
    BY SameFrames DEF TypeOK
  <2>2. TypeOK'
    BY <2>1 DEF TypeOK, Op, thrs, Mapped
  <2>3. LocalsOK'
    BY <2>1 DEF TypeOK, LocalsOK
  <2>4. UnusedEmpty'
    BY <2>1 DEF TypeOK, FrameTypes, UnusedEmpty, LocalsOK, ptes
  <2>5. ChildOK'
    BY <2>1 DEF TypeOK, FrameTypes, ChildOK, LocalsOK, UnusedEmpty, FramesOK, PteOK,
                Mapped, ChildPerm, ptes
  <2>6. WritableIsPrivate'
    BY <2>1 DEF WritableIsPrivate, LocalsOK
  <2>. QED
    BY <2>1, <2>2, <2>3, <2>4, <2>5, <2>6
<1>2. ASSUME NEW v \in VA,
             ClonePage(v)
      PROVE  IInv'
  <2>. USE <1>2 DEF ClonePage, Step, Lowest
  <2>0. /\ cur \in AS /\ src \in AS /\ src # cur /\ stat[cur] = "building"
        /\ frame[<<src, v>>] # None /\ perm[<<src, v>>] \in {"ro", "rw", "cow"}
        /\ ChildPerm(perm[<<src, v>>]) \in {"ro", "cow"}
    BY DEF LocalsOK, ChildOK, TypeOK, FrameTypes, FramesOK, PteOK, Perm, ChildPerm
  <2>1. FrameTypes' /\ FramesOK'
    BY <2>0, MapSharedFrames DEF TypeOK
  <2>2. TypeOK'
    BY <2>0, <2>1 DEF TypeOK, Op, thrs
  <2>3. LocalsOK'
    BY <2>0, <2>1 DEF TypeOK, LocalsOK
  <2>4. UnusedEmpty'
    BY <2>0, <2>1 DEF TypeOK, FrameTypes, UnusedEmpty, LocalsOK, MapShared
  <2>5. ChildOK'
    BY Zenon, <2>0, <2>1 DEF TypeOK, FrameTypes, ChildOK, LocalsOK, MapShared
  <2>6. WritableIsPrivate'
    <3>. SUFFICES ASSUME NEW t \in Slot, NEW u \in Slot, WritableShared(t, u)'
                  PROVE  t[1] = src /\ u[1] = cur
      BY DEF WritableIsPrivate
    <3>1. t # <<cur, v>> /\ perm[t] = "rw" /\ frame[t] = frame'[t]
      BY <2>0 DEF TypeOK, FrameTypes, MapShared, WritableShared
    <3>2. CASE u # <<cur, v>>
      BY <2>0, <3>1, <3>2
      DEF TypeOK, FrameTypes, MapShared, WritableShared, WritableIsPrivate
    <3>3. CASE u = <<cur, v>>
      <4>1. frame[t] = frame[<<src, v>>] /\ frame[t] # None
        BY <2>0, <3>1, <3>3 DEF TypeOK, FrameTypes, MapShared, WritableShared
      <4>2. t = <<src, v>>
        BY <2>0, <3>1, <4>1 DEF WritableShared, WritableIsPrivate
      <4>. QED
        BY <3>3, <4>2
    <3>. QED
      BY <3>2, <3>3
  <2>. QED
    BY <2>1, <2>2, <2>3, <2>4, <2>5, <2>6
<1>3. ASSUME NEW v \in VA,
             SealPage(v)
      PROVE  IInv'
  <2>. USE <1>3 DEF SealPage, Step, Lowest
  <2>0. /\ cur \in AS /\ src \in AS /\ src # cur /\ <<src, v>> \in Slot
        /\ frame[<<src, v>>] # None
    BY Zenon DEF LocalsOK, ChildOK, TypeOK, FrameTypes, FramesOK, PteOK
  <2>1. FrameTypes' /\ FramesOK'
        /\ \A t, u \in Slot : WritableShared(t, u)' => WritableShared(t, u)
    <3>1. FrameTypes'
      BY <2>0 DEF TypeOK, FrameTypes, Perm, phys
    <3>2. \A q : Mappings(q)' = Mappings(q)
      BY DEF Mappings
    <3>3. PteOK'
      BY Zenon, <2>0 DEF TypeOK, FrameTypes, FramesOK, PteOK
    <3>4. RefsExact' /\ NoLeakNoDangling' /\ FreeIsClear'
      BY <3>2 DEF FramesOK, RefsExact, NoLeakNoDangling, FreeIsClear, phys
    <3>5. \A t, u \in Slot : WritableShared(t, u)' => WritableShared(t, u)
      BY <2>0 DEF TypeOK, FrameTypes, WritableShared
    <3>. QED
      BY <3>1, <3>3, <3>4, <3>5 DEF FramesOK
  <2>2. TypeOK'
    BY <2>0, <2>1 DEF TypeOK, Op, thrs
  <2>3. LocalsOK'
    BY <2>0, <2>1 DEF TypeOK, LocalsOK
  <2>4. UnusedEmpty'
    BY <2>0, <2>1 DEF TypeOK, FrameTypes, UnusedEmpty, LocalsOK
  <2>5. ChildOK'
    BY <2>0, <2>1 DEF TypeOK, FrameTypes, ChildOK, LocalsOK
  <2>6. WritableIsPrivate'
    BY <2>0, <2>1 DEF WritableIsPrivate, LocalsOK
  <2>. QED
    BY <2>1, <2>2, <2>3, <2>4, <2>5, <2>6
<1>4. CASE CloneFail
  <2>. USE <1>4 DEF CloneFail, Begin
  <2>1. /\ FrameTypes' /\ FramesOK'
        /\ \A t, u \in Slot : WritableShared(t, u)' => WritableShared(t, u)
    BY SameFrames DEF TypeOK
  <2>2. TypeOK'
    BY Zenon, <2>1 DEF TypeOK, Op, thrs
  <2>3. LocalsOK'
    BY <2>1 DEF TypeOK, LocalsOK
  <2>4. UnusedEmpty'
    BY <2>1 DEF TypeOK, FrameTypes, UnusedEmpty, LocalsOK, ptes
  <2>5. ChildOK'
    <3>0. cur \in AS /\ src \in AS
      BY DEF LocalsOK
    <3>1. \A v \in VA : perm[<<cur, v>>] # "rw"
      BY Zenon, <3>0 DEF ChildOK, FramesOK, PteOK, ChildPerm
    <3>. QED
      BY <3>1 DEF ChildOK, ptes
  <2>6. WritableIsPrivate'
    BY <2>1 DEF WritableIsPrivate, LocalsOK
  <2>. QED
    BY <2>1, <2>2, <2>3, <2>4, <2>5, <2>6
<1>5. CASE CloneEnd
  <2>. USE <1>5 DEF CloneEnd, Begin
  <2>1. /\ FrameTypes' /\ FramesOK'
        /\ \A t, u \in Slot : WritableShared(t, u)' => WritableShared(t, u)
    BY SameFrames DEF TypeOK
  <2>2. TypeOK'
    BY <2>1 DEF TypeOK, Op, thrs
  <2>3. LocalsOK'
    BY <2>1 DEF TypeOK, LocalsOK
  <2>4. UnusedEmpty'
    BY <2>1 DEF TypeOK, FrameTypes, UnusedEmpty, LocalsOK, ptes
  <2>5. ChildOK'
    BY <2>1 DEF TypeOK, FrameTypes, ChildOK, LocalsOK, ChildPerm, ptes
  <2>6. WritableIsPrivate'
    BY <2>1 DEF WritableIsPrivate, LocalsOK
  <2>. QED
    BY <2>1, <2>2, <2>3, <2>4, <2>5, <2>6
<1>6. CASE ForkEnd
  <2>. USE <1>6 DEF ForkEnd, Begin, End
  <2>0. cur \in AS /\ src \in AS /\ src # cur
    BY DEF LocalsOK
  <2>1. /\ FrameTypes' /\ FramesOK'
        /\ \A t, u \in Slot : WritableShared(t, u)' => WritableShared(t, u)
    BY SameFrames DEF TypeOK
  <2>2. TypeOK'
    BY <2>0, <2>1 DEF TypeOK, Op, thrs
  <2>3. LocalsOK'
    BY <2>0, <2>1 DEF TypeOK, LocalsOK
  <2>4. UnusedEmpty'
    BY <2>0, <2>1 DEF TypeOK, FrameTypes, UnusedEmpty, LocalsOK, ptes
  <2>5. ChildOK'
    BY <2>0, <2>1 DEF TypeOK, FrameTypes, ChildOK, LocalsOK, ptes
  <2>6. WritableIsPrivate'
    <3>1. \A v \in VA : perm[<<src, v>>] # "rw"
      BY Zenon DEF ChildOK
    <3>2. \A t \in Slot : t[1] = src => perm[t] # "rw"
      BY <3>1
    <3>3. \A t, u \in Slot : ~WritableShared(t, u)
      BY <3>2 DEF WritableIsPrivate, WritableShared
    <3>. QED
      BY <2>1, <3>3 DEF WritableIsPrivate
  <2>. QED
    BY <2>1, <2>2, <2>3, <2>4, <2>5, <2>6
<1>7. CASE ForkFail
  <2>. USE <1>7 DEF ForkFail, Begin
  <2>0. cur \in AS /\ src \in AS /\ src # cur
    BY DEF LocalsOK
  <2>1. /\ FrameTypes' /\ FramesOK'
        /\ \A t, u \in Slot : WritableShared(t, u)' => WritableShared(t, u)
    BY SameFrames DEF TypeOK
  <2>2. TypeOK'
    BY <2>0, <2>1 DEF TypeOK, Op, thrs
  <2>3. LocalsOK'
    BY <2>0, <2>1 DEF TypeOK, LocalsOK
  <2>4. UnusedEmpty'
    BY <2>0, <2>1 DEF TypeOK, FrameTypes, UnusedEmpty, LocalsOK, ptes
  <2>5. ChildOK'
    BY <2>0, <2>1 DEF TypeOK, FrameTypes, ChildOK, LocalsOK, ptes
  <2>6. WritableIsPrivate'
    <3>1. \A v \in VA : perm[<<src, v>>] # "rw"
      BY Zenon DEF ChildOK
    <3>2. \A t \in Slot : t[1] = src => perm[t] # "rw"
      BY <3>1
    <3>3. \A t, u \in Slot : ~WritableShared(t, u)
      BY <3>2 DEF WritableIsPrivate, WritableShared
    <3>. QED
      BY <2>1, <3>3 DEF WritableIsPrivate
  <2>. QED
    BY <2>1, <2>2, <2>3, <2>4, <2>5, <2>6
<1>. QED
  BY <1>1, <1>2, <1>3, <1>4, <1>5, <1>6, <1>7 DEF Fork

\* The teardown of an address space keeps it.
LEMMA TeardownStep == ASSUME CountFacts, IInv, Teardown PROVE IInv'
<1>. USE MemoryAssumption, SlotPair DEF IInv
<1>1. ASSUME NEW a \in AS,
             ExitBegin(a)
      PROVE  IInv'
  <2>. USE <1>1 DEF ExitBegin, Begin, Idle
  <2>1. /\ FrameTypes' /\ FramesOK'
        /\ \A t, u \in Slot : WritableShared(t, u)' => WritableShared(t, u)
    BY SameFrames DEF TypeOK
  <2>2. TypeOK'
    BY <2>1 DEF TypeOK, Op, thrs
  <2>3. LocalsOK'
    BY <2>1 DEF TypeOK, LocalsOK
  <2>4. UnusedEmpty'
    BY <2>1 DEF TypeOK, FrameTypes, UnusedEmpty, LocalsOK, ptes
  <2>5. ChildOK'
    BY <2>1 DEF TypeOK, FrameTypes, ChildOK, LocalsOK, ptes
  <2>6. WritableIsPrivate'
    BY <2>1 DEF WritableIsPrivate, LocalsOK
  <2>. QED
    BY <2>1, <2>2, <2>3, <2>4, <2>5, <2>6
<1>2. ASSUME NEW v \in VA,
             DestroyPage(v)
      PROVE  IInv'
  <2>. USE <1>2 DEF DestroyPage, Lowest
  <2>0. cur \in AS
    BY DEF LocalsOK
  <2>1. /\ FrameTypes' /\ FramesOK'
        /\ \A t, u \in Slot : WritableShared(t, u)' => WritableShared(t, u)
    BY <2>0, UnmapFrames DEF TypeOK
  <2>2. TypeOK'
    BY <2>0, <2>1 DEF TypeOK, Op, thrs
  <2>3. LocalsOK'
    BY <2>0, <2>1 DEF TypeOK, LocalsOK
  <2>4. UnusedEmpty'
    BY <2>0, <2>1 DEF TypeOK, FrameTypes, UnusedEmpty, LocalsOK, unmap_user_page
  <2>5. ChildOK'
    BY <2>0, <2>1 DEF TypeOK, FrameTypes, ChildOK, LocalsOK, unmap_user_page
  <2>6. WritableIsPrivate'
    BY <2>0, <2>1 DEF WritableIsPrivate, LocalsOK
  <2>. QED
    BY <2>1, <2>2, <2>3, <2>4, <2>5, <2>6
<1>3. CASE DestroyEnd
  <2>. USE <1>3 DEF DestroyEnd, Begin, End
  <2>0. cur \in AS /\ \A v \in VA : frame[<<cur, v>>] = None
    BY DEF LocalsOK, Mapped
  <2>1. /\ FrameTypes' /\ FramesOK'
        /\ \A t, u \in Slot : WritableShared(t, u)' => WritableShared(t, u)
    BY SameFrames DEF TypeOK
  <2>2. TypeOK'
    BY <2>0, <2>1 DEF TypeOK, Op, thrs
  <2>3. LocalsOK'
    BY <2>0, <2>1 DEF TypeOK, LocalsOK
  <2>4. UnusedEmpty'
    BY <2>0, <2>1 DEF TypeOK, FrameTypes, UnusedEmpty, LocalsOK, ptes
  <2>5. ChildOK'
    BY <2>0, <2>1 DEF TypeOK, FrameTypes, ChildOK, LocalsOK, ptes
  <2>6. WritableIsPrivate'
    BY <2>0, <2>1 DEF WritableIsPrivate, WritableShared
  <2>. QED
    BY <2>1, <2>2, <2>3, <2>4, <2>5, <2>6
<1>. QED
  BY <1>1, <1>2, <1>3 DEF Teardown

\* User code, its page faults and its threads keep it.
LEMMA RunStep == ASSUME CountFacts, IInv, Run PROVE IInv'
<1>. USE MemoryAssumption, SlotPair DEF IInv
<1>1. ASSUME NEW s \in Slot, NEW x \in Value,
             UserStore(s, x)
      PROVE  IInv'
  <2>. USE <1>1 DEF UserStore
  <2>0. frame[s] \in Page /\ owner[frame[s]] = "USER"
    BY DEF TypeOK, FrameTypes, FramesOK, PteOK, NoLeakNoDangling, Mappings
  <2>1. /\ FrameTypes' /\ FramesOK'
        /\ \A t, u \in Slot : WritableShared(t, u)' => WritableShared(t, u)
    BY <2>0 DEF TypeOK, FrameTypes, ptes, FramesOK, PteOK, RefsExact,
           NoLeakNoDangling, FreeIsClear, Mappings, WritableShared
  <2>2. TypeOK'
    BY <2>0, <2>1 DEF TypeOK, Op, thrs
  <2>3. LocalsOK'
    BY <2>0, <2>1 DEF TypeOK, LocalsOK
  <2>4. UnusedEmpty'
    BY <2>0, <2>1 DEF TypeOK, FrameTypes, UnusedEmpty, LocalsOK, ptes
  <2>5. ChildOK'
    BY <2>0, <2>1 DEF TypeOK, FrameTypes, ChildOK, LocalsOK, ptes
  <2>6. WritableIsPrivate'
    BY <2>0, <2>1 DEF WritableIsPrivate, LocalsOK
  <2>. QED
    BY <2>1, <2>2, <2>3, <2>4, <2>5, <2>6
<1>2. ASSUME NEW s \in Slot, NEW p \in Page,
             CowFault(s, p)
      PROVE  IInv'
  <2>. USE <1>2 DEF CowFault, Idle
  <2>1. /\ FrameTypes' /\ FramesOK'
        /\ \A t, u \in Slot : WritableShared(t, u)' => WritableShared(t, u)
    BY CowFrames DEF TypeOK
  <2>2. TypeOK'
    BY <2>1 DEF TypeOK, Op, thrs
  <2>3. LocalsOK'
    BY <2>1 DEF TypeOK, LocalsOK
  <2>4. UnusedEmpty'
    BY <2>1 DEF TypeOK, FrameTypes, UnusedEmpty, LocalsOK, FramesOK, PteOK, handle_cow_page_fault
  <2>5. ChildOK'
    BY <2>1 DEF TypeOK, FrameTypes, ChildOK, LocalsOK, FramesOK, PteOK, handle_cow_page_fault
  <2>6. WritableIsPrivate'
    BY <2>1 DEF WritableIsPrivate, LocalsOK
  <2>. QED
    BY <2>1, <2>2, <2>3, <2>4, <2>5, <2>6
<1>3. ASSUME NEW s \in Slot, NEW p \in Page,
             GrowFault(s, p)
      PROVE  IInv'
  <2>. USE <1>3 DEF GrowFault, Idle
  <2>0. content[p] \in Value
    BY DEF TypeOK, FrameTypes
  <2>1. /\ FrameTypes' /\ FramesOK'
        /\ \A t, u \in Slot : WritableShared(t, u)' => WritableShared(t, u)
    BY <2>0, MapNewFrames DEF TypeOK
  <2>2. TypeOK'
    BY <2>0, <2>1 DEF TypeOK, Op, thrs
  <2>3. LocalsOK'
    BY <2>0, <2>1 DEF TypeOK, LocalsOK
  <2>4. UnusedEmpty'
    BY <2>0, <2>1 DEF TypeOK, FrameTypes, UnusedEmpty, LocalsOK, MapNew
  <2>5. ChildOK'
    BY <2>0, <2>1 DEF TypeOK, FrameTypes, ChildOK, LocalsOK, MapNew
  <2>6. WritableIsPrivate'
    BY <2>0, <2>1 DEF WritableIsPrivate, LocalsOK
  <2>. QED
    BY <2>1, <2>2, <2>3, <2>4, <2>5, <2>6
<1>4. ASSUME NEW s \in Slot, NEW p \in Page,
             CreateThread(s, p)
      PROVE  IInv'
  <2>. USE <1>4 DEF CreateThread, Idle
  <2>0. content[p] \in Value
    BY DEF TypeOK, FrameTypes
  <2>1. /\ FrameTypes' /\ FramesOK'
        /\ \A t, u \in Slot : WritableShared(t, u)' => WritableShared(t, u)
    BY <2>0, MapNewFrames DEF TypeOK
  <2>2. TypeOK'
    BY <2>0, <2>1 DEF TypeOK, Op, thrs
  <2>3. LocalsOK'
    BY <2>0, <2>1 DEF TypeOK, LocalsOK
  <2>4. UnusedEmpty'
    BY <2>0, <2>1 DEF TypeOK, FrameTypes, UnusedEmpty, LocalsOK, MapNew
  <2>5. ChildOK'
    BY <2>0, <2>1 DEF TypeOK, FrameTypes, ChildOK, LocalsOK, MapNew
  <2>6. WritableIsPrivate'
    BY <2>0, <2>1 DEF WritableIsPrivate, LocalsOK
  <2>. QED
    BY <2>1, <2>2, <2>3, <2>4, <2>5, <2>6
<1>5. ASSUME NEW s \in Slot,
             FreeThread(s)
      PROVE  IInv'
  <2>. USE <1>5 DEF FreeThread, Idle, End, Begin
  <2>1. /\ FrameTypes' /\ FramesOK'
        /\ \A t, u \in Slot : WritableShared(t, u)' => WritableShared(t, u)
    BY UnmapFrames DEF TypeOK
  <2>2. TypeOK'
    BY <2>1 DEF TypeOK, Op, thrs
  <2>3. LocalsOK'
    BY <2>1 DEF TypeOK, LocalsOK
  <2>4. UnusedEmpty'
    BY <2>1 DEF TypeOK, FrameTypes, UnusedEmpty, LocalsOK, unmap_user_page
  <2>5. ChildOK'
    BY <2>1 DEF TypeOK, FrameTypes, ChildOK, LocalsOK, unmap_user_page
  <2>6. WritableIsPrivate'
    BY <2>1 DEF WritableIsPrivate, LocalsOK
  <2>. QED
    BY <2>1, <2>2, <2>3, <2>4, <2>5, <2>6
<1>6. ASSUME NEW a \in AS,
             FreeBareThread(a)
      PROVE  IInv'
  <2>. USE <1>6 DEF FreeBareThread, Idle
  <2>1. /\ FrameTypes' /\ FramesOK'
        /\ \A t, u \in Slot : WritableShared(t, u)' => WritableShared(t, u)
    BY SameFrames DEF TypeOK
  <2>2. TypeOK'
    BY <2>1 DEF TypeOK, Op, thrs
  <2>3. LocalsOK'
    BY <2>1 DEF TypeOK, LocalsOK
  <2>4. UnusedEmpty'
    BY <2>1 DEF TypeOK, FrameTypes, UnusedEmpty, LocalsOK, ptes
  <2>5. ChildOK'
    BY <2>1 DEF TypeOK, FrameTypes, ChildOK, LocalsOK, ptes
  <2>6. WritableIsPrivate'
    BY <2>1 DEF WritableIsPrivate, LocalsOK
  <2>. QED
    BY <2>1, <2>2, <2>3, <2>4, <2>5, <2>6
<1>7. ASSUME NEW s \in Slot,
             FreeStale(s)
      PROVE  IInv'
  <2>. USE <1>7 DEF FreeStale, Idle, Begin
  <2>1. /\ FrameTypes' /\ FramesOK'
        /\ \A t, u \in Slot : WritableShared(t, u)' => WritableShared(t, u)
    BY UnmapFrames, SameFrames DEF TypeOK
  <2>2. TypeOK'
    BY <2>1 DEF TypeOK, Op, thrs
  <2>3. LocalsOK'
    BY <2>1 DEF TypeOK, LocalsOK
  <2>4. UnusedEmpty'
    BY <2>1 DEF TypeOK, FrameTypes, UnusedEmpty, LocalsOK, unmap_user_page, ptes
  <2>5. ChildOK'
    BY <2>1 DEF TypeOK, FrameTypes, ChildOK, LocalsOK, unmap_user_page, ptes
  <2>6. WritableIsPrivate'
    BY <2>1 DEF WritableIsPrivate, LocalsOK
  <2>. QED
    BY <2>1, <2>2, <2>3, <2>4, <2>5, <2>6
<1>. QED
  BY <1>1, <1>2, <1>3, <1>4, <1>5, <1>6, <1>7 DEF Run

\* Allocations by the kernel keep it.
LEMMA KernelStep == ASSUME CountFacts, IInv, Kernel PROVE IInv'
<1>. USE MemoryAssumption, SlotPair DEF IInv
<1>1. ASSUME NEW p \in Page, NEW x \in Value,
             KernelAlloc(p, x)
      PROVE  IInv'
  <2>. USE <1>1 DEF KernelAlloc, Idle
  <2>1. /\ FrameTypes' /\ FramesOK'
        /\ \A t, u \in Slot : WritableShared(t, u)' => WritableShared(t, u)
    BY DEF TypeOK, FrameTypes, ptes, FramesOK, PteOK, RefsExact,
           NoLeakNoDangling, FreeIsClear, Mappings, WritableShared
  <2>2. TypeOK'
    BY <2>1 DEF TypeOK, Op, thrs
  <2>3. LocalsOK'
    BY <2>1 DEF TypeOK, LocalsOK
  <2>4. UnusedEmpty'
    BY <2>1 DEF TypeOK, FrameTypes, UnusedEmpty, LocalsOK, ptes
  <2>5. ChildOK'
    BY <2>1 DEF TypeOK, FrameTypes, ChildOK, LocalsOK, ptes
  <2>6. WritableIsPrivate'
    BY <2>1 DEF WritableIsPrivate, LocalsOK
  <2>. QED
    BY <2>1, <2>2, <2>3, <2>4, <2>5, <2>6
<1>2. ASSUME NEW p \in Page,
             KernelFree(p)
      PROVE  IInv'
  <2>. USE <1>2 DEF KernelFree, Idle
  <2>1. /\ FrameTypes' /\ FramesOK'
        /\ \A t, u \in Slot : WritableShared(t, u)' => WritableShared(t, u)
    BY DEF TypeOK, FrameTypes, ptes, FramesOK, PteOK, RefsExact,
           NoLeakNoDangling, FreeIsClear, Mappings, WritableShared
  <2>2. TypeOK'
    BY <2>1 DEF TypeOK, Op, thrs
  <2>3. LocalsOK'
    BY <2>1 DEF TypeOK, LocalsOK
  <2>4. UnusedEmpty'
    BY <2>1 DEF TypeOK, FrameTypes, UnusedEmpty, LocalsOK, ptes
  <2>5. ChildOK'
    BY <2>1 DEF TypeOK, FrameTypes, ChildOK, LocalsOK, ptes
  <2>6. WritableIsPrivate'
    BY <2>1 DEF WritableIsPrivate, LocalsOK
  <2>. QED
    BY <2>1, <2>2, <2>3, <2>4, <2>5, <2>6
<1>. QED
  BY <1>1, <1>2 DEF Kernel

\* mmap and its roll-back keep it.
LEMMA MmapStep == ASSUME CountFacts, IInv, Mmap PROVE IInv'
<1>. USE MemoryAssumption, SlotPair DEF IInv
<1>1. ASSUME NEW a \in AS, NEW r \in Ranges, NEW w \in BOOLEAN,
             MmapBegin(a, r, w)
      PROVE  IInv'
  <2>. USE <1>1 DEF MmapBegin, Begin, Idle
  <2>1. /\ FrameTypes' /\ FramesOK'
        /\ \A t, u \in Slot : WritableShared(t, u)' => WritableShared(t, u)
    BY SameFrames DEF TypeOK
  <2>2. TypeOK'
    <3>1. r \subseteq VA
      BY DEF Ranges
    <3>2. \A lo, hi \in r : [first |-> lo, last |-> hi, kind |-> "anon", w |-> w] \in Vma
      BY <3>1 DEF Vma
    <3>3. vmas' \in [AS -> SUBSET Vma]
      BY <3>2 DEF TypeOK
    <3>. QED
      BY <2>1, <3>1, <3>3 DEF TypeOK, Op, thrs
  <2>3. LocalsOK'
    BY <2>1 DEF TypeOK, LocalsOK
  <2>4. UnusedEmpty'
    BY <2>1 DEF TypeOK, FrameTypes, UnusedEmpty, LocalsOK, ptes
  <2>5. ChildOK'
    BY <2>1 DEF TypeOK, FrameTypes, ChildOK, LocalsOK, ptes
  <2>6. WritableIsPrivate'
    BY <2>1 DEF WritableIsPrivate, LocalsOK
  <2>. QED
    BY <2>1, <2>2, <2>3, <2>4, <2>5, <2>6
<1>2. ASSUME NEW v \in VA, NEW p \in Page,
             MmapPage(v, p)
      PROVE  IInv'
  <2>. USE <1>2 DEF MmapPage, Step
  <2>0. cur \in AS /\ stat[cur] = "live" /\ content[p] \in Value
    BY DEF LocalsOK, TypeOK, FrameTypes
  <2>m. PICK m \in vmas[cur] :
          MapNew(<<cur, v>>, p, IF m.w THEN "rw" ELSE "ro", content[p])
    OBVIOUS
  <2>1. /\ FrameTypes' /\ FramesOK'
        /\ \A t, u \in Slot : WritableShared(t, u)' => WritableShared(t, u)
    BY <2>0, <2>m, MapNewFrames DEF TypeOK
  <2>2. TypeOK'
    BY <2>0, <2>1 DEF TypeOK, Op, thrs
  <2>3. LocalsOK'
    BY <2>0, <2>1 DEF TypeOK, LocalsOK
  <2>4. UnusedEmpty'
    BY <2>0, <2>m DEF TypeOK, FrameTypes, UnusedEmpty, MapNew
  <2>5. ChildOK'
    BY DEF ChildOK
  <2>6. WritableIsPrivate'
    BY <2>0, <2>1 DEF WritableIsPrivate, LocalsOK
  <2>. QED
    BY <2>1, <2>2, <2>3, <2>4, <2>5, <2>6
<1>3. ASSUME NEW v \in VA,
             RollbackPage(v)
      PROVE  IInv'
  <2>. USE <1>3 DEF RollbackPage, Step, Lowest
  <2>0. cur \in AS /\ stat[cur] = "live"
    BY DEF LocalsOK
  <2>1. /\ FrameTypes' /\ FramesOK'
        /\ \A t, u \in Slot : WritableShared(t, u)' => WritableShared(t, u)
    BY <2>0, UnmapFrames DEF TypeOK
  <2>2. TypeOK'
    BY <2>0, <2>1 DEF TypeOK, Op, thrs
  <2>3. LocalsOK'
    BY <2>0, <2>1 DEF TypeOK, LocalsOK
  <2>4. UnusedEmpty'
    BY <2>0, <2>1 DEF TypeOK, FrameTypes, UnusedEmpty, LocalsOK, unmap_user_page
  <2>5. ChildOK'
    BY <2>0, <2>1 DEF TypeOK, FrameTypes, ChildOK, LocalsOK, unmap_user_page
  <2>6. WritableIsPrivate'
    BY <2>0, <2>1 DEF WritableIsPrivate, LocalsOK
  <2>. QED
    BY <2>1, <2>2, <2>3, <2>4, <2>5, <2>6
<1>4. CASE MmapEnd
  <2>. USE <1>4 DEF MmapEnd, End, Begin
  <2>1. /\ FrameTypes' /\ FramesOK'
        /\ \A t, u \in Slot : WritableShared(t, u)' => WritableShared(t, u)
    BY SameFrames DEF TypeOK
  <2>2. TypeOK'
    BY <2>1 DEF TypeOK, Op, thrs
  <2>3. LocalsOK'
    BY <2>1 DEF TypeOK, LocalsOK
  <2>4. UnusedEmpty'
    BY <2>1 DEF TypeOK, FrameTypes, UnusedEmpty, LocalsOK, ptes
  <2>5. ChildOK'
    BY <2>1 DEF TypeOK, FrameTypes, ChildOK, LocalsOK, ptes
  <2>6. WritableIsPrivate'
    BY <2>1 DEF WritableIsPrivate, LocalsOK
  <2>. QED
    BY <2>1, <2>2, <2>3, <2>4, <2>5, <2>6
<1>5. CASE MmapFail
  <2>. USE <1>5 DEF MmapFail, Begin
  <2>1. /\ FrameTypes' /\ FramesOK'
        /\ \A t, u \in Slot : WritableShared(t, u)' => WritableShared(t, u)
    BY SameFrames DEF TypeOK
  <2>2. TypeOK'
    BY <2>1 DEF TypeOK, Op, thrs
  <2>3. LocalsOK'
    BY <2>1 DEF TypeOK, LocalsOK
  <2>4. UnusedEmpty'
    BY <2>1 DEF TypeOK, FrameTypes, UnusedEmpty, LocalsOK, ptes
  <2>5. ChildOK'
    BY <2>1 DEF TypeOK, FrameTypes, ChildOK, LocalsOK, ptes
  <2>6. WritableIsPrivate'
    BY <2>1 DEF WritableIsPrivate, LocalsOK
  <2>. QED
    BY <2>1, <2>2, <2>3, <2>4, <2>5, <2>6
<1>6. CASE RollbackEnd
  <2>. USE <1>6 DEF RollbackEnd, End, Begin
  <2>1. /\ FrameTypes' /\ FramesOK'
        /\ \A t, u \in Slot : WritableShared(t, u)' => WritableShared(t, u)
    BY SameFrames DEF TypeOK
  <2>2. TypeOK'
    BY Zenon, <2>1 DEF TypeOK, Op, thrs
  <2>3. LocalsOK'
    BY <2>1 DEF TypeOK, LocalsOK
  <2>4. UnusedEmpty'
    BY <2>1 DEF TypeOK, FrameTypes, UnusedEmpty, LocalsOK, ptes
  <2>5. ChildOK'
    BY <2>1 DEF TypeOK, FrameTypes, ChildOK, LocalsOK, ptes
  <2>6. WritableIsPrivate'
    BY <2>1 DEF WritableIsPrivate, LocalsOK
  <2>. QED
    BY <2>1, <2>2, <2>3, <2>4, <2>5, <2>6
<1>. QED
  BY <1>1, <1>2, <1>3, <1>4, <1>5, <1>6 DEF Mmap

\* munmap keeps it.
LEMMA MunmapStep == ASSUME CountFacts, IInv, Munmap PROVE IInv'
<1>. USE MemoryAssumption, SlotPair DEF IInv
<1>1. ASSUME NEW a \in AS, NEW r \in Ranges,
             MunmapBegin(a, r)
      PROVE  IInv'
  <2>. USE <1>1 DEF MunmapBegin, Begin, Idle
  <2>1. /\ FrameTypes' /\ FramesOK'
        /\ \A t, u \in Slot : WritableShared(t, u)' => WritableShared(t, u)
    BY SameFrames DEF TypeOK
  <2>2. TypeOK'
    BY <2>1 DEF TypeOK, Op, thrs, Ranges
  <2>3. LocalsOK'
    BY <2>1 DEF TypeOK, LocalsOK
  <2>4. UnusedEmpty'
    BY <2>1 DEF TypeOK, FrameTypes, UnusedEmpty, LocalsOK, ptes
  <2>5. ChildOK'
    BY <2>1 DEF TypeOK, FrameTypes, ChildOK, LocalsOK, ptes
  <2>6. WritableIsPrivate'
    BY <2>1 DEF WritableIsPrivate, LocalsOK
  <2>. QED
    BY <2>1, <2>2, <2>3, <2>4, <2>5, <2>6
<1>2. ASSUME NEW v \in VA,
             MunmapPage(v)
      PROVE  IInv'
  <2>. USE <1>2 DEF MunmapPage, Step, Lowest
  <2>0. cur \in AS /\ stat[cur] = "live"
    BY DEF LocalsOK
  <2>1. /\ FrameTypes' /\ FramesOK'
        /\ \A t, u \in Slot : WritableShared(t, u)' => WritableShared(t, u)
    BY <2>0, UnmapFrames DEF TypeOK
  <2>2. TypeOK'
    BY <2>0, <2>1 DEF TypeOK, Op, thrs
  <2>3. LocalsOK'
    BY <2>0, <2>1 DEF TypeOK, LocalsOK
  <2>4. UnusedEmpty'
    BY <2>0, <2>1 DEF TypeOK, FrameTypes, UnusedEmpty, LocalsOK, unmap_user_page
  <2>5. ChildOK'
    BY <2>0, <2>1 DEF TypeOK, FrameTypes, ChildOK, LocalsOK, unmap_user_page
  <2>6. WritableIsPrivate'
    BY <2>0, <2>1 DEF WritableIsPrivate, LocalsOK
  <2>. QED
    BY <2>1, <2>2, <2>3, <2>4, <2>5, <2>6
<1>3. CASE MunmapEnd
  <2>. USE <1>3 DEF MunmapEnd, End, Begin
  <2>1. /\ FrameTypes' /\ FramesOK'
        /\ \A t, u \in Slot : WritableShared(t, u)' => WritableShared(t, u)
    BY SameFrames DEF TypeOK
  <2>2. TypeOK'
    <3>0. cur \in AS /\ vmas[cur] \subseteq Vma
      BY DEF LocalsOK, TypeOK
    <3>1. PICK m \in vmas[cur] : vmas' = [vmas EXCEPT ![cur] =
            (vmas[cur] \ {m}) \cup {n \in Split(m, rng) : Pages(n) \cap rng = {}}]
      BY Zenon
    <3>2. \A v \in Pages(m) : /\ [m EXCEPT !.last = v] \in Vma
                              /\ [m EXCEPT !.first = v] \in Vma
      BY <3>0 DEF Pages, Vma
    <3>3. Split(m, rng) \subseteq Vma
      BY Zenon, <3>2 DEF Split
    <3>4. vmas' \in [AS -> SUBSET Vma]
      BY <3>0, <3>1, <3>3 DEF TypeOK
    <3>. QED
      BY <2>1, <3>4 DEF TypeOK, Op, thrs
  <2>3. LocalsOK'
    BY <2>1 DEF TypeOK, LocalsOK
  <2>4. UnusedEmpty'
    BY <2>1 DEF TypeOK, FrameTypes, UnusedEmpty, LocalsOK, ptes
  <2>5. ChildOK'
    BY <2>1 DEF TypeOK, FrameTypes, ChildOK, LocalsOK, ptes
  <2>6. WritableIsPrivate'
    BY <2>1 DEF WritableIsPrivate, LocalsOK
  <2>. QED
    BY <2>1, <2>2, <2>3, <2>4, <2>5, <2>6
<1>4. ASSUME NEW v \in VA,
             MunmapAbsent(v)
      PROVE  IInv'
  <2>. USE <1>4 DEF MunmapAbsent, Step, End, Begin
  <2>1. /\ FrameTypes' /\ FramesOK'
        /\ \A t, u \in Slot : WritableShared(t, u)' => WritableShared(t, u)
    BY SameFrames DEF TypeOK
  <2>2. TypeOK'
    BY <2>1 DEF TypeOK, Op, thrs
  <2>3. LocalsOK'
    BY <2>1 DEF TypeOK, LocalsOK
  <2>4. UnusedEmpty'
    BY <2>1 DEF TypeOK, FrameTypes, UnusedEmpty, LocalsOK, ptes
  <2>5. ChildOK'
    BY <2>1 DEF TypeOK, FrameTypes, ChildOK, LocalsOK, ptes
  <2>6. WritableIsPrivate'
    BY <2>1 DEF WritableIsPrivate, LocalsOK
  <2>. QED
    BY <2>1, <2>2, <2>3, <2>4, <2>5, <2>6
<1>. QED
  BY <1>1, <1>2, <1>3, <1>4 DEF Munmap

\* copy_to_user keeps it.
LEMMA CopyOutStep == ASSUME CountFacts, IInv, CopyOut PROVE IInv'
<1>. USE MemoryAssumption, SlotPair DEF IInv
<1>1. ASSUME NEW a \in AS, NEW r \in Ranges,
             CopyBegin(a, r)
      PROVE  IInv'
  <2>. USE <1>1 DEF CopyBegin, Begin, Idle
  <2>1. /\ FrameTypes' /\ FramesOK'
        /\ \A t, u \in Slot : WritableShared(t, u)' => WritableShared(t, u)
    BY SameFrames DEF TypeOK
  <2>2. TypeOK'
    BY <2>1 DEF TypeOK, Op, thrs, Ranges
  <2>3. LocalsOK'
    BY <2>1 DEF TypeOK, LocalsOK
  <2>4. UnusedEmpty'
    BY <2>1 DEF TypeOK, FrameTypes, UnusedEmpty, LocalsOK, ptes
  <2>5. ChildOK'
    BY <2>1 DEF TypeOK, FrameTypes, ChildOK, LocalsOK, ptes
  <2>6. WritableIsPrivate'
    BY <2>1 DEF WritableIsPrivate, LocalsOK
  <2>. QED
    BY <2>1, <2>2, <2>3, <2>4, <2>5, <2>6
<1>2. ASSUME NEW v \in VA, NEW p \in Page,
             CopyPage(v, p)
      PROVE  IInv'
  <2>. USE <1>2 DEF CopyPage, Step, Lowest
  <2>0. cur \in AS /\ stat[cur] = "live"
    BY DEF LocalsOK
  <2>1. /\ FrameTypes' /\ FramesOK'
        /\ \A t, u \in Slot : WritableShared(t, u)' => WritableShared(t, u)
    BY <2>0, CowFrames, SameFrames DEF TypeOK
  <2>2. TypeOK'
    BY <2>0, <2>1 DEF TypeOK, Op, thrs
  <2>3. LocalsOK'
    BY <2>0, <2>1 DEF TypeOK, LocalsOK
  <2>4. UnusedEmpty'
    <3>1. \A t \in Slot : frame[t] = None => frame'[t] = None
      BY Zenon, <2>0 DEF TypeOK, FrameTypes, FramesOK, PteOK, handle_cow_page_fault, ptes
    <3>. QED
      BY <3>1 DEF UnusedEmpty
  <2>5. ChildOK'
    BY DEF ChildOK
  <2>6. WritableIsPrivate'
    BY <2>0, <2>1 DEF WritableIsPrivate, LocalsOK
  <2>. QED
    BY <2>1, <2>2, <2>3, <2>4, <2>5, <2>6
<1>3. ASSUME NEW x \in Value,
             CopyEnd(x)
      PROVE  IInv'
  <2>. USE <1>3 DEF CopyEnd, End, Begin
  <2>0. /\ cur \in AS /\ rng \subseteq VA
        /\ \A p \in Page : owner[p] = "FREE" => \A v \in rng : frame[<<cur, v>>] # p
    BY DEF LocalsOK, TypeOK, FrameTypes, FramesOK, NoLeakNoDangling, Mappings
  <2>1. /\ FrameTypes' /\ FramesOK'
        /\ \A t, u \in Slot : WritableShared(t, u)' => WritableShared(t, u)
    <3>1. FrameTypes'
      BY DEF TypeOK, FrameTypes, ptes
    <3>2. \A q : Mappings(q)' = Mappings(q)
      BY DEF Mappings, ptes
    <3>3. PteOK' /\ RefsExact' /\ NoLeakNoDangling'
      BY <3>2 DEF FramesOK, PteOK, RefsExact, NoLeakNoDangling, ptes
    <3>4. FreeIsClear'
      BY Zenon, <2>0 DEF FramesOK, FreeIsClear
    <3>5. \A t, u \in Slot : WritableShared(t, u)' => WritableShared(t, u)
      BY DEF WritableShared, ptes
    <3>. QED
      BY <3>1, <3>3, <3>4, <3>5 DEF FramesOK
  <2>2. TypeOK'
    BY <2>0, <2>1 DEF TypeOK, Op, thrs
  <2>3. LocalsOK'
    BY <2>0, <2>1 DEF TypeOK, LocalsOK
  <2>4. UnusedEmpty'
    BY <2>0, <2>1 DEF TypeOK, FrameTypes, UnusedEmpty, LocalsOK, ptes
  <2>5. ChildOK'
    BY <2>0, <2>1 DEF TypeOK, FrameTypes, ChildOK, LocalsOK, ptes
  <2>6. WritableIsPrivate'
    BY <2>0, <2>1 DEF WritableIsPrivate, LocalsOK
  <2>. QED
    BY <2>1, <2>2, <2>3, <2>4, <2>5, <2>6
<1>4. CASE CopyFail
  <2>. USE <1>4 DEF CopyFail, End, Begin
  <2>1. /\ FrameTypes' /\ FramesOK'
        /\ \A t, u \in Slot : WritableShared(t, u)' => WritableShared(t, u)
    BY SameFrames DEF TypeOK
  <2>2. TypeOK'
    BY <2>1 DEF TypeOK, Op, thrs
  <2>3. LocalsOK'
    BY <2>1 DEF TypeOK, LocalsOK
  <2>4. UnusedEmpty'
    BY <2>1 DEF TypeOK, FrameTypes, UnusedEmpty, LocalsOK, ptes
  <2>5. ChildOK'
    BY <2>1 DEF TypeOK, FrameTypes, ChildOK, LocalsOK, ptes
  <2>6. WritableIsPrivate'
    BY <2>1 DEF WritableIsPrivate, LocalsOK
  <2>. QED
    BY <2>1, <2>2, <2>3, <2>4, <2>5, <2>6
<1>. QED
  BY <1>1, <1>2, <1>3, <1>4 DEF CopyOut

-----------------------------------------------------------------------------
\* Every step of the system keeps the inductive invariant.
LEMMA NextIInv == CountFacts /\ IInv /\ [Next]_vars => IInv'
<1>. SUFFICES ASSUME CountFacts, IInv, [Next]_vars PROVE IInv'
  OBVIOUS
<1>1. CASE UNCHANGED vars
  BY <1>1 DEF vars, IInv, TypeOK, FrameTypes, FramesOK, PteOK, RefsExact,
     NoLeakNoDangling, FreeIsClear, Mappings, LocalsOK, UnusedEmpty, ChildOK,
     WritableIsPrivate, WritableShared
<1>. QED
  BY <1>1, LoadStep, ForkStep, TeardownStep, RunStep, KernelStep, MmapStep,
     MunmapStep, CopyOutStep DEF Next

-----------------------------------------------------------------------------
\* How far an operation on a range has come: the pages mmap has mapped are
\* zero; copy_to_user only goes on to store once every page is writable.
RangeOK ==
    /\ op \in {"mmap", "rollback", "munmap", "copyout"} => todo \subseteq rng
    /\ op \notin {"mmap", "rollback", "munmap", "copyout"} => rng = {}
    /\ op = "mmap" => \A v \in rng \ todo : View(<<cur, v>>) = Zero
    /\ op = "copyout" => \A v \in rng :
         /\ perm[<<cur, v>>] \in {"rw", "cow"}
         /\ v \notin todo => perm[<<cur, v>>] = "rw"

-----------------------------------------------------------------------------
(* What the four PTE operations do to what slots read as.                  *)

\* A new frame shows in its slot only.
LEMMA MapNewView ==
    ASSUME FrameTypes, FramesOK, NEW s \in Slot, NEW p \in Page, NEW m, NEW x,
           MapNew(s, p, m, x)
    PROVE  /\ View(s) = None /\ View(s)' = x
           /\ \A t \in Slot : t # s => View(t)' = View(t)
<1>1. Mappings(p) = {} /\ None \notin Page
  BY MemoryAssumption DEF FramesOK, NoLeakNoDangling, MapNew
<1>. QED
  BY <1>1 DEF FrameTypes, MapNew, View, Mappings

\* Clearing the frame of the last mapping shows in no other slot.
LEMMA UnmapView ==
    ASSUME CountFacts, FrameTypes, FramesOK, NEW s \in Slot, unmap_user_page(s)
    PROVE  /\ View(s)' = None
           /\ \A t \in Slot : t # s => View(t)' = View(t)
<1>. USE DEF unmap_user_page, Release, FrameTypes
<1>1. View(s)' = None
  BY DEF View
<1>2. ASSUME NEW t \in Slot, t # s, frame[t] # None
      PROVE  content'[frame[t]] = content[frame[t]]
  <2>1. CASE frame[t] # frame[s]
    BY <1>2, <2>1
  <2>2. CASE frame[t] = frame[s]
    <3>1. s \in Mappings(frame[s]) /\ t \in Mappings(frame[s]) /\ frame[s] \in Page
      BY <1>2, <2>2 DEF Mappings
    <3>2. Cardinality(Mappings(frame[s])) # 1
      <4>1. Mappings(frame[s]) \in SUBSET Slot
        BY DEF Mappings
      <4>2. Mappings(frame[s]) # {s}
        BY <1>2, <3>1
      <4>3. \A S \in SUBSET Slot : s \in S /\ Cardinality(S) = 1 => S = {s}
        BY Zenon, OneSlot
      <4>. QED
        BY Zenon, <3>1, <4>1, <4>2, <4>3
    <3>3. refs[frame[s]] # 1
      BY <3>1, <3>2 DEF FramesOK, RefsExact
    <3>. QED
      BY <3>3
  <2>. QED
    BY <2>1, <2>2
<1>3. \A t \in Slot : t # s => View(t)' = View(t)
  BY <1>2 DEF View
<1>. QED
  BY <1>1, <1>3

\* A shared mapping shows in its slot only.
LEMMA MapSharedView ==
    ASSUME FrameTypes, NEW s \in Slot, NEW p, NEW m, MapShared(s, p, m)
    PROVE  \A t \in Slot : t # s => View(t)' = View(t)
BY DEF FrameTypes, MapShared, View

\* A copy-on-write fault shows nowhere.
LEMMA CowView ==
    ASSUME FrameTypes, FramesOK, NEW s \in Slot, NEW p \in Page,
           handle_cow_page_fault(s, p)
    PROVE  \A t \in Slot : View(t)' = View(t)
<1>. USE DEF FrameTypes
<1>1. CASE UNCHANGED <<content, frame>>
  BY <1>1 DEF View
<1>2. CASE owner[p] = "FREE" /\ content' = [content EXCEPT ![p] = content[frame[s]]]
           /\ frame' = [frame EXCEPT ![s] = p]
  <2>1. Mappings(p) = {} /\ None \notin Page
    BY <1>2, MemoryAssumption DEF FramesOK, NoLeakNoDangling
  <2>2. frame[s] # None /\ frame[s] \in Page /\ frame[s] # p
    BY <2>1 DEF FramesOK, PteOK, handle_cow_page_fault, Mappings
  <2>. QED
    BY <1>2, <2>1, <2>2 DEF View, Mappings
<1>. QED
  BY <1>1, <1>2 DEF handle_cow_page_fault

\* A step that touches neither frames nor PTEs shows nowhere.
LEMMA SameView ==
    ASSUME UNCHANGED <<phys, ptes>> PROVE \A t \in Slot : View(t)' = View(t)
BY DEF View, phys, ptes

-----------------------------------------------------------------------------
(* The range invariant                                                     *)

LEMMA InitRange == Init => RangeOK
BY DEF Init, RangeOK

\* Only mmap, munmap and copy_to_user work on a range.
LEMMA OtherRange ==
    ASSUME IInv, RangeOK, Load \/ Fork \/ Teardown \/ Run \/ Kernel PROVE RangeOK'
<1>1. op' \notin {"mmap", "rollback", "munmap", "copyout"}
  BY Zenon DEF Load, LoadBegin, LoadSegmentPage, LoadStack, LoadEnd, LoadedNew, LoadedExec, LoadFail,
         Fork, ForkBegin, ClonePage, CloneFail, CloneEnd, SealPage, ForkEnd, ForkFail,
         Teardown, ExitBegin, DestroyPage, DestroyEnd,
         Run, UserStore, CowFault, GrowFault, CreateThread, FreeThread, FreeStale, FreeBareThread,
         Kernel, KernelAlloc, KernelFree, Begin, End, Step, Idle
<1>2. rng' = {}
  BY Zenon DEF Load, LoadBegin, LoadSegmentPage, LoadStack, LoadEnd, LoadedNew, LoadedExec, LoadFail,
         Fork, ForkBegin, ClonePage, CloneFail, CloneEnd, SealPage, ForkEnd, ForkFail,
         Teardown, ExitBegin, DestroyPage, DestroyEnd,
         Run, UserStore, CowFault, GrowFault, CreateThread, FreeThread, FreeStale, FreeBareThread,
         Kernel, KernelAlloc, KernelFree, Begin, End, Step, Idle, RangeOK
<1>. QED
  BY <1>1, <1>2 DEF RangeOK

LEMMA MmapRange == ASSUME IInv, RangeOK, Mmap PROVE RangeOK'
<1>. USE MemoryAssumption, SlotPair
<1>1. ASSUME NEW a \in AS, NEW r \in Ranges, NEW w \in BOOLEAN, MmapBegin(a, r, w)
      PROVE  RangeOK'
  BY <1>1 DEF MmapBegin, Begin, RangeOK
<1>2. ASSUME NEW v \in VA, NEW p \in Page, MmapPage(v, p) PROVE RangeOK'
  <2>. USE <1>2 DEF MmapPage
  <2>0. PICK c \in AS : c = cur
    BY DEF IInv, LocalsOK
  <2>1. PICK m \in vmas[cur] :
          MapNew(<<c, v>>, p, IF m.w THEN "rw" ELSE "ro", content[p])
    BY <2>0
  <2>2. content[p] = Zero
    BY <2>1 DEF IInv, FramesOK, FreeIsClear, MapNew
  <2>3. /\ View(<<c, v>>)' = Zero
        /\ \A t \in Slot : t # <<c, v>> => View(t)' = View(t)
    BY <2>1, <2>2, MapNewView DEF IInv, TypeOK
  <2>4. \A y \in VA : View(<<c, y>>)' = IF y = v THEN Zero ELSE View(<<c, y>>)
    BY <2>3
  <2>. QED
    BY <2>0, <2>4 DEF RangeOK, Step, IInv, TypeOK
<1>3. ASSUME NEW v \in VA, RollbackPage(v) PROVE RangeOK'
  BY <1>3 DEF RollbackPage, Step, RangeOK
<1>4. CASE MmapEnd \/ MmapFail \/ RollbackEnd
  BY <1>4 DEF MmapEnd, MmapFail, RollbackEnd, End, Begin, RangeOK
<1>. QED
  BY <1>1, <1>2, <1>3, <1>4 DEF Mmap

LEMMA MunmapRange == ASSUME IInv, RangeOK, Munmap PROVE RangeOK'
BY Zenon DEF Munmap, MunmapBegin, MunmapPage, MunmapAbsent, MunmapEnd, Begin, End, Step, RangeOK

LEMMA CopyOutRange == ASSUME IInv, RangeOK, CopyOut PROVE RangeOK'
<1>. USE SlotPair
<1>1. ASSUME NEW a \in AS, NEW r \in Ranges, CopyBegin(a, r) PROVE RangeOK'
  BY <1>1 DEF CopyBegin, Begin, RangeOK, ptes
<1>2. ASSUME NEW v \in VA, NEW p \in Page, CopyPage(v, p) PROVE RangeOK'
  <2>. USE <1>2 DEF CopyPage, Step
  <2>0. cur \in AS /\ rng \subseteq VA /\ perm \in [Slot -> Perm] /\ v \in rng
    BY DEF IInv, LocalsOK, TypeOK, FrameTypes, RangeOK, Lowest
  <2>1. \A y \in rng : perm'[<<cur, y>>] = IF y = v THEN "rw" ELSE perm[<<cur, y>>]
    BY <2>0 DEF handle_cow_page_fault, ptes, RangeOK
  <2>. QED
    BY <2>0, <2>1 DEF RangeOK
<1>3. CASE CopyFail \/ \E x \in Value : CopyEnd(x)
  BY <1>3 DEF CopyFail, CopyEnd, End, Begin, RangeOK
<1>. QED
  BY <1>1, <1>2, <1>3 DEF CopyOut

LEMMA NextRange == IInv /\ RangeOK /\ [Next]_vars => RangeOK'
<1>1. ASSUME RangeOK, UNCHANGED vars PROVE RangeOK'
  BY <1>1 DEF vars, RangeOK, View
<1>. QED
  BY <1>1, OtherRange, MmapRange, MunmapRange, CopyOutRange DEF Next

-----------------------------------------------------------------------------
(* Every step is a step of PrivateMemory or changes nothing it shows.      *)

LEMMA SameCells ==
    ASSUME \A b \in AS, v \in VA : Cell(b, v)' = Cell(b, v) PROVE mem' = mem
BY DEF mem

LEMMA SetCells ==
    ASSUME NEW a \in AS, NEW r, NEW x,
           \A b \in AS, v \in VA :
             Cell(b, v)' = IF b = a /\ v \in r THEN x ELSE Cell(b, v)
    PROVE  Private!Set(a, r, x)
BY Zenon DEF mem, Private!Set

LEMMA EmptyCells ==
    ASSUME NEW a \in AS, \A v \in VA : Cell(a, v) = None
    PROVE  mem[a] = Private!Empty
BY DEF mem, Private!Empty

SimStep == [Private!Next]_<<mem, req>>

\* The request being served, before and after a step.
LEMMA ReqNow ==
    ASSUME op \in Op
    PROVE  /\ op \in {"clone", "seal"} => req = Private!Request("fork", cur, src, rng)
           /\ op \in {"mmap", "rollback"} => req = Private!Request("mmap", cur, src, rng)
           /\ op = "copyout" => req = Private!Request("copy", cur, src, rng)
           /\ op = "destroy" => req = Private!Request("destroy", cur, None, rng)
           /\ op = "free" => req = Private!Request("idle", None, src, rng)
           /\ op \in {"idle", "load", "munmap"} =>
                req = Private!Request(op, cur, src, rng)
BY DEF req, Op, Private!Request

LEMMA ReqNext ==
    ASSUME NEW o, NEW a, NEW b, NEW t, NEW r, Begin(o, a, b, t, r)
    PROVE  /\ o \in {"clone", "seal"} => req' = Private!Request("fork", a, b, r)
           /\ o \in {"mmap", "rollback"} => req' = Private!Request("mmap", a, b, r)
           /\ o = "copyout" => req' = Private!Request("copy", a, b, r)
           /\ o = "destroy" => req' = Private!Request("destroy", a, None, r)
           /\ o = "free" => req' = Private!Request("idle", None, b, r)
           /\ o \in {"idle", "load", "munmap"} => req' = Private!Request(o, a, b, r)
BY DEF req, Begin, Private!Request

LEMMA ReqSame == ASSUME UNCHANGED <<op, cur, src, rng>> PROVE req' = req
BY DEF req

LEMMA ReqEnd == ASSUME End PROVE req' = Private!NoRequest
BY ReqNext DEF End, Private!NoRequest

LEMMA Hidden == ASSUME mem' = mem, req' = req PROVE SimStep
BY DEF SimStep

\* The steps that only prepare an operation, undo one, or serve the kernel.
Silent ==
    \/ \E c \in AS, old \in AS \cup {None} : LoadBegin(c, old)
    \/ LoadFail
    \/ \E a, c \in AS : ForkBegin(a, c)
    \/ CloneFail \/ CloneEnd \/ ForkFail
    \/ DestroyEnd
    \/ \E a \in AS : FreeBareThread(a)
    \/ \E a \in AS, r \in Ranges, w \in BOOLEAN : MmapBegin(a, r, w)
    \/ MmapFail \/ RollbackEnd
    \/ \E a \in AS, r \in Ranges : MunmapBegin(a, r) \/ CopyBegin(a, r)
    \/ MunmapEnd \/ CopyFail
    \/ \E v \in VA : MunmapAbsent(v)

LEMMA SilentStep == ASSUME CountFacts, IInv, RangeOK, Silent PROVE mem' = mem
<1>1. \A t \in Slot : View(t)' = View(t)
  BY Zenon, SameView DEF Silent, LoadBegin, LoadFail, ForkBegin, CloneFail, CloneEnd,
     ForkFail, DestroyEnd, FreeBareThread, MmapBegin, MmapFail, RollbackEnd,
     MunmapBegin, CopyBegin, MunmapEnd, CopyFail, MunmapAbsent, Step
<1>2. \A a \in AS : stat'[a] = "live" <=> stat[a] = "live"
  <2>1. stat \in [AS -> {"unused", "building", "live", "dying"}]
    BY DEF IInv, TypeOK
  <2>2. CASE stat' = stat
    BY <2>2
  <2>3. CASE \E a \in AS : stat[a] = "unused" /\ stat' = [stat EXCEPT ![a] = "building"]
    BY <2>1, <2>3
  <2>4. CASE /\ cur \in AS /\ stat[cur] \in {"building", "dying"}
             /\ stat' = [stat EXCEPT ![cur] = "dying"]
                \/ stat' = [stat EXCEPT ![cur] = "unused"]
    BY <2>1, <2>4
  <2>5. op \in {"load", "clone", "seal", "destroy"} =>
          cur \in AS /\ stat[cur] \in {"building", "dying"}
    BY DEF IInv, LocalsOK
  <2>6. CASE LoadFail \/ CloneFail \/ ForkFail \/ DestroyEnd
    BY <2>4, <2>5, <2>6 DEF LoadFail, CloneFail, ForkFail, DestroyEnd
  <2>7. CASE \/ \E c \in AS, old \in AS \cup {None} : LoadBegin(c, old)
             \/ \E a, c \in AS : ForkBegin(a, c)
    BY <2>3, <2>7 DEF LoadBegin, ForkBegin
  <2>. QED
    BY Zenon, <2>2, <2>6, <2>7 DEF Silent, CloneEnd, FreeBareThread, MmapBegin,
       MmapFail, RollbackEnd, MunmapBegin, CopyBegin, MunmapEnd, CopyFail,
       MunmapAbsent
<1>3. \A a \in AS, v \in VA : Unfinished(a, v)' <=> Unfinished(a, v)
  <2>1. CASE op \notin {"mmap", "rollback"} /\ op' \notin {"mmap", "rollback"}
    BY <1>2, <2>1 DEF Unfinished
  <2>2. CASE \E a \in AS, r \in Ranges, w \in BOOLEAN : MmapBegin(a, r, w)
    BY <1>2, <2>2 DEF Unfinished, MmapBegin, Begin, Idle
  <2>3. CASE MmapFail
    <3>1. todo \subseteq rng
      BY <2>3 DEF RangeOK, MmapFail
    <3>. QED
      BY <1>2, <2>3, <3>1 DEF Unfinished, MmapFail, Begin
  <2>4. CASE RollbackEnd
    BY <1>2, <2>4 DEF Unfinished, RollbackEnd, End, Begin
  <2>. QED
    BY Zenon, <2>1, <2>2, <2>3, <2>4 DEF Silent, LoadBegin, LoadFail, ForkBegin,
       CloneFail, CloneEnd, ForkFail, DestroyEnd, FreeBareThread, MunmapBegin,
       CopyBegin, MunmapEnd, CopyFail, MunmapAbsent, Step, Begin, End, Idle
<1>. QED
  BY <1>1, <1>3, SlotPair, SameCells DEF Cell

\* An accepted request, a finished one, an abandoned one, or no change at all.
LEMMA AcceptSim ==
    ASSUME CountFacts, IInv, RangeOK, Silent, Idle, NEW k, NEW a \in AS, NEW b \in AS \cup {None},
           NEW r \in SUBSET VA, k \in {"load", "fork", "mmap", "munmap", "copy"},
           k \in {"load", "fork"} => stat[a] = "unused",
           req' = Private!Request(k, a, b, r)
    PROVE  SimStep
<1>1. mem' = mem
  BY SilentStep
<1>2. k \in {"load", "fork"} => mem[a] = Private!Empty
  BY EmptyCells DEF Cell, Unfinished
<1>3. Private!Idle
  BY ReqNow DEF Idle, Private!Idle, Private!Request, Op
<1>4. Private!Accept(k, a, b, r)
  BY <1>1, <1>2 DEF Private!Accept
<1>. QED
  BY <1>3, <1>4 DEF SimStep, Private!Next

LEMMA FinishSim ==
    ASSUME CountFacts, IInv, RangeOK, Silent, End,
           op \in {"mmap", "rollback", "munmap", "copyout", "destroy"}
    PROVE  SimStep
<1>1. req.kind \in {"mmap", "munmap", "copy", "destroy"}
  BY ReqNow DEF Private!Request, Op
<1>. QED
  BY <1>1, SilentStep, ReqEnd DEF SimStep, Private!Next, Private!Finish

LEMMA AbandonSim ==
    ASSUME CountFacts, IInv, RangeOK, Silent, op \in {"load", "clone", "seal"},
           NEW b, Begin("destroy", cur, b, {}, {})
    PROVE  SimStep
<1>1. req.kind \in {"load", "fork"} /\ req.as = cur
  BY ReqNow DEF Private!Request, Op
<1>2. req' = Private!Request("destroy", cur, None, {})
  BY ReqNext
<1>. QED
  BY <1>1, <1>2, SilentStep DEF SimStep, Private!Next, Private!Abandon

LEMMA LoadSim == ASSUME CountFacts, IInv, RangeOK, Load PROVE SimStep
<1>. USE MemoryAssumption, SlotPair
<1>1. ASSUME NEW c \in AS, NEW old \in AS \cup {None}, LoadBegin(c, old) PROVE SimStep
  <2>1. Silent /\ Idle /\ stat[c] = "unused"
    BY Zenon, <1>1 DEF Silent, LoadBegin
  <2>2. req' = Private!Request("load", c, old, {})
    BY <1>1, ReqNext DEF LoadBegin
  <2>. QED
    BY <2>1, <2>2, AcceptSim
<1>4. CASE LoadFail
  BY <1>4, AbandonSim DEF Silent, LoadFail
<1>2. CASE \/ \E v \in VA, p \in Page, x \in Value, w \in BOOLEAN :
                LoadSegmentPage(v, p, x, w)
           \/ \E low, v \in VA, p \in Page, x \in Value : LoadStack(low, v, p, x)
  <2>1. PICK c \in AS : c = cur /\ stat[c] = "building"
    BY Zenon, <1>2 DEF IInv, LocalsOK, LoadSegmentPage, LoadStack
  <2>2. \E v \in VA, p \in Page : \E m, x : MapNew(<<c, v>>, p, m, x)
    BY Zenon, <1>2, <2>1 DEF LoadSegmentPage, LoadStack
  <2>3. \A b \in AS, v \in VA : b # c => View(<<b, v>>)' = View(<<b, v>>)
    BY <2>2, MapNewView DEF IInv, TypeOK
  <2>4. op = "load" /\ UNCHANGED <<stat, op, cur, src, todo, rng>>
    BY Zenon, <1>2 DEF LoadSegmentPage, LoadStack
  <2>. QED
    BY <2>1, <2>3, <2>4, SameCells, ReqSame, Hidden DEF Cell, Unfinished
<1>3. ASSUME NEW v \in VA, NEW p \in Page, NEW x \in Value, LoadEnd(v, p, x)
      PROVE  SimStep
  <2>. USE <1>3 DEF LoadEnd, LoadedNew, LoadedExec
  <2>1. PICK c \in AS : c = cur /\ stat[c] = "building" /\ c # src
    BY DEF IInv, LocalsOK
  <2>2. PICK old \in AS \cup {None} : old = src
    BY DEF IInv, TypeOK
  <2>3. /\ \A b \in AS, y \in VA : b # c => View(<<b, y>>)' = View(<<b, y>>)
        /\ FrameTypes'
    BY <2>1, MapNewView, MapNewFrames DEF IInv, TypeOK
  <2>4. /\ stat' = [a \in AS |-> IF a = c THEN "live"
                                 ELSE IF a = old THEN "dying" ELSE stat[a]]
        /\ op = "load" /\ op' \in {"idle", "destroy"}
    BY <2>1, <2>2 DEF IInv, TypeOK, End, Begin
  <2>5. \A b \in AS, y \in VA :
          /\ b = c => Cell(b, y) = None
          /\ b = old => Cell(b, y)' = None
          /\ b # c /\ b # old => Cell(b, y)' = Cell(b, y)
    BY Zenon, <2>1, <2>2, <2>3, <2>4 DEF Cell, Unfinished
  <2>6. \A y \in VA : Cell(c, y)' \in Value \cup {None}
    BY <2>3 DEF Cell, View, FrameTypes
  <2>7. /\ Private!Serving("load") /\ req.as = c /\ req.src = old
        /\ req' = IF req.src = None THEN Private!NoRequest
                  ELSE Private!Request("destroy", req.src, None, {})
    <3>1. req = Private!Request("load", c, old, rng)
      BY <2>1, <2>2, ReqNow DEF Op
    <3>2. req' = IF src = None THEN Private!NoRequest
                 ELSE Private!Request("destroy", src, None, {})
      BY ReqEnd, ReqNext
    <3>. QED
      BY <2>2, <3>1, <3>2 DEF Private!Request, Private!Serving
  <2>8. mem'[c] \in [VA -> Value \cup {None}]
    BY <2>6 DEF mem
  <2>9. mem' = [a \in AS |-> IF a = c THEN mem'[c]
                             ELSE IF a = old THEN Private!Empty ELSE mem[a]]
    BY <2>1, <2>2, <2>5 DEF mem, Private!Empty
  <2>. QED
    BY <2>7, <2>8, <2>9 DEF SimStep, Private!Next, Private!Loaded
<1>. QED
  BY <1>1, <1>2, <1>3, <1>4 DEF Load

LEMMA ForkSim == ASSUME CountFacts, IInv, RangeOK, Fork PROVE SimStep
<1>. USE MemoryAssumption, SlotPair
<1>1. ASSUME NEW a \in AS, NEW c \in AS, ForkBegin(a, c) PROVE SimStep
  <2>1. Silent /\ Idle /\ stat[c] = "unused"
    BY Zenon, <1>1 DEF Silent, ForkBegin
  <2>2. req' = Private!Request("fork", c, a, {})
    BY <1>1, ReqNext DEF ForkBegin
  <2>. QED
    BY <2>1, <2>2, AcceptSim
<1>5. CASE CloneFail
  BY <1>5, AbandonSim DEF Silent, CloneFail
<1>6. CASE ForkFail
  BY <1>6, AbandonSim DEF Silent, ForkFail
<1>7. CASE CloneEnd
  <2>1. rng = {} /\ rng' = {} /\ req' = req
    BY <1>7, ReqNow, ReqNext DEF CloneEnd, RangeOK, Begin, Op
  <2>. QED
    BY <1>7, <2>1, SilentStep, Hidden DEF Silent
<1>2. ASSUME NEW v \in VA, ClonePage(v) PROVE SimStep
  <2>1. PICK c \in AS : c = cur /\ stat[c] = "building"
    BY <1>2 DEF IInv, LocalsOK, ClonePage
  <2>2. \A b \in AS, y \in VA : b # c => View(<<b, y>>)' = View(<<b, y>>)
    BY <1>2, <2>1, MapSharedView DEF IInv, TypeOK, ClonePage
  <2>. QED
    BY <1>2, <2>1, <2>2, SameCells, ReqSame, Hidden DEF Cell, Unfinished, ClonePage, Step
<1>3. ASSUME NEW v \in VA, SealPage(v) PROVE SimStep
  <2>1. \A t \in Slot : View(t)' = View(t)
    BY <1>3 DEF SealPage, View, phys
  <2>. QED
    BY <1>3, <2>1, SameCells, ReqSame, Hidden DEF Cell, Unfinished, SealPage, Step
<1>4. CASE ForkEnd
  <2>. USE <1>4 DEF ForkEnd, End, Begin
  <2>1. PICK c \in AS, a \in AS : c = cur /\ a = src /\ stat[c] = "building"
                                  /\ stat[a] = "live" /\ c # a
    BY DEF IInv, LocalsOK
  <2>2. /\ \A t \in Slot : View(t)' = View(t)
        /\ \A v \in VA : View(<<c, v>>) = View(<<a, v>>)
    BY <2>1, SameView DEF IInv, ChildOK, View
  <2>3. \A b \in AS, v \in VA :
          Cell(b, v)' = IF b = c THEN Cell(a, v) ELSE Cell(b, v)
    BY Zenon, <2>1, <2>2 DEF Cell, Unfinished, IInv, TypeOK
  <2>4. Private!Serving("fork") /\ req.as = c /\ req.src = a
    BY <2>1, ReqNow DEF Op, Private!Request, Private!Serving
  <2>5. mem' = [mem EXCEPT ![c] = mem[a]]
    BY Zenon, <2>3 DEF mem
  <2>. QED
    BY <2>4, <2>5, ReqEnd DEF SimStep, Private!Next, Private!Forked
<1>. QED
  BY <1>1, <1>2, <1>3, <1>4, <1>5, <1>6, <1>7 DEF Fork

LEMMA TeardownSim == ASSUME CountFacts, IInv, RangeOK, Teardown PROVE SimStep
<1>. USE MemoryAssumption, SlotPair
<1>1. ASSUME NEW a \in AS, ExitBegin(a) PROVE SimStep
  <2>1. \A t \in Slot : View(t)' = View(t)
    BY <1>1, SameView DEF ExitBegin
  <2>2. \A b \in AS, v \in VA : Cell(b, v)' = IF b = a THEN None ELSE Cell(b, v)
    BY Zenon, <1>1, <2>1 DEF Cell, Unfinished, ExitBegin, Begin, Idle, IInv, TypeOK
  <2>3. mem' = [mem EXCEPT ![a] = Private!Empty]
    BY Zenon, <2>2 DEF mem, Private!Empty
  <2>4. Private!Idle /\ req' = Private!Request("destroy", a, None, {})
    BY <1>1, ReqNow, ReqNext DEF ExitBegin, Idle, Private!Idle, Private!Request, Op
  <2>. QED
    BY Zenon, <2>3, <2>4 DEF SimStep, Private!Next, Private!Exit
<1>2. ASSUME NEW v \in VA, DestroyPage(v) PROVE SimStep
  <2>1. PICK c \in AS : c = cur /\ stat[c] = "dying"
    BY <1>2 DEF IInv, LocalsOK, DestroyPage
  <2>2. \A b \in AS, y \in VA : b # c => View(<<b, y>>)' = View(<<b, y>>)
    BY <1>2, <2>1, UnmapView DEF IInv, TypeOK, DestroyPage
  <2>. QED
    BY <1>2, <2>1, <2>2, SameCells, ReqSame, Hidden DEF Cell, Unfinished, DestroyPage
<1>3. CASE DestroyEnd
  BY <1>3, FinishSim DEF Silent, DestroyEnd
<1>. QED
  BY <1>1, <1>2, <1>3 DEF Teardown

LEMMA ExtendOne ==
    ASSUME NEW a \in AS, NEW v \in VA, Cell(a, v) = None, Idle, req' = req,
           \A b \in AS, y \in VA :
             Cell(b, y)' = IF b = a /\ y \in {v} THEN Zero ELSE Cell(b, y)
    PROVE  SimStep
<1>1. Private!Set(a, {v}, Zero)
  BY SetCells
<1>2. mem[a][v] = None /\ Private!Idle
  BY ReqNow DEF mem, Idle, Private!Idle, Private!Request, Op
<1>. QED
  BY <1>1, <1>2 DEF SimStep, Private!Next, Private!Extend

LEMMA ShrinkOne ==
    ASSUME NEW a \in AS, NEW v \in VA, op \in {"idle", "free"}, req' = req,
           \A b \in AS, y \in VA :
             Cell(b, y)' = IF b = a /\ y \in {v} THEN None ELSE Cell(b, y)
    PROVE  SimStep
<1>1. Private!Set(a, {v}, None)
  BY SetCells
<1>2. Private!Idle
  BY ReqNow DEF Idle, Private!Idle, Private!Request, Op
<1>. QED
  BY <1>1, <1>2 DEF SimStep, Private!Next, Private!Shrink

LEMMA RunSim == ASSUME CountFacts, IInv, RangeOK, Run PROVE SimStep
<1>. USE MemoryAssumption, SlotPair
<1>1. ASSUME NEW s \in Slot, NEW x \in Value, UserStore(s, x)
      PROVE  SimStep
  <2>. USE <1>1 DEF UserStore, Idle
  <2>1. frame[s] \in Page /\ frame[s] # None
    BY DEF IInv, TypeOK, FrameTypes, FramesOK, PteOK
  <2>2. \A t \in Slot : t # s => frame[t] # frame[s]
    BY <2>1 DEF IInv, WritableIsPrivate, WritableShared
  <2>3. \A t \in Slot : View(t)' = IF t = s THEN x ELSE View(t)
    BY <2>1, <2>2 DEF View, IInv, TypeOK, FrameTypes, ptes
  <2>4. /\ Cell(s[1], s[2]) # None
        /\ \A b \in AS, y \in VA :
             Cell(b, y)' = IF b = s[1] /\ y \in {s[2]} THEN x ELSE Cell(b, y)
    <3>1. \A b \in AS, y \in VA : <<b, y>> = s <=> b = s[1] /\ y = s[2]
      OBVIOUS
    <3>2. content[frame[s]] \in Value
      BY <2>1 DEF IInv, TypeOK, FrameTypes
    <3>. QED
      BY <2>1, <2>3, <3>1, <3>2 DEF Cell, Unfinished, View
  <2>5. Private!Set(s[1], {s[2]}, x)
    BY <2>4, SetCells
  <2>6. mem[s[1]][s[2]] # None
    BY <2>4 DEF mem
  <2>7. Private!Idle /\ req' = req
    BY ReqNow, ReqSame DEF Idle, Private!Idle, Private!Request, Op
  <2>. QED
    BY Zenon, <2>5, <2>6, <2>7 DEF SimStep, Private!Next, Private!Store
<1>2. ASSUME NEW s \in Slot, NEW p \in Page, CowFault(s, p) PROVE SimStep
  <2>1. \A t \in Slot : View(t)' = View(t)
    BY <1>2, CowView DEF IInv, TypeOK, CowFault
  <2>. QED
    BY <1>2, <2>1, SameCells, ReqSame, Hidden DEF Cell, Unfinished, CowFault
<1>3. ASSUME NEW s \in Slot, NEW p \in Page, GrowFault(s, p) \/ CreateThread(s, p)
      PROVE  SimStep
  <2>1. /\ MapNew(s, p, "rw", content[p]) /\ op = "idle" /\ stat[s[1]] = "live"
        /\ UNCHANGED <<stat, op, cur, src, todo, rng>>
    BY <1>3 DEF GrowFault, CreateThread, Idle
  <2>2. content[p] = Zero
    BY <2>1 DEF MapNew, IInv, FramesOK, FreeIsClear
  <2>3. /\ View(s) = None
        /\ \A t \in Slot : View(t)' = IF t = s THEN Zero ELSE View(t)
    BY <2>1, <2>2, MapNewView DEF IInv, TypeOK
  <2>4. /\ Cell(s[1], s[2]) = None
        /\ \A b \in AS, y \in VA :
             Cell(b, y)' = IF b = s[1] /\ y \in {s[2]} THEN Zero ELSE Cell(b, y)
    <3>1. \A b \in AS, y \in VA : <<b, y>> = s <=> b = s[1] /\ y = s[2]
      OBVIOUS
    <3>. QED
      BY <2>1, <2>3, <3>1 DEF Cell, Unfinished
  <2>. QED
    BY <2>1, <2>4, ExtendOne, ReqSame DEF Idle
<1>4. ASSUME NEW s \in Slot, FreeThread(s) PROVE SimStep
  <2>1. \A t \in Slot : View(t)' = IF t = s THEN None ELSE View(t)
    BY <1>4, UnmapView DEF IInv, TypeOK, FreeThread
  <2>2. \A b \in AS, y \in VA :
          Cell(b, y)' = IF b = s[1] /\ y \in {s[2]} THEN None ELSE Cell(b, y)
    <3>1. \A b \in AS, y \in VA : <<b, y>> = s <=> b = s[1] /\ y = s[2]
      OBVIOUS
    <3>2. op \in {"idle", "free"} /\ op' = "idle" /\ stat' = stat
      BY <1>4 DEF FreeThread, Idle, End, Begin
    <3>3. \A b, y : Unfinished(b, y)' <=> Unfinished(b, y)
      BY <3>2 DEF Unfinished
    <3>. QED
      BY Zenon, <2>1, <3>1, <3>3 DEF Cell
  <2>3. op \in {"idle", "free"} /\ req = Private!NoRequest
    BY <1>4, ReqNow DEF FreeThread, Idle, Op, IInv, LocalsOK, RangeOK,
       Private!NoRequest
  <2>4. req' = Private!NoRequest
    BY <1>4, ReqEnd DEF FreeThread
  <2>. QED
    BY Zenon, <2>2, <2>3, <2>4, ShrinkOne
<1>6. ASSUME NEW s \in Slot, FreeStale(s) PROVE SimStep
  <2>1. \A t \in Slot : View(t)' = IF t = s THEN None ELSE View(t)
    <3>1. CASE unmap_user_page(s)
      BY <3>1, UnmapView DEF IInv, TypeOK
    <3>2. CASE frame[s] = None /\ UNCHANGED <<phys, ptes>>
      BY <3>2, SameView DEF View, ptes
    <3>. QED
      BY <1>6, <3>1, <3>2 DEF FreeStale
  <2>2. \A b \in AS, y \in VA :
          Cell(b, y)' = IF b = s[1] /\ y \in {s[2]} THEN None ELSE Cell(b, y)
    <3>1. \A b \in AS, y \in VA : <<b, y>> = s <=> b = s[1] /\ y = s[2]
      OBVIOUS
    <3>2. op = "idle" /\ op' = "free" /\ stat' = stat
      BY <1>6 DEF FreeStale, Idle, Begin
    <3>3. \A b, y : Unfinished(b, y)' <=> Unfinished(b, y)
      BY <3>2 DEF Unfinished
    <3>. QED
      BY Zenon, <2>1, <3>1, <3>3 DEF Cell
  <2>3. op = "idle" /\ req = Private!NoRequest
    BY <1>6, ReqNow DEF FreeStale, Idle, Op, IInv, LocalsOK, RangeOK,
       Private!NoRequest
  <2>4. req' = Private!NoRequest
    BY <1>6, ReqNext DEF FreeStale, Private!NoRequest
  <2>. QED
    BY Zenon, <2>2, <2>3, <2>4, ShrinkOne
<1>5. CASE \E a \in AS : FreeBareThread(a)
  BY <1>5, SilentStep, ReqSame, Hidden DEF Silent, FreeBareThread
<1>. QED
  BY <1>1, <1>2, <1>3, <1>4, <1>5, <1>6 DEF Run

LEMMA KernelSim == ASSUME CountFacts, IInv, RangeOK, Kernel PROVE SimStep
<1>1. PICK p \in Page : /\ owner[p] # "USER" /\ UNCHANGED <<ptes, stat, op, cur, src, todo, rng>>
                        /\ \E x \in Value : content' = [content EXCEPT ![p] = x]
  BY MemoryAssumption DEF Kernel, KernelAlloc, KernelFree
<1>2. Mappings(p) = {}
  BY <1>1 DEF IInv, FramesOK, NoLeakNoDangling
<1>3. \A t \in Slot : View(t)' = View(t)
  BY <1>1, <1>2 DEF View, Mappings, IInv, TypeOK, FrameTypes, ptes
<1>. QED
  BY <1>1, <1>3, SlotPair, SameCells, ReqSame, Hidden DEF Cell, Unfinished

LEMMA MmapSim == ASSUME CountFacts, IInv, RangeOK, Mmap PROVE SimStep
<1>. USE MemoryAssumption, SlotPair
<1>1. ASSUME NEW a \in AS, NEW r \in Ranges, NEW w \in BOOLEAN, MmapBegin(a, r, w)
      PROVE  SimStep
  <2>1. Silent /\ Idle /\ r \in SUBSET VA
    BY Zenon, <1>1 DEF Silent, MmapBegin, Ranges
  <2>2. req' = Private!Request("mmap", a, None, r)
    BY <1>1, ReqNext DEF MmapBegin
  <2>. QED
    BY <2>1, <2>2, AcceptSim
<1>5. CASE RollbackEnd
  BY <1>5, FinishSim DEF Silent, RollbackEnd
<1>6. CASE MmapFail
  <2>1. req' = req
    BY <1>6, ReqNow, ReqNext DEF MmapFail, IInv, LocalsOK, Op
  <2>. QED
    BY <1>6, <2>1, SilentStep, Hidden DEF Silent
<1>2. ASSUME NEW v \in VA, NEW p \in Page, MmapPage(v, p) PROVE SimStep
  <2>. USE <1>2 DEF MmapPage, Step, Lowest
  <2>1. PICK c \in AS : c = cur /\ stat[c] = "live" /\ v \in rng
    BY DEF IInv, LocalsOK, RangeOK
  <2>2. /\ View(<<c, v>>) = None
        /\ \A t \in Slot : t # <<c, v>> => View(t)' = View(t)
    BY <2>1, MapNewView DEF IInv, TypeOK
  <2>. QED
    BY <2>1, <2>2, SameCells, ReqSame, Hidden DEF Cell, Unfinished
<1>3. CASE MmapEnd
  <2>. USE <1>3 DEF MmapEnd, End, Begin
  <2>1. PICK c \in AS, r \in SUBSET VA : c = cur /\ r = rng /\ stat[c] = "live"
    BY DEF IInv, LocalsOK, TypeOK
  <2>2. \A t \in Slot : View(t)' = View(t)
    BY SameView
  <2>3. \A v \in r : View(<<c, v>>) = Zero /\ Cell(c, v) = None
    BY <2>1 DEF RangeOK, Cell, Unfinished
  <2>4. \A b \in AS, y \in VA :
          Cell(b, y)' = IF b = c /\ y \in r THEN Zero ELSE Cell(b, y)
    BY Zenon, <2>1, <2>2, <2>3 DEF Cell, Unfinished
  <2>5. Private!Set(c, r, Zero)
    BY <2>4, SetCells
  <2>6. \A v \in r : mem[c][v] = None
    BY Zenon, <2>1, <2>3 DEF mem
  <2>7. Private!Serving("mmap") /\ req.as = c /\ req.rng = r
    BY <2>1, ReqNow DEF Op, Private!Request, Private!Serving
  <2>. QED
    BY <2>5, <2>6, <2>7, ReqEnd DEF SimStep, Private!Next, Private!Mapped
<1>4. ASSUME NEW v \in VA, RollbackPage(v) PROVE SimStep
  <2>. USE <1>4 DEF RollbackPage, Step, Lowest
  <2>1. PICK c \in AS : c = cur
    BY DEF IInv, LocalsOK
  <2>2. \A t \in Slot : View(t)' = IF t = <<c, v>> THEN None ELSE View(t)
    BY <2>1, UnmapView DEF IInv, TypeOK
  <2>. QED
    BY <2>1, <2>2, SameCells, ReqSame, Hidden DEF Cell, Unfinished
<1>. QED
  BY <1>1, <1>2, <1>3, <1>4, <1>5, <1>6 DEF Mmap

LEMMA MunmapSim == ASSUME CountFacts, IInv, RangeOK, Munmap PROVE SimStep
<1>. USE MemoryAssumption, SlotPair
<1>1. ASSUME NEW a \in AS, NEW r \in Ranges, MunmapBegin(a, r) PROVE SimStep
  <2>1. Silent /\ Idle /\ r \in SUBSET VA
    BY <1>1 DEF Silent, MunmapBegin, Ranges
  <2>2. req' = Private!Request("munmap", a, None, r)
    BY <1>1, ReqNext DEF MunmapBegin
  <2>. QED
    BY <2>1, <2>2, AcceptSim
<1>3. CASE MunmapEnd
  BY Zenon, <1>3, FinishSim DEF Silent, MunmapEnd
<1>2. ASSUME NEW v \in VA, MunmapPage(v) PROVE SimStep
  <2>. USE <1>2 DEF MunmapPage, Step
  <2>1. PICK c \in AS : c = cur /\ stat[c] = "live"
    BY DEF IInv, LocalsOK
  <2>2. \A t \in Slot : View(t)' = IF t = <<c, v>> THEN None ELSE View(t)
    BY <2>1, UnmapView DEF IInv, TypeOK
  <2>3. \A b \in AS, y \in VA :
          Cell(b, y)' = IF b = c /\ y \in {v} THEN None ELSE Cell(b, y)
    BY Zenon, <2>1, <2>2 DEF Cell, Unfinished
  <2>4. /\ Private!Serving("munmap") /\ req.as = c /\ req.rng = rng /\ req' = req
        /\ v \in rng
    BY <2>1, ReqNow, ReqSame DEF Op, Private!Request, Private!Serving, RangeOK, Lowest
  <2>5. Private!Set(c, {v}, None)
    BY <2>3, SetCells
  <2>. QED
    BY Zenon, <2>4, <2>5 DEF SimStep, Private!Next, Private!Unmapping
<1>4. ASSUME NEW v \in VA, MunmapAbsent(v) PROVE SimStep
  <2>1. Silent /\ op = "munmap"
    BY <1>4 DEF Silent, MunmapAbsent
  <2>2. CASE Step(v)
    BY <2>1, <2>2, SilentStep, ReqSame, Hidden DEF Step
  <2>3. CASE End
    BY <2>1, <2>3, FinishSim
  <2>. QED
    BY <1>4, <2>2, <2>3 DEF MunmapAbsent
<1>. QED
  BY <1>1, <1>2, <1>3, <1>4 DEF Munmap

LEMMA CopyOutSim == ASSUME CountFacts, IInv, RangeOK, CopyOut PROVE SimStep
<1>. USE MemoryAssumption, SlotPair
<1>1. ASSUME NEW a \in AS, NEW r \in Ranges, CopyBegin(a, r) PROVE SimStep
  <2>1. Silent /\ Idle /\ r \in SUBSET VA
    BY <1>1 DEF Silent, CopyBegin, Ranges
  <2>2. req' = Private!Request("copy", a, None, r)
    BY <1>1, ReqNext DEF CopyBegin
  <2>. QED
    BY <2>1, <2>2, AcceptSim
<1>4. CASE CopyFail
  BY <1>4, FinishSim DEF Silent, CopyFail
<1>2. ASSUME NEW v \in VA, NEW p \in Page, CopyPage(v, p) PROVE SimStep
  <2>0. cur \in AS
    BY <1>2 DEF IInv, LocalsOK, CopyPage
  <2>1. \A t \in Slot : View(t)' = View(t)
    BY <1>2, <2>0, CowView, SameView DEF IInv, TypeOK, CopyPage
  <2>. QED
    BY <1>2, <2>1, SameCells, ReqSame, Hidden DEF Cell, Unfinished, CopyPage, Step
<1>3. ASSUME NEW x \in Value, CopyEnd(x) PROVE SimStep
  <2>. USE <1>3 DEF CopyEnd, End, Begin
  <2>1. PICK c \in AS, r \in SUBSET VA : c = cur /\ r = rng /\ stat[c] = "live"
    BY DEF IInv, LocalsOK, TypeOK
  <2>2. \A v \in r : /\ perm[<<c, v>>] = "rw" /\ frame[<<c, v>>] \in Page
                     /\ frame[<<c, v>>] # None
    BY <2>1 DEF RangeOK, IInv, TypeOK, FrameTypes, FramesOK, PteOK
  <2>3. \A v \in r, t \in Slot : t # <<c, v>> => frame[t] # frame[<<c, v>>]
    BY <2>2 DEF IInv, WritableIsPrivate, WritableShared
  <2>4. \A b \in AS, y \in VA :
          View(<<b, y>>)' = IF b = c /\ y \in r THEN x ELSE View(<<b, y>>)
    <3>. SUFFICES ASSUME NEW b \in AS, NEW y \in VA
                  PROVE  View(<<b, y>>)' = IF b = c /\ y \in r THEN x ELSE View(<<b, y>>)
      BY Zenon
    <3>. DEFINE f == frame[<<b, y>>]
    <3>1. /\ frame' = frame /\ f \in Page \cup {None}
          /\ f # None => content'[f] = IF \E v \in r : frame[<<c, v>>] = f
                                       THEN x ELSE content[f]
      BY Zenon, <2>1 DEF IInv, TypeOK, FrameTypes, ptes
    <3>2. CASE b = c /\ y \in r
      BY <2>2, <3>1, <3>2 DEF View
    <3>3. CASE ~(b = c /\ y \in r)
      <4>1. \A v \in r : <<b, y>> # <<c, v>>
        BY <3>3
      <4>2. ~\E v \in r : frame[<<c, v>>] = f
        BY Zenon, <2>3, <4>1
      <4>. QED
        BY <3>1, <3>3, <4>2 DEF View
    <3>. QED
      BY <3>2, <3>3
  <2>5. \A b \in AS, y \in VA :
          Cell(b, y)' = IF b = c /\ y \in r THEN x ELSE Cell(b, y)
    BY Zenon, <2>1, <2>4 DEF Cell, Unfinished
  <2>6. Private!Set(c, r, x)
    BY <2>5, SetCells
  <2>7. \A v \in r : mem[c][v] # None
    BY <2>1, <2>2 DEF mem, Cell, Unfinished, View, IInv, TypeOK, FrameTypes
  <2>8. Private!Serving("copy") /\ req.as = c /\ req.rng = r
    BY <2>1, ReqNow DEF Op, Private!Request, Private!Serving
  <2>. QED
    BY <2>6, <2>7, <2>8, ReqEnd DEF SimStep, Private!Next, Private!Copied
<1>. QED
  BY <1>1, <1>2, <1>3, <1>4 DEF CopyOut
=============================================================================
