----------------------------- MODULE UserMemory -----------------------------
(***************************************************************************)
(* User memory of the kernel: page frames with an owner and a mapping      *)
(* count (memory.c), user page tables, the virtual memory areas (VMAs) of  *)
(* a process (process.c), copy-on-write fork, the page-fault handlers,     *)
(* anonymous mmap and munmap, copy_to_user, program loading and exec, and  *)
(* the teardown of an address space.                                       *)
(*                                                                         *)
(* The machine has one CPU.  Each of these operations runs with interrupts *)
(* off (system calls and faults enter with IF clear, address_space_lock    *)
(* is a cli spinlock), so at most one is in progress.  The loops inside    *)
(* them can fail half-way: one iteration of a loop is one step, and the    *)
(* variables op, cur, src, todo and rng are the handler's local state.     *)
(*                                                                         *)
(* A virtual page of an address space is a slot <<as, page number>>.  The  *)
(* PTE of a slot is frame[slot] and perm[slot]: "rw" is P|US|RW, "ro" is   *)
(* P|US, "cow" is P|US|COW with RW clear.  The upper levels of the page    *)
(* table are left to the allocator: map_page may fail at any call.         *)
(***************************************************************************)
EXTENDS Integers, FiniteSets

CONSTANTS
    Page,       \* the page frames of the physical memory manager
    AS,         \* address spaces (values of cr3)
    VA,         \* user virtual page numbers
    Value,      \* what a page can contain
    Zero,       \* the contents left by memset(page, 0, PAGE_SIZE)
    MaxRefs,    \* largest mapping count of a frame (UINT32_MAX in the code)
    Calls,      \* what happens besides exec, exit, faults and threads:
                \* any of "segment" (of a loaded file), "fork", "kernel",
                \* "mmap", "munmap", "copyout"
    None        \* no frame, no address space

ASSUME MemoryAssumption ==
    /\ IsFiniteSet(AS)
    /\ VA \subseteq Nat /\ IsFiniteSet(VA)
    /\ Zero \in Value
    /\ MaxRefs \in Nat \ {0}
    /\ None \notin Page /\ None \notin AS /\ None \notin Value

VARIABLES
    owner,      \* page_owner[]: "FREE", "USER", or "KERNEL" for the others
    refs,       \* page_refcount[]: user mappings of the frame
    content,    \* the bytes in the frame
    frame,      \* the frame a slot maps, or None
    perm,       \* the access bits of a slot: "none", "ro", "rw", "cow"
    thread_pages,   \* slots thread objects own: one stack or TLS page each
    stacks,     \* user_stack_base: the slots thread objects record as a stack
    fresh,      \* the pages below next_thread_stack_top
    bare,       \* address spaces whose forked first thread, which owns no
                \* page, still exists
    vmas,       \* vma_head: the VMAs of an address space, [first, last, kind, w]
    stat,       \* "unused", "building", "live", "dying"
    op, cur, src, todo, rng    \* the operation in progress and its locals

phys == <<owner, refs, content>>
ptes == <<frame, perm>>
thrs == <<thread_pages, stacks, fresh, bare>>
vars == <<owner, refs, content, frame, perm, thread_pages, stacks, fresh,
          bare, vmas, stat, op, cur, src, todo, rng>>

Slot == AS \X VA
Perm == {"none", "ro", "rw", "cow"}
Vma == [first : VA, last : VA, kind : {"file", "anon", "grow"}, w : BOOLEAN]
Op == {"idle", "load", "clone", "seal", "destroy", "mmap", "rollback",
       "munmap", "copyout", "free"}

Pages(m) == {v \in VA : m.first <= v /\ v <= m.last}
Ranges == {r \in SUBSET VA : r # {} /\ \A x, z \in r, y \in VA :
                                 x <= y /\ y <= z => y \in r}
Lowest(v, s) == v \in s /\ \A w \in s : v <= w
Mapped(a) == {v \in VA : frame[<<a, v>>] # None}
Mappings(p) == {s \in Slot : frame[s] = p}

\* Mutant of vma_overlaps: only the first page of a VMA is compared.
vma_overlaps_first(a, r) == \E m \in vmas[a] : m.first \in r

\* vma_overlaps: some VMA of a has a page in r.
vma_overlaps(a, r) == \E m \in vmas[a] : Pages(m) \cap r # {}

\* The threads of a, and process_is_single_threaded.
Threads(a) == {s \in thread_pages : s[1] = a} \cup ({a} \cap bare)
single_threaded(a) == \A s, t \in Threads(a) : s = t

Init ==
    /\ owner = [p \in Page |-> "FREE"]
    /\ refs = [p \in Page |-> 0]
    /\ content = [p \in Page |-> Zero]
    /\ frame = [s \in Slot |-> None]
    /\ perm = [s \in Slot |-> "none"]
    /\ thread_pages = {} /\ stacks = {} /\ bare = {}
    /\ fresh = [a \in AS |-> VA]
    /\ vmas = [a \in AS |-> {}]
    /\ stat = [a \in AS |-> "unused"]
    /\ op = "idle" /\ cur = None /\ src = None /\ todo = {} /\ rng = {}

-----------------------------------------------------------------------------
(* Frames and PTEs: what one call does.                                    *)

\* alloc_page_owned(PAGE_OWNER_USER), the caller's fill of the frame with x,
\* and map_page of it at slot s.  Neither call clears the frame.
MapNew(s, p, m, x) ==
    /\ owner[p] = "FREE" /\ frame[s] = None
    /\ owner' = [owner EXCEPT ![p] = "USER"]
    /\ refs' = [refs EXCEPT ![p] = 1]
    /\ content' = [content EXCEPT ![p] = x]
    /\ frame' = [frame EXCEPT ![s] = p]
    /\ perm' = [perm EXCEPT ![s] = m]

\* Mutant of Release: the frame is freed one mapping too early.
Release_early(p) ==
    /\ refs' = [refs EXCEPT ![p] = @ - 1]
    /\ owner' = IF refs[p] <= 2 THEN [owner EXCEPT ![p] = "FREE"] ELSE owner
    /\ content' = IF refs[p] <= 2 THEN [content EXCEPT ![p] = Zero] ELSE content

\* pmm_release_user_mapping: the last mapping clears and frees the frame.
Release(p) ==
    /\ refs' = [refs EXCEPT ![p] = @ - 1]
    /\ owner' = IF refs[p] = 1 THEN [owner EXCEPT ![p] = "FREE"] ELSE owner
    /\ content' = IF refs[p] = 1 THEN [content EXCEPT ![p] = Zero] ELSE content

\* unmap_user_page of a present slot, and one iteration of the loop of
\* destroy_user_address_space.
unmap_user_page(s) ==
    /\ frame[s] # None
    /\ frame' = [frame EXCEPT ![s] = None]
    /\ perm' = [perm EXCEPT ![s] = "none"]
    /\ Release(frame[s])

\* map_page of a frame another address space already maps: the mapping
\* count must not be saturated (pmm_acquire_user_mapping).
MapShared(s, p, m) ==
    /\ frame[s] = None /\ refs[p] < MaxRefs
    /\ frame' = [frame EXCEPT ![s] = p]
    /\ perm' = [perm EXCEPT ![s] = m]
    /\ refs' = [refs EXCEPT ![p] = @ + 1]
    /\ UNCHANGED <<owner, content>>

\* Mutant of handle_cow_page_fault: two sharers are taken for one.
handle_cow_shared(s, p) ==
    /\ perm[s] = "cow" /\ refs[frame[s]] <= 2
    /\ perm' = [perm EXCEPT ![s] = "rw"]
    /\ UNCHANGED <<owner, refs, content, frame>>

\* handle_cow_page_fault on slot s when it succeeds: the last sharer takes
\* the frame back; any other sharer gets a private copy in p.
handle_cow_page_fault(s, p) ==
    /\ perm[s] = "cow"
    /\ \/ /\ refs[frame[s]] = 1
          /\ perm' = [perm EXCEPT ![s] = "rw"]
          /\ UNCHANGED <<owner, refs, content, frame>>
       \/ /\ refs[frame[s]] > 1
          /\ owner[p] = "FREE"
          /\ owner' = [owner EXCEPT ![p] = "USER"]
          /\ content' = [content EXCEPT ![p] = content[frame[s]]]
          /\ refs' = [refs EXCEPT ![p] = 1, ![frame[s]] = @ - 1]
          /\ frame' = [frame EXCEPT ![s] = p]
          /\ perm' = [perm EXCEPT ![s] = "rw"]

Idle == op = "idle"
Begin(o, a, b, t, r) == op' = o /\ cur' = a /\ src' = b /\ todo' = t /\ rng' = r
End == Begin("idle", None, None, {}, {})
Step(v) == todo' = todo \ {v} /\ UNCHANGED <<op, cur, src, rng>>

-----------------------------------------------------------------------------
(* Loading a program: spawn, and exec when src is the old address space.   *)

\* elf_load_image_args: create_page_dir succeeded.
LoadBegin(c, old) ==
    /\ Idle /\ stat[c] = "unused"
    /\ old = None \/ (old \in AS /\ stat[old] = "live" /\ single_threaded(old))
    /\ stat' = [stat EXCEPT ![c] = "building"]
    /\ Begin("load", c, old, {}, {})
    /\ UNCHANGED <<phys, ptes, thrs, vmas>>

\* One page of a PT_LOAD segment: the frame is cleared, then filled with x
\* from the file.  A segment of several pages is several of these steps.
LoadSegmentPage(v, p, x, w) ==
    /\ "segment" \in Calls
    /\ op = "load" /\ ~vma_overlaps(cur, {v})
    /\ MapNew(<<cur, v>>, p, IF w THEN "rw" ELSE "ro", x)
    /\ vmas' = [vmas EXCEPT ![cur] =
                  @ \cup {[first |-> v, last |-> v, kind |-> "file", w |-> w]}]
    /\ UNCHANGED <<thrs, stat, op, cur, src, todo, rng>>

\* The initial stack: its top page, holding argv, and the VMA below it in
\* which it may grow (process_create_loaded, SYS_EXEC).
LoadStack(low, v, p, x) ==
    /\ op = "load" /\ low <= v
    /\ \A m \in vmas[cur] : m.kind # "grow"
    /\ LET pages == {y \in VA : low <= y /\ y <= v}
       IN  ~vma_overlaps(cur, pages) /\ stacks \cap ({src} \X pages) = {}
    /\ MapNew(<<cur, v>>, p, "rw", x)
    /\ vmas' = [vmas EXCEPT ![cur] =
                  @ \cup {[first |-> low, last |-> v, kind |-> "grow", w |-> TRUE]}]
    /\ UNCHANGED <<thrs, stat, op, cur, src, todo, rng>>

\* The image is complete: a new process starts (process_create_loaded), or
\* exec switches to it and destroys the old address space.  The thread that
\* called exec keeps the record of the stack it had there, if any.
LoadedNew ==
    /\ src = None
    /\ stat' = [stat EXCEPT ![cur] = "live"]
    /\ UNCHANGED <<stacks, fresh>>
    /\ End

LoadedExec ==
    /\ src # None
    /\ stat' = [stat EXCEPT ![cur] = "live", ![src] = "dying"]
    /\ stacks' = stacks \cup {s \in Slot : s[1] = cur /\ <<src, s[2]>> \in stacks}
    /\ fresh' = [fresh EXCEPT ![cur] = fresh[src]]
    /\ Begin("destroy", src, None, {}, {})

\* process_allocate_thread_tls for the first thread ends the load.
LoadEnd(v, p, x) ==
    /\ op = "load" /\ \E m \in vmas[cur] : m.kind = "grow"
    /\ MapNew(<<cur, v>>, p, "rw", x)
    /\ <<src, v>> \notin stacks
    /\ thread_pages' = thread_pages \cup {<<cur, v>>}
    /\ LoadedNew \/ LoadedExec
    /\ UNCHANGED <<bare, vmas>>

\* No frame, no page-table page, overlapping segments, no process object:
\* every error exit of the loader destroys what it built.
LoadFail ==
    /\ op = "load"
    /\ stat' = [stat EXCEPT ![cur] = "dying"]
    /\ Begin("destroy", cur, None, {}, {})
    /\ UNCHANGED <<phys, ptes, thrs, vmas>>

-----------------------------------------------------------------------------
(* fork                                                                    *)

\* process_fork up to the clone: create_page_dir succeeded.
ForkBegin(parent, child) ==
    /\ "fork" \in Calls
    /\ Idle /\ stat[parent] = "live" /\ stat[child] = "unused"
    /\ single_threaded(parent)
    /\ stat' = [stat EXCEPT ![child] = "building"]
    /\ Begin("clone", child, parent, Mapped(parent), {})
    /\ UNCHANGED <<phys, ptes, thrs, vmas>>

ChildPerm(m) == IF m = "rw" THEN "cow" ELSE m

\* clone_user_address_space, first loop: one parent PTE.
ClonePage(v) ==
    /\ op = "clone" /\ Lowest(v, todo)
    /\ MapShared(<<cur, v>>, frame[<<src, v>>], ChildPerm(perm[<<src, v>>]))
    /\ Step(v)
    /\ UNCHANGED <<thrs, vmas, stat>>

\* map_page failed in the first loop: the child is destroyed.
CloneFail ==
    /\ op = "clone" /\ todo # {}
    /\ stat' = [stat EXCEPT ![cur] = "dying"]
    /\ Begin("destroy", cur, src, {}, {})
    /\ UNCHANGED <<phys, ptes, thrs, vmas>>

CloneEnd ==
    /\ op = "clone" /\ todo = {}
    /\ Begin("seal", cur, src, {v \in VA : perm[<<src, v>>] = "rw"}, {})
    /\ UNCHANGED <<phys, ptes, thrs, vmas, stat>>

\* clone_user_address_space, second loop: one writable parent PTE.
SealPage(v) ==
    /\ op = "seal" /\ Lowest(v, todo)
    /\ perm' = [perm EXCEPT ![<<src, v>>] = "cow"]
    /\ Step(v)
    /\ UNCHANGED <<phys, frame, thrs, vmas, stat>>

\* The child process and its thread exist, with copies of the VMAs; the
\* child's thread owns no stack or TLS page.
ForkEnd ==
    /\ op = "seal" /\ todo = {}
    /\ vmas' = [vmas EXCEPT ![cur] = vmas[src]]
    /\ stat' = [stat EXCEPT ![cur] = "live"]
    /\ bare' = bare \cup {cur}
    /\ End
    /\ UNCHANGED <<phys, ptes, thread_pages, stacks, fresh>>

\* alloc_process, process_add_vma or thread_alloc_for_process failed.
ForkFail ==
    /\ op = "seal" /\ todo = {}
    /\ stat' = [stat EXCEPT ![cur] = "dying"]
    /\ Begin("destroy", cur, None, {}, {})
    /\ UNCHANGED <<phys, ptes, thrs, vmas>>

-----------------------------------------------------------------------------
(* Teardown                                                                *)

\* The process exits or is killed and is reaped.  Between exit and reaping
\* its address space is one that no thread touches.
ExitBegin(a) ==
    /\ Idle /\ stat[a] = "live"
    /\ stat' = [stat EXCEPT ![a] = "dying"]
    /\ Begin("destroy", a, None, {}, {})
    /\ UNCHANGED <<phys, ptes, thrs, vmas>>

DestroyPage(v) ==
    /\ op = "destroy" /\ Lowest(v, Mapped(cur))
    /\ unmap_user_page(<<cur, v>>)
    /\ UNCHANGED <<thrs, vmas, stat, op, cur, src, todo, rng>>

DestroyEnd ==
    /\ op = "destroy" /\ Mapped(cur) = {}
    /\ thread_pages' = {s \in thread_pages : s[1] # cur}
    /\ stacks' = {s \in stacks : s[1] # cur}
    /\ fresh' = [fresh EXCEPT ![cur] = VA]
    /\ bare' = bare \ {cur}
    /\ vmas' = [vmas EXCEPT ![cur] = {}]
    /\ stat' = [stat EXCEPT ![cur] = "unused"]
    /\ End
    /\ UNCHANGED <<phys, ptes>>

-----------------------------------------------------------------------------
(* Running user code, page faults and threads                              *)

\* A store through a writable PTE: no fault.
UserStore(s, x) ==
    /\ Idle /\ stat[s[1]] = "live" /\ perm[s] = "rw"
    /\ content' = [content EXCEPT ![frame[s]] = x]
    /\ UNCHANGED <<owner, refs, ptes, thrs, vmas, stat, op, cur, src, todo, rng>>

\* A store to a copy-on-write page faults; the store is retried after it.
\* If the handler fails the process is terminated: ExitBegin.
CowFault(s, p) ==
    /\ Idle /\ stat[s[1]] = "live"
    /\ handle_cow_page_fault(s, p)
    /\ UNCHANGED <<thrs, vmas, stat, op, cur, src, todo, rng>>

\* process_handle_page_fault: an absent page of a growing VMA.
GrowFault(s, p) ==
    /\ Idle /\ stat[s[1]] = "live"
    /\ \E m \in vmas[s[1]] : m.kind = "grow" /\ s[2] \in Pages(m)
    /\ MapNew(s, p, "rw", content[p])
    /\ UNCHANGED <<thrs, vmas, stat, op, cur, src, todo, rng>>

\* process_create_thread: the new thread's stack (allocate_user_thread_stack),
\* below the stacks of all earlier threads of the process and away from the
\* stack of the first.
CreateThread(s, p) ==
    /\ Idle /\ stat[s[1]] = "live" /\ s[2] \in fresh[s[1]]
    /\ \A m \in vmas[s[1]] : m.kind = "grow" => s[2] \notin Pages(m)
    /\ MapNew(s, p, "rw", content[p])
    /\ thread_pages' = thread_pages \cup {s} /\ stacks' = stacks \cup {s}
    /\ fresh' = [fresh EXCEPT ![s[1]] = {v \in @ : v < s[2]}]
    /\ UNCHANGED <<bare, vmas, stat, op, cur, src, todo, rng>>

\* The stack records of a that an exec left behind.
StaleStacks(a) == {s \in stacks \ thread_pages : s[1] = a}

\* thread_free_object of a thread that left a process that goes on: its stack
\* or its TLS page is unmapped.  The thread that called exec has a TLS page;
\* where it also has an old stack record, that slot is unmapped first.
FreeStale(s) ==
    /\ Idle /\ s \in StaleStacks(s[1]) /\ stat[s[1]] = "live"
    /\ ~single_threaded(s[1])
    /\ \/ unmap_user_page(s)
       \/ frame[s] = None /\ UNCHANGED <<phys, ptes>>
    /\ stacks' = stacks \ {s}
    /\ Begin("free", s[1], None, {}, {})
    /\ UNCHANGED <<thread_pages, fresh, bare, vmas, stat>>

FreeThread(s) ==
    /\ \/ Idle /\ ~single_threaded(s[1])
            /\ (s \in stacks \/ StaleStacks(s[1]) = {})
       \/ op = "free" /\ cur = s[1] /\ s \notin stacks
    /\ s \in thread_pages
    /\ unmap_user_page(s)
    /\ thread_pages' = thread_pages \ {s} /\ stacks' = stacks \ {s}
    /\ End
    /\ UNCHANGED <<fresh, bare, vmas, stat>>

FreeBareThread(a) ==
    /\ Idle /\ a \in bare /\ ~single_threaded(a)
    /\ bare' = bare \ {a}
    /\ UNCHANGED <<phys, ptes, thread_pages, stacks, fresh, vmas, stat, op, cur, src,
                   todo, rng>>

\* Frames for the kernel: page tables, heap arenas, thread stacks.
KernelAlloc(p, x) ==
    /\ "kernel" \in Calls
    /\ Idle /\ owner[p] = "FREE"
    /\ owner' = [owner EXCEPT ![p] = "KERNEL"]
    /\ content' = [content EXCEPT ![p] = x]
    /\ UNCHANGED <<refs, ptes, thrs, vmas, stat, op, cur, src, todo, rng>>

\* Mutant of KernelFree: the frame keeps its contents.
KernelFree_unclear(p) ==
    /\ Idle /\ owner[p] = "KERNEL" /\ refs[p] = 0
    /\ owner' = [owner EXCEPT ![p] = "FREE"]
    /\ UNCHANGED <<refs, content, ptes, thrs, vmas, stat, op, cur, src, todo, rng>>

\* free_pages_owned
KernelFree(p) ==
    /\ Idle /\ owner[p] = "KERNEL" /\ refs[p] = 0
    /\ owner' = [owner EXCEPT ![p] = "FREE"]
    /\ content' = [content EXCEPT ![p] = Zero]
    /\ UNCHANGED <<refs, ptes, thrs, vmas, stat, op, cur, src, todo, rng>>

-----------------------------------------------------------------------------
(* mmap and munmap                                                         *)

\* process_mmap: a range with no VMA, at the hint or found by the search.
MmapBegin(a, r, w) ==
    /\ "mmap" \in Calls
    /\ Idle /\ stat[a] = "live" /\ ~vma_overlaps(a, r)
    /\ \E lo, hi \in r :
         /\ \A v \in r : lo <= v /\ v <= hi
         /\ vmas' = [vmas EXCEPT ![a] =
               @ \cup {[first |-> lo, last |-> hi, kind |-> "anon", w |-> w]}]
    /\ Begin("mmap", a, None, r, r)
    /\ UNCHANGED <<phys, ptes, thrs, stat>>

MmapPage(v, p) ==
    /\ op = "mmap" /\ Lowest(v, todo)
    /\ \E m \in vmas[cur] :
         /\ v \in Pages(m)
         /\ MapNew(<<cur, v>>, p, IF m.w THEN "rw" ELSE "ro", content[p])
    /\ Step(v)
    /\ UNCHANGED <<thrs, vmas, stat>>

MmapEnd ==
    /\ op = "mmap" /\ todo = {} /\ End
    /\ UNCHANGED <<phys, ptes, thrs, vmas, stat>>

\* Mutant of MmapFail: the roll-back unmaps the slot that failed too.
MmapFail_one_more ==
    /\ op = "mmap" /\ todo # {}
    /\ Begin("rollback", cur, None,
             {v \in rng : frame[<<cur, v>>] # None}, rng)
    /\ UNCHANGED <<phys, ptes, thrs, vmas, stat>>

\* No frame, no page-table page, or the slot is already mapped: the pages
\* mapped so far are unmapped again and the VMA is removed.
MmapFail ==
    /\ op = "mmap" /\ todo # {}
    /\ Begin("rollback", cur, None, rng \ todo, rng)
    /\ UNCHANGED <<phys, ptes, thrs, vmas, stat>>

RollbackPage(v) ==
    /\ op = "rollback" /\ Lowest(v, todo)
    /\ unmap_user_page(<<cur, v>>)
    /\ Step(v)
    /\ UNCHANGED <<thrs, vmas, stat>>

\* Mutant of RollbackEnd: the VMA stays.
RollbackEnd_keeps_vma ==
    /\ op = "rollback" /\ todo = {} /\ End
    /\ UNCHANGED <<phys, ptes, thrs, vmas, stat>>

RollbackEnd ==
    /\ op = "rollback" /\ todo = {}
    /\ vmas' = [vmas EXCEPT ![cur] = {m \in @ : Pages(m) # rng}]
    /\ End
    /\ UNCHANGED <<phys, ptes, thrs, stat>>

\* process_munmap: a range inside one anonymous VMA that does not grow; the
\* VMA for the tail of a split has been allocated.
MunmapBegin(a, r) ==
    /\ "munmap" \in Calls
    /\ Idle /\ stat[a] = "live"
    /\ \E m \in vmas[a] : m.kind = "anon" /\ r \subseteq Pages(m)
    /\ Begin("munmap", a, None, r, r)
    /\ UNCHANGED <<phys, ptes, thrs, vmas, stat>>

MunmapPage(v) ==
    /\ op = "munmap" /\ Lowest(v, todo)
    /\ unmap_user_page(<<cur, v>>)
    /\ Step(v)
    /\ UNCHANGED <<thrs, vmas, stat>>

\* A page that is not mapped: it is skipped when its page table is absent
\* too; otherwise unmap_user_page fails and munmap stops half-way.
MunmapAbsent(v) ==
    /\ op = "munmap" /\ Lowest(v, todo) /\ frame[<<cur, v>>] = None
    /\ Step(v) \/ End
    /\ UNCHANGED <<phys, ptes, thrs, vmas, stat>>

\* What is left of VMA m without the pages of r: a head and a tail.
Split(m, r) ==
    {[m EXCEPT !.last = h] : h \in {v \in Pages(m) : v + 1 \in r}} \cup
    {[m EXCEPT !.first = t] : t \in {v \in Pages(m) : v - 1 \in r}}

MunmapEnd ==
    /\ op = "munmap" /\ todo = {}
    /\ \E m \in vmas[cur] :
         /\ rng \subseteq Pages(m)
         /\ vmas' = [vmas EXCEPT ![cur] = (@ \ {m}) \cup
               {n \in Split(m, rng) : Pages(n) \cap rng = {}}]
    /\ End
    /\ UNCHANGED <<phys, ptes, thrs, stat>>

-----------------------------------------------------------------------------
(* copy_to_user: results of system calls stored in user memory             *)

CopyBegin(a, r) ==
    /\ "copyout" \in Calls
    /\ Idle /\ stat[a] = "live"
    /\ \A v \in r : perm[<<a, v>>] \in {"rw", "cow"}
    /\ Begin("copyout", a, None, r, r)
    /\ UNCHANGED <<phys, ptes, thrs, vmas, stat>>

CopyPage(v, p) ==
    /\ op = "copyout" /\ Lowest(v, todo)
    /\ \/ handle_cow_page_fault(<<cur, v>>, p)
       \/ perm[<<cur, v>>] # "cow" /\ UNCHANGED <<phys, ptes>>
    /\ Step(v)
    /\ UNCHANGED <<thrs, vmas, stat>>

\* Mutant of CopyFail: pages are stored to as they become writable.
CopyFail_half ==
    /\ op = "copyout" /\ todo # {} /\ End
    /\ \E x \in Value : content' = [p \in Page |->
         IF \E v \in rng \ todo : frame[<<cur, v>>] = p THEN x ELSE content[p]]
    /\ UNCHANGED <<owner, refs, ptes, thrs, vmas, stat>>

\* A copy-on-write fault failed: nothing has been stored.
CopyFail ==
    /\ op = "copyout" /\ todo # {} /\ End
    /\ UNCHANGED <<phys, ptes, thrs, vmas, stat>>

CopyEnd(x) ==
    /\ op = "copyout" /\ todo = {}
    /\ content' = [p \in Page |->
         IF \E v \in rng : frame[<<cur, v>>] = p THEN x ELSE content[p]]
    /\ End
    /\ UNCHANGED <<owner, refs, ptes, thrs, vmas, stat>>

-----------------------------------------------------------------------------
Load ==
    \/ \E c \in AS, old \in AS \cup {None} : LoadBegin(c, old)
    \/ \E v \in VA, p \in Page, x \in Value, w \in BOOLEAN :
         LoadSegmentPage(v, p, x, w)
    \/ \E low, v \in VA, p \in Page, x \in Value : LoadStack(low, v, p, x)
    \/ \E v \in VA, p \in Page, x \in Value : LoadEnd(v, p, x)
    \/ LoadFail

Fork ==
    \/ \E a, c \in AS : ForkBegin(a, c)
    \/ \E v \in VA : ClonePage(v) \/ SealPage(v)
    \/ CloneFail \/ CloneEnd \/ ForkEnd \/ ForkFail

Teardown ==
    \/ \E a \in AS : ExitBegin(a)
    \/ \E v \in VA : DestroyPage(v)
    \/ DestroyEnd

Run ==
    \/ \E s \in Slot, x \in Value : UserStore(s, x)
    \/ \E s \in Slot, p \in Page :
         CowFault(s, p) \/ GrowFault(s, p) \/ CreateThread(s, p)
    \/ \E s \in Slot : FreeThread(s) \/ FreeStale(s)
    \/ \E a \in AS : FreeBareThread(a)

Kernel ==
    \/ \E p \in Page, x \in Value : KernelAlloc(p, x)
    \/ \E p \in Page : KernelFree(p)

Mmap ==
    \/ \E a \in AS, r \in Ranges, w \in BOOLEAN : MmapBegin(a, r, w)
    \/ \E v \in VA, p \in Page : MmapPage(v, p)
    \/ \E v \in VA : RollbackPage(v)
    \/ MmapEnd \/ MmapFail \/ RollbackEnd

Munmap ==
    \/ \E a \in AS, r \in Ranges : MunmapBegin(a, r)
    \/ \E v \in VA : MunmapPage(v) \/ MunmapAbsent(v)
    \/ MunmapEnd

CopyOut ==
    \/ \E a \in AS, r \in Ranges : CopyBegin(a, r)
    \/ \E v \in VA, p \in Page : CopyPage(v, p)
    \/ \E x \in Value : CopyEnd(x)
    \/ CopyFail

Next == Load \/ Fork \/ Teardown \/ Run \/ Kernel \/ Mmap \/ Munmap \/ CopyOut

Spec == Init /\ [][Next]_vars

-----------------------------------------------------------------------------
(* Properties                                                              *)

\* The type invariant, the part about frames and PTEs first.
FrameTypes ==
    /\ owner \in [Page -> {"FREE", "USER", "KERNEL"}]
    /\ refs \in [Page -> Nat]
    /\ content \in [Page -> Value]
    /\ frame \in [Slot -> Page \cup {None}]
    /\ perm \in [Slot -> Perm]

TypeOK ==
    /\ FrameTypes
    /\ thread_pages \subseteq Slot /\ stacks \subseteq Slot
    /\ fresh \in [AS -> SUBSET VA] /\ bare \subseteq AS
    /\ vmas \in [AS -> SUBSET Vma]
    /\ stat \in [AS -> {"unused", "building", "live", "dying"}]
    /\ op \in Op /\ cur \in AS \cup {None} /\ src \in AS \cup {None}
    /\ todo \subseteq VA /\ rng \subseteq VA

\* page_refcount is exactly the number of user PTEs that map the frame,
\* also in the middle of a fork, a roll-back or a teardown; so a frame is
\* freed when, and only when, its last PTE goes.
RefsExact == \A p \in Page : refs[p] = Cardinality(Mappings(p))

\* A frame belongs to the user exactly while some PTE maps it: no operation,
\* and no failure in the middle of one, leaks a frame or frees one in use.
NoLeakNoDangling ==
    \A p \in Page : owner[p] = "USER" <=> Mappings(p) # {}

\* Both: what the memory manager records of the user frames is what the page
\* tables say, after every step of every operation.
Accounting == RefsExact /\ NoLeakNoDangling

\* Slot s is writable and slot t maps the same frame.
WritableShared(s, t) ==
    frame[s] # None /\ frame[s] = frame[t] /\ s # t /\ perm[s] = "rw"

\* A frame mapped writable has no other mapping.  The one exception is a
\* fork between its two loops, or the teardown of a child whose clone
\* failed: then the other mapping is in the child, which never ran.
WritableIsPrivate ==
    \A s, t \in Slot : WritableShared(s, t) =>
        op \in {"clone", "seal", "destroy"} /\ s[1] = src /\ t[1] = cur

\* process_mmap and the stack-growth fault hand out frames without clearing
\* them; every path that frees one clears it.
FreeIsClear == \A p \in Page : owner[p] = "FREE" => content[p] = Zero

\* Every page of an mmap area is mapped, outside the mmap or munmap that is
\* changing it.  Hence munmap never finds an absent page and stops half-way.
MmapAreasResident ==
    \A a \in AS : \A m \in vmas[a] : \A v \in Pages(m) :
        m.kind = "anon" /\ stat[a] = "live"
            /\ ~(op \in {"mmap", "rollback", "munmap"} /\ cur = a /\ v \in rng)
          => frame[<<a, v>>] # None

\* A page a thread object owns stays mapped until that thread is freed, so
\* thread_free_object never fails to give it back, whatever mmap, munmap and
\* their roll-backs do around it.
ThreadPagesMapped ==
    \A s \in thread_pages : stat[s[1]] = "live" => frame[s] # None

\* The VMAs of a process never overlap, after any splits and roll-backs.
VmasDisjoint ==
    \A a \in AS : \A m, n \in vmas[a] : m # n => Pages(m) \cap Pages(n) = {}

\* A fork that fails while it builds the child leaves the parent's page
\* table as it was ("any failure can be rolled back without loss").
FailedForkLossless ==
    [][op = "clone" \/ (op = "destroy" /\ src # None) =>
         \A v \in VA : /\ frame'[<<src, v>>] = frame[<<src, v>>]
                       /\ perm'[<<src, v>>] = perm[<<src, v>>]]_vars

\* What a slot reads as, and the slots an operation has not finished with.
View(s) == IF frame[s] = None THEN None ELSE content[frame[s]]
Unfinished(a, v) ==
    \/ stat[a] # "live"
    \/ op = "mmap" /\ cur = a /\ v \in rng \ todo
    \/ op = "rollback" /\ cur = a /\ v \in todo

\* The memory each process sees.
Cell(a, v) == IF Unfinished(a, v) THEN None ELSE View(<<a, v>>)
mem == [a \in AS |-> [v \in VA |-> Cell(a, v)]]

\* The request being served, as the process that made it sees it.
req == [kind |-> CASE op \in {"clone", "seal"} -> "fork"
                   [] op \in {"mmap", "rollback"} -> "mmap"
                   [] op = "copyout" -> "copy"
                   [] op = "free" -> "idle"
                   [] OTHER -> op,
        as |-> IF op = "free" THEN None ELSE cur,
        src |-> IF op = "destroy" THEN None ELSE src,
        rng |-> rng]

Private == INSTANCE PrivateMemory WITH mem <- mem, req <- req

\* With COW sharing, reclaiming and roll-backs, user memory is what separate
\* private memories would be: fork copies, a store or copy_to_user changes
\* one process only, new memory reads zero, and a request that fails changes
\* nothing.
PrivateSpec == Private!Spec

\* A copy-on-write fault, in user code or in copy_to_user, changes nothing
\* that any process can read.
FaultsInvisible ==
    [][(\E s \in Slot : perm[s] = "cow" /\ perm'[s] = "rw") => mem' = mem]_vars
=============================================================================
