-------------------------------- MODULE Futex --------------------------------
(***************************************************************************)
(* The futex wait queues of the kernel (futex.c) and what the rest of the  *)
(* kernel does to the threads in them: kill, process exit and thread exit  *)
(* (process.c, thread.c).  FutexChildExit adds one more wake-up.           *)
(*                                                                         *)
(* A bucket is a doubly linked list through futex_next and futex_prev; the *)
(* pointers are kept here as they are in the code.  One CPU runs system    *)
(* calls with interrupts off, so each is one step up to the point where    *)
(* its thread blocks; the loops over a list are taken one node at a time,  *)
(* and nothing else happens while one runs (op # "none").                  *)
(***************************************************************************)
EXTENDS Integers, FiniteSets

CONSTANTS
    Process, Thread,
    ProcOf,     \* the process of a thread object
    MainOf,     \* main_thread of a process
    Addr,       \* addresses of futex words
    Buckets,    \* FUTEX_BUCKET_COUNT
    Hash,       \* futex_hash: a bucket for each process and address
    MaxWake,    \* largest count passed to futex_wake
    None

Bucket == 0 .. Buckets - 1
Key == Process \X Addr

ASSUME FutexAssumption ==
    /\ IsFiniteSet(Thread)
    /\ ProcOf \in [Thread -> Process]
    /\ MainOf \in [Process -> Thread]
    /\ \A p \in Process : ProcOf[MainOf[p]] = p
    /\ Buckets \in Nat \ {0} /\ MaxWake \in Nat \ {0}
    /\ Hash \in [Key -> Bucket]
    /\ None \notin Thread /\ None \notin Process

VARIABLES
    status,     \* of a thread: "READY", "BLOCKED", or "DEAD" when not in use
    pc,         \* "user", or "wait" inside thread_block of futex_wait
    exit_requested,
    head,       \* of the list of a bucket
    next, prev, \* futex_next, futex_prev
    waiting,    \* futex_waiting
    key,        \* futex_process and futex_uaddr
    waiter_count,
    op,         \* the loop that runs: "none", "wake", "kill", "exit"
    for,        \* the key of a wake, the process of a kill or an exit
    bkt, scan,  \* the bucket and the list node the loop has come to
    woke, limit \* threads woken so far, and the most to wake

user == <<pc, exit_requested>>
lists == <<head, next, prev, waiting, key, waiter_count>>
locals == <<op, for, bkt, scan, woke, limit>>
vars == <<status, pc, exit_requested, head, next, prev, waiting, key,
          waiter_count, op, for, bkt, scan, woke, limit>>

ThreadsOf(p) == {t \in Thread : ProcOf[t] = p}
Live(p) == {t \in ThreadsOf(p) : status[t] # "DEAD"}

\* Thread t runs in user mode and may enter the kernel.
Running(t) == op = "none" /\ status[t] = "READY" /\ pc[t] = "user"

Init ==
    /\ status = [t \in Thread |-> IF t = MainOf[ProcOf[t]] THEN "READY" ELSE "DEAD"]
    /\ pc = [t \in Thread |-> "user"]
    /\ exit_requested = [p \in Process |-> FALSE]
    /\ head = [b \in Bucket |-> None]
    /\ next = [t \in Thread |-> None] /\ prev = [t \in Thread |-> None]
    /\ waiting = [t \in Thread |-> FALSE]
    /\ key = [t \in Thread |-> None]
    /\ waiter_count = 0
    /\ op = "none" /\ for = None /\ bkt = 0 /\ scan = None /\ woke = 0 /\ limit = 0

-----------------------------------------------------------------------------
(* The lists                                                               *)

\* Mutant of Enqueue: the old head keeps its back pointer.
Enqueue_no_back(t, k) ==
    /\ waiting' = [waiting EXCEPT ![t] = TRUE]
    /\ key' = [key EXCEPT ![t] = k]
    /\ next' = [next EXCEPT ![t] = head[Hash[k]]]
    /\ prev' = [prev EXCEPT ![t] = None]
    /\ head' = [head EXCEPT ![Hash[k]] = t]
    /\ waiter_count' = waiter_count + 1

\* enqueue_waiter_locked: t becomes the head of its bucket.
Enqueue(t, k) ==
    LET b == Hash[k] IN
    /\ waiting' = [waiting EXCEPT ![t] = TRUE]
    /\ key' = [key EXCEPT ![t] = k]
    /\ next' = [next EXCEPT ![t] = head[b]]
    /\ prev' = [u \in Thread |-> CASE u = head[b] -> t
                                   [] u = t -> None
                                   [] OTHER -> prev[u]]
    /\ head' = [head EXCEPT ![b] = t]
    /\ waiter_count' = waiter_count + 1

\* unlink_waiter_locked
Unlink(b, t) ==
    /\ head' = IF prev[t] = None /\ head[b] = t
                 THEN [head EXCEPT ![b] = next[t]] ELSE head
    /\ next' = [u \in Thread |-> CASE u = t -> None
                                   [] u = prev[t] /\ u # t -> next[t]
                                   [] OTHER -> next[u]]
    /\ prev' = [u \in Thread |-> CASE u = t -> None
                                   [] u = next[t] /\ u # t -> prev[t]
                                   [] OTHER -> prev[u]]
    /\ waiting' = [waiting EXCEPT ![t] = FALSE]
    /\ waiter_count' = IF waiter_count = 0 THEN 0 ELSE waiter_count - 1
    /\ UNCHANGED key

\* thread_unblock
Unblocked(s) == [t \in Thread |->
    IF t \in s /\ status[t] = "BLOCKED" THEN "READY" ELSE status[t]]

-----------------------------------------------------------------------------
(* System calls of user threads                                            *)

\* futex_wait when the word has the expected value; otherwise it returns
\* FUTEX_ERR_AGAIN and changes nothing.  (UserSync models the words.)
FutexWait(t, a) ==
    /\ Running(t) /\ ~exit_requested[ProcOf[t]]
    /\ Enqueue(t, <<ProcOf[t], a>>)
    /\ status' = [status EXCEPT ![t] = "BLOCKED"]
    /\ pc' = [pc EXCEPT ![t] = "wait"]
    /\ UNCHANGED <<exit_requested, locals>>

\* thread_block returns to futex_wait, and futex_wait to its caller.
FutexReturn(t) ==
    /\ op = "none" /\ pc[t] = "wait" /\ status[t] = "READY"
    /\ ~exit_requested[ProcOf[t]]
    /\ pc' = [pc EXCEPT ![t] = "user"]
    /\ UNCHANGED <<status, exit_requested, lists, locals>>

\* A loop over the list of bucket b begins.
Loop(o, f, b, n) ==
    /\ op' = o /\ for' = f /\ bkt' = b /\ scan' = head[b]
    /\ woke' = 0 /\ limit' = n

\* futex_wake
FutexWake(t, a, n) ==
    /\ Running(t)
    /\ Loop("wake", <<ProcOf[t], a>>, Hash[<<ProcOf[t], a>>], n)
    /\ UNCHANGED <<user, status, lists>>

\* thread_exit_with_status of a thread that is not the last of its process:
\* futex_cancel_thread, and the thread object is later freed.
ThreadExit(t) ==
    /\ Running(t) /\ Cardinality(Live(ProcOf[t])) > 1
    /\ IF waiting[t] THEN Unlink(Hash[key[t]], t) ELSE UNCHANGED lists
    /\ status' = [status EXCEPT ![t] = "DEAD"]
    /\ UNCHANGED <<user, locals>>

\* process_create_thread and process_create_loaded: a cleared thread object.
ThreadStart(t) ==
    /\ op = "none" /\ status[t] = "DEAD"
    /\ \/ Live(ProcOf[t]) # {} /\ ~exit_requested[ProcOf[t]]
       \/ Live(ProcOf[t]) = {} /\ t = MainOf[ProcOf[t]]
    /\ status' = [status EXCEPT ![t] = "READY"]
    /\ next' = [next EXCEPT ![t] = None] /\ prev' = [prev EXCEPT ![t] = None]
    /\ waiting' = [waiting EXCEPT ![t] = FALSE]
    /\ key' = [key EXCEPT ![t] = None]
    /\ UNCHANGED <<user, head, waiter_count, locals>>

\* process_exit up to futex_cancel_process: exit, the last thread_exit, or
\* the return of a system call or an interrupt that finds exit_requested.
ProcessExit(t) ==
    /\ op = "none" /\ status[t] = "READY"
    /\ pc[t] = "user" \/ exit_requested[ProcOf[t]]
    /\ exit_requested' = [exit_requested EXCEPT ![ProcOf[t]] = TRUE]
    /\ Loop("exit", ProcOf[t], 0, 0)
    /\ UNCHANGED <<status, pc, lists>>

\* request_process_termination: kill by another process or by the terminal.
Kill(p) ==
    /\ op = "none" /\ Live(p) # {}
    /\ exit_requested' = [exit_requested EXCEPT ![p] = TRUE]
    /\ Loop("kill", p, 0, 0)
    /\ UNCHANGED <<status, pc, lists>>

-----------------------------------------------------------------------------
(* The loops of futex_wake and futex_cancel_process                        *)

Matches(t) == IF op = "wake" THEN key[t] = for ELSE key[t][1] = for
More == scan # None /\ (op = "wake" => woke < limit)

\* Mutants of LoopNode: a waiter on another word is not passed over; the
\* successor is read after the node is unlinked.
LoopNode_stuck ==
    /\ op # "none" /\ More
    /\ IF Matches(scan)
         THEN /\ Unlink(bkt, scan)
              /\ status' = Unblocked({scan})
              /\ woke' = woke + 1
              /\ scan' = next[scan]
         ELSE UNCHANGED <<lists, status, woke, scan>>
    /\ UNCHANGED <<user, op, for, bkt, limit>>

LoopNode_late ==
    /\ op # "none" /\ More
    /\ IF Matches(scan)
         THEN /\ Unlink(bkt, scan)
              /\ status' = Unblocked({scan})
              /\ woke' = woke + 1
         ELSE UNCHANGED <<lists, status, woke>>
    /\ scan' = next'[scan]
    /\ UNCHANGED <<user, op, for, bkt, limit>>

LoopNode ==
    /\ op # "none" /\ More
    /\ scan' = next[scan]
    /\ IF Matches(scan)
         THEN /\ Unlink(bkt, scan)
              /\ status' = Unblocked({scan})
              /\ woke' = woke + 1
         ELSE UNCHANGED <<lists, status, woke>>
    /\ UNCHANGED <<user, op, for, bkt, limit>>

NextBucket ==
    /\ op \in {"kill", "exit"} /\ ~More /\ bkt + 1 \in Bucket
    /\ bkt' = bkt + 1 /\ scan' = head[bkt + 1]
    /\ UNCHANGED <<user, status, lists, op, for, woke, limit>>

Finish == op' = "none" /\ for' = None /\ bkt' = 0 /\ scan' = None
          /\ woke' = 0 /\ limit' = 0

WakeEnd ==
    /\ op = "wake" /\ ~More
    /\ Finish
    /\ UNCHANGED <<user, status, lists>>

\* The rest of request_process_termination unblocks every thread.
KillEnd ==
    /\ op = "kill" /\ ~More /\ bkt + 1 \notin Bucket
    /\ status' = Unblocked(ThreadsOf(for))
    /\ Finish
    /\ UNCHANGED <<user, lists>>

\* The rest of process_exit frees every thread object, the caller's later.
ExitEnd ==
    /\ op = "exit" /\ ~More /\ bkt + 1 \notin Bucket
    /\ status' = [t \in Thread |-> IF ProcOf[t] = for THEN "DEAD" ELSE status[t]]
    /\ pc' = [t \in Thread |-> IF ProcOf[t] = for THEN "user" ELSE pc[t]]
    /\ exit_requested' = [exit_requested EXCEPT ![for] = FALSE]
    /\ Finish
    /\ UNCHANGED lists

-----------------------------------------------------------------------------
Scan == LoopNode \/ NextBucket \/ WakeEnd \/ KillEnd \/ ExitEnd

Next ==
    \/ \E t \in Thread, a \in Addr : FutexWait(t, a)
    \/ \E t \in Thread, a \in Addr, n \in 1 .. MaxWake : FutexWake(t, a, n)
    \/ \E t \in Thread :
         FutexReturn(t) \/ ThreadExit(t) \/ ThreadStart(t) \/ ProcessExit(t)
    \/ \E p \in Process : Kill(p)
    \/ Scan

\* The loops run in the kernel with interrupts off: they are not stopped.
Spec == Init /\ [][Next]_vars /\ WF_vars(Scan)

-----------------------------------------------------------------------------
(* Properties                                                              *)

TypeOK ==
    /\ status \in [Thread -> {"READY", "BLOCKED", "DEAD"}]
    /\ pc \in [Thread -> {"user", "wait"}]
    /\ exit_requested \in [Process -> BOOLEAN]
    /\ head \in [Bucket -> Thread \cup {None}]
    /\ next \in [Thread -> Thread \cup {None}]
    /\ prev \in [Thread -> Thread \cup {None}]
    /\ waiting \in [Thread -> BOOLEAN]
    /\ key \in [Thread -> Key \cup {None}]
    /\ waiter_count \in Nat
    /\ op \in {"none", "wake", "kill", "exit"}
    /\ for \in Key \cup Process \cup {None}
    /\ bkt \in Bucket /\ scan \in Thread \cup {None}
    /\ woke \in Nat /\ limit \in 0 .. MaxWake

\* The threads on the list that starts at s: those in every set that holds s
\* and, with a thread, its futex_next.
Closed(S) == \A t \in S : next[t] # None => next[t] \in S
From(s) == {t \in Thread :
              \A S \in SUBSET Thread : (s # None => s \in S) /\ Closed(S) => t \in S}
Reach(b) == From(head[b])

InBucket(b) == {t \in Thread : waiting[t] /\ Hash[key[t]] = b}

\* futex_next and futex_prev are inverse, and the head is the one waiter of
\* the bucket without a predecessor.
Linked ==
    /\ \A t \in Thread : waiting[t] =>
         /\ next[t] # None => waiting[next[t]] /\ prev[next[t]] = t
                               /\ Hash[key[next[t]]] = Hash[key[t]]
         /\ prev[t] # None => waiting[prev[t]] /\ next[prev[t]] = t
         /\ prev[t] = None => head[Hash[key[t]]] = t
    /\ \A b \in Bucket : head[b] # None =>
         waiting[head[b]] /\ Hash[key[head[b]]] = b /\ prev[head[b]] = None
    /\ \A t \in Thread : ~waiting[t] => next[t] = None /\ prev[t] = None

\* Through waits, wakes, kills and exits in any order, the lists are well
\* formed, hold exactly the waiting threads, and waiter_count counts them.
QueuesExact ==
    /\ Linked
    /\ \A b \in Bucket : Reach(b) = InBucket(b)
    /\ waiter_count = Cardinality({t \in Thread : waiting[t]})

\* "If the waiter is queued first, the waker is sure to see it": a thread
\* that sleeps in futex_wait is on the list of its bucket.
BlockedWaitersQueued ==
    \A t \in Thread : status[t] = "BLOCKED" /\ pc[t] = "wait" =>
        waiting[t] /\ t \in Reach(Hash[key[t]])

\* And only such threads are: a thread that has been woken, has returned,
\* has exited or has been freed is on no list.
QueuedAreBlocked ==
    \A t \in Thread : waiting[t] =>
        status[t] = "BLOCKED" /\ pc[t] = "wait" /\ key[t][1] = ProcOf[t]

\* Together: the lists are exact and the sleepers of futex_wait are their
\* members, between any two steps of the walks over them.
WaitersExact ==
    TypeOK /\ QueuesExact /\ BlockedWaitersQueued /\ QueuedAreBlocked

\* futex_wake stops only when it has woken as many as it was asked to or no
\* thread sleeps on the word any more; it wakes only threads that slept there.
WakeComplete ==
    [][op = "wake" =>
         /\ op' = "none" => woke = limit \/ \A t \in Thread :
              ~(pc[t] = "wait" /\ status[t] = "BLOCKED" /\ key[t] = for)
         /\ \A t \in Thread : status'[t] # status[t] => key[t] = for]_vars

\* The loops over a list end: no list has a cycle.
LoopsEnd == op # "none" ~> op = "none"
=============================================================================
