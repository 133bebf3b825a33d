------------------------------ MODULE Lifecycle ------------------------------
(***************************************************************************)
(* Threads and processes from creation to reclaim: the scheduler ring and  *)
(* schedule() (thread.c), create, join, detach and exit of threads, and    *)
(* spawn, wait, kill, exit and reaping of processes (process.c).           *)
(*                                                                         *)
(* There is one CPU.  A system call runs with interrupts off and gives up  *)
(* the CPU only in schedule(); a timer interrupt can do so for a thread in *)
(* user mode.  The loops inside process_exit and schedule are taken one    *)
(* iteration per step, and nothing else runs meanwhile (op # "none").      *)
(* Thread and process objects are frames that are used again once freed.   *)
(***************************************************************************)
EXTENDS Integers, Sequences, FiniteSets
LOCAL INSTANCE SequencesExt

CONSTANTS
    Thread,         \* thread objects
    Process,        \* process objects of user processes
    Idle,           \* the boot thread of the kernel process
    Shell, First,   \* the process and the thread the kernel starts with
    AnyChild,       \* pid 0 in process_wait
    Calls,          \* the system calls that programs use in this instance
    None

ASSUME LifecycleAssumption ==
    /\ Idle \notin Thread /\ None \notin Thread \cup Process \cup {Idle}
    /\ First \in Thread /\ Shell \in Process
    /\ AnyChild \notin Process \cup Thread
    /\ Calls \subseteq {"create", "join", "detach", "spawn", "wait", "kill", "sleep"}

VARIABLES
    ring,           \* the scheduler ring, from current_thread on
    status,         \* of a thread; "DEAD" also for an object not in use
    lifecycle,      \* "JOINABLE", "DETACHED", and the same with _ZOMBIE
    claimed,        \* lifecycle_claimed
    join_waiter,
    proc,           \* thread->process
    pc,             \* where the thread is: "user" or a place in the kernel
    target,         \* what a blocked join or wait is for
    threads,        \* thread_head list of a process
    main_thread,
    pstate,         \* "RUNNING", "ZOMBIE", "DEAD"
    parent,
    exit_requested,
    exit_waited,
    op              \* the kernel loop that runs

sched == <<ring, status>>
thrs == <<lifecycle, claimed, join_waiter, pc, target>>
links == <<proc, threads, main_thread>>
procs == <<pstate, parent, exit_requested, exit_waited>>
vars == <<ring, status, lifecycle, claimed, join_waiter, proc, pc, target,
          threads, main_thread, pstate, parent, exit_requested, exit_waited, op>>

Current == Head(ring)

\* Thread t executes user code and may enter the kernel.
User(t) == op = "none" /\ t = Current /\ t # Idle /\ pc[t] = "user"

\* The CPU takes interrupts: it is in user code or in the idle loop.
InterruptsOn == op = "none" /\ (Current # Idle => pc[Current] = "user")

\* Thread t continues in the kernel at place l.
At(t, l) == op = "none" /\ t = Current /\ pc[t] = l

Goto(t, l) == pc' = [pc EXCEPT ![t] = l]

Init ==
    /\ ring = <<Idle, First>>
    /\ status = [t \in Thread \cup {Idle} |->
                   CASE t = Idle -> "RUNNING" [] t = First -> "READY" [] OTHER -> "DEAD"]
    /\ lifecycle = [t \in Thread |-> "JOINABLE"]
    /\ claimed = [t \in Thread |-> FALSE]
    /\ join_waiter = [t \in Thread |-> None]
    /\ proc = [t \in Thread |-> IF t = First THEN Shell ELSE None]
    /\ pc = [t \in Thread |-> "user"]
    /\ target = [t \in Thread |-> None]
    /\ threads = [p \in Process |-> IF p = Shell THEN <<First>> ELSE <<>>]
    /\ main_thread = [p \in Process |-> IF p = Shell THEN First ELSE None]
    /\ pstate = [p \in Process |-> IF p = Shell THEN "RUNNING" ELSE "DEAD"]
    /\ parent = [p \in Process |-> IF p = Shell THEN Idle ELSE None]
    /\ exit_requested = [p \in Process |-> FALSE]
    /\ exit_waited = [p \in Process |-> FALSE]
    /\ op = "none"

-----------------------------------------------------------------------------
(* Thread objects                                                          *)

\* thread_alloc_for_process and thread_append.
Alloc(t, p) ==
    /\ status[t] = "DEAD"
    /\ status' = [status EXCEPT ![t] = "READY"]
    /\ ring' = Append(ring, t)
    /\ proc' = [proc EXCEPT ![t] = p]
    /\ threads' = [threads EXCEPT ![p] = <<t>> \o @]
    /\ main_thread' = [main_thread EXCEPT ![p] = IF @ = None THEN t ELSE @]
    /\ UNCHANGED <<lifecycle, claimed, join_waiter>>

\* thread_remove_from_scheduler, then thread_free_object; the frame of the
\* object is cleared.  (Cleared: pc with the entry of t reset as well.)
Cleared(t) == [pc EXCEPT ![t] = "user"]

Free(t) ==
    LET p == proc[t]
        rest == Remove(threads[p], t)
    IN  /\ ring' = Remove(ring, t)
        /\ status' = [status EXCEPT ![t] = "DEAD"]
        /\ proc' = [proc EXCEPT ![t] = None]
        /\ threads' = [threads EXCEPT ![p] = rest]
        /\ main_thread' = [main_thread EXCEPT ![p] =
               IF @ # t THEN @ ELSE IF rest = <<>> THEN None ELSE Head(rest)]
        /\ lifecycle' = [lifecycle EXCEPT ![t] = "JOINABLE"]
        /\ claimed' = [claimed EXCEPT ![t] = FALSE]
        /\ join_waiter' = [join_waiter EXCEPT ![t] = None]

\* thread_unblock of the threads of a set.
Unblocked(s) == [t \in Thread \cup {Idle} |->
    IF t \in s /\ status[t] = "BLOCKED" THEN "READY" ELSE status[t]]

\* thread_block up to its call of schedule().
Block(t) == status' = [status EXCEPT ![t] = "BLOCKED"] /\ op' = "orphans"

Live(p) == {t \in Thread : proc[t] = p /\ status[t] \notin {"ZOMBIE", "DEAD"}}

-----------------------------------------------------------------------------
(* System calls on threads                                                 *)

\* process_create_thread.
ThreadCreate(t, n) ==
    /\ "create" \in Calls /\ User(t) /\ ~exit_requested[proc[t]]
    /\ Alloc(n, proc[t])
    /\ Goto(t, "ret")
    /\ UNCHANGED <<target, procs, op>>

\* Both thread_join and thread_detach first claim their target.
Claims(t, n) ==
    /\ User(t) /\ n # t /\ proc[n] = proc[t]
    /\ lifecycle[n] \in {"JOINABLE", "JOINABLE_ZOMBIE"} /\ ~claimed[n]

\* Mutant of ThreadJoin: lifecycle_claimed is not set.
ThreadJoin_unclaimed(t, n) ==
    /\ "join" \in Calls /\ Claims(t, n)
    /\ target' = [target EXCEPT ![t] = n]
    /\ Goto(t, "join")
    /\ IF status[n] = "ZOMBIE"
         THEN UNCHANGED <<sched, join_waiter, op>>
         ELSE Block(t) /\ join_waiter' = [join_waiter EXCEPT ![n] = t] /\ UNCHANGED ring
    /\ UNCHANGED <<lifecycle, claimed, links, procs>>

\* thread_join up to the block, or to its end if the target is a zombie.
ThreadJoin(t, n) ==
    /\ "join" \in Calls /\ Claims(t, n)
    /\ claimed' = [claimed EXCEPT ![n] = TRUE]
    /\ target' = [target EXCEPT ![t] = n]
    /\ Goto(t, "join")
    /\ IF status[n] = "ZOMBIE"
         THEN UNCHANGED <<sched, join_waiter, op>>
         ELSE Block(t) /\ join_waiter' = [join_waiter EXCEPT ![n] = t] /\ UNCHANGED ring
    /\ UNCHANGED <<lifecycle, links, procs>>

\* Back in the loop of thread_join.
JoinBlocks(t) ==
    /\ At(t, "join") /\ status[target[t]] # "ZOMBIE"
    /\ Block(t)
    /\ UNCHANGED <<ring, thrs, links, procs>>

JoinReaps(t) ==
    /\ At(t, "join") /\ status[target[t]] = "ZOMBIE"
    /\ Free(target[t])
    /\ target' = [target EXCEPT ![t] = None]
    /\ pc' = [Cleared(target[t]) EXCEPT ![t] = "ret"]
    /\ UNCHANGED <<procs, op>>

\* thread_detach; a zombie is freed at once.
ThreadDetach(t, n) ==
    /\ "detach" \in Calls /\ Claims(t, n)
    /\ IF status[n] = "ZOMBIE"
         THEN Free(n) /\ pc' = [Cleared(n) EXCEPT ![t] = "ret"]
         ELSE /\ claimed' = [claimed EXCEPT ![n] = TRUE]
              /\ lifecycle' = [lifecycle EXCEPT ![n] = "DETACHED"]
              /\ Goto(t, "ret")
              /\ UNCHANGED <<sched, links, join_waiter>>
    /\ UNCHANGED <<target, procs, op>>

\* Mutant of Zombie: the two cases are exchanged.
Zombie_swapped(t) == IF lifecycle[t] # "DETACHED" THEN "DETACHED_ZOMBIE" ELSE "JOINABLE_ZOMBIE"

Zombie(t) == IF lifecycle[t] = "DETACHED" THEN "DETACHED_ZOMBIE" ELSE "JOINABLE_ZOMBIE"

\* thread_exit_with_status of a thread that is not the last one alive.
ThreadExit(t) ==
    /\ User(t) /\ Cardinality(Live(proc[t])) > 1
    /\ status' = [Unblocked({join_waiter[t]}) EXCEPT ![t] = "ZOMBIE"]
    /\ lifecycle' = [lifecycle EXCEPT ![t] = Zombie(t)]
    /\ Goto(t, "dead")
    /\ op' = "orphans"
    /\ UNCHANGED <<ring, claimed, join_waiter, target, links, procs>>

Sleep(t) ==
    /\ "sleep" \in Calls /\ User(t)
    /\ Block(t)
    /\ Goto(t, "sleep")
    /\ UNCHANGED <<ring, lifecycle, claimed, join_waiter, target, links, procs>>

\* timer_wake_sleepers when the time of t has come.
TimerWake(t) ==
    /\ InterruptsOn /\ pc[t] = "sleep" /\ status[t] = "BLOCKED"
    /\ status' = Unblocked({t})
    /\ UNCHANGED <<ring, thrs, links, procs, op>>

SleepReturns(t) ==
    /\ At(t, "sleep")
    /\ Goto(t, "ret")
    /\ UNCHANGED <<sched, lifecycle, claimed, join_waiter, target, links, procs, op>>

Yield(t) ==
    /\ User(t)
    /\ Goto(t, "ret")
    /\ op' = "orphans"
    /\ UNCHANGED <<sched, lifecycle, claimed, join_waiter, target, links, procs>>

-----------------------------------------------------------------------------
(* System calls on processes                                               *)

\* execute_elf_args or process_fork, once the image is in place.  The pid of
\* a process someone still waits for is not used again.
Spawn(t, p, n) ==
    /\ "spawn" \in Calls /\ User(t)
    /\ pstate[p] = "DEAD" /\ \A u \in Thread : target[u] # p
    /\ pstate' = [pstate EXCEPT ![p] = "RUNNING"]
    /\ parent' = [parent EXCEPT ![p] = proc[t]]
    /\ Alloc(n, p)
    /\ Goto(t, "ret")
    /\ UNCHANGED <<target, exit_requested, exit_waited, op>>

\* reap_process changes something.
Reapable(p) ==
    /\ pstate[p] = "ZOMBIE" /\ Len(threads[p]) = 1
    /\ main_thread[p] \notin {None, Current} /\ status[main_thread[p]] = "ZOMBIE"

\* The rest of reap_process; the process object is cleared, too.
Reap(p) ==
    /\ Free(main_thread[p])
    /\ pstate' = [pstate EXCEPT ![p] = "DEAD"]
    /\ parent' = [parent EXCEPT ![p] = None]
    /\ exit_requested' = [exit_requested EXCEPT ![p] = FALSE]
    /\ exit_waited' = [exit_waited EXCEPT ![p] = FALSE]

\* find_child
Children(t, w) == {p \in Process : parent[p] = proc[t] /\ w \in {p, AnyChild}}
Exited(t, w) == {p \in Children(t, w) : pstate[p] = "ZOMBIE"}

\* process_wait finds a child to report, and reaps it if it can.
WaitReports(t, w, p) ==
    /\ p \in Exited(t, w)
    /\ IF Reapable(p)
         THEN Reap(p) /\ pc' = [Cleared(main_thread[p]) EXCEPT ![t] = "ret"]
         ELSE /\ exit_waited' = [exit_waited EXCEPT ![p] = TRUE]
              /\ Goto(t, "ret")
              /\ UNCHANGED <<sched, lifecycle, claimed, join_waiter, links,
                             pstate, parent, exit_requested>>
    /\ target' = [target EXCEPT ![t] = None]
    /\ UNCHANGED op

\* There is no child, or (WAIT_NOHANG) none that has exited.
WaitFails(t) ==
    /\ Goto(t, "ret")
    /\ target' = [target EXCEPT ![t] = None]
    /\ UNCHANGED <<sched, lifecycle, claimed, join_waiter, links, procs, op>>

WaitBlocks(t, w) ==
    /\ Children(t, w) # {} /\ Exited(t, w) = {}
    /\ Block(t)
    /\ Goto(t, "wait")
    /\ target' = [target EXCEPT ![t] = w]
    /\ UNCHANGED <<ring, lifecycle, claimed, join_waiter, links, procs>>

\* process_wait
Wait(t, w) ==
    /\ "wait" \in Calls /\ User(t)
    /\ \/ \E p \in Process : WaitReports(t, w, p)
       \/ Exited(t, w) = {} /\ WaitFails(t)
       \/ WaitBlocks(t, w)

\* The loop of process_wait, after it has been woken.
WaitAgain(t) ==
    /\ At(t, "wait")
    /\ \/ \E p \in Process : WaitReports(t, target[t], p)
       \/ Children(t, target[t]) = {} /\ WaitFails(t)
       \/ WaitBlocks(t, target[t])

\* request_process_termination
Terminate(p) ==
    /\ pstate[p] = "RUNNING"
    /\ exit_requested' = [exit_requested EXCEPT ![p] = TRUE]
    /\ status' = Unblocked({t \in Thread : proc[t] = p})
    /\ UNCHANGED <<ring, links, lifecycle, claimed, join_waiter, target,
                   pstate, parent, exit_waited, op>>

Kill(t, p) ==
    /\ "kill" \in Calls /\ User(t) /\ p # proc[t]
    /\ Terminate(p)
    /\ Goto(t, "ret")

\* Ctrl+C; the process may be the one that runs.
TerminalSignal(p) ==
    /\ "kill" \in Calls /\ InterruptsOn
    /\ Terminate(p)
    /\ UNCHANGED pc

-----------------------------------------------------------------------------
(* process_exit                                                            *)

ExitBegin(t) ==
    /\ exit_requested' = [exit_requested EXCEPT ![proc[t]] = TRUE]
    /\ Goto(t, "dead")
    /\ op' = "exit"
    /\ UNCHANGED <<sched, lifecycle, claimed, join_waiter, target, links,
                   pstate, parent, exit_waited>>

\* exit, kill of the own process, a fatal fault, or the exit of the last thread.
Exit(t) == User(t) /\ ExitBegin(t)

ExitVictim(v) ==
    /\ op = "exit" /\ v # Current /\ proc[v] = proc[Current]
    /\ Free(v)
    /\ pc' = Cleared(v)
    /\ target' = [target EXCEPT ![v] = None]
    /\ UNCHANGED <<procs, op>>

Orphaned(p) == [c \in Process |-> IF parent[c] = p THEN None ELSE parent[c]]
ParentMain(p) == IF parent[p] \in Process THEN main_thread[parent[p]] ELSE Idle

\* Mutants of ExitEnd: the children keep their parent; the parent is looked
\* up too late to be woken.
ExitEnd_keeps_children ==
    LET t == Current  p == proc[t] IN
    /\ op = "exit" /\ threads[p] = <<t>>
    /\ pstate' = [pstate EXCEPT ![p] = "ZOMBIE"]
    /\ status' = [Unblocked({ParentMain(p)}) EXCEPT ![t] = "ZOMBIE"]
    /\ lifecycle' = [lifecycle EXCEPT ![t] = Zombie(t)]
    /\ op' = "orphans"
    /\ UNCHANGED <<ring, claimed, join_waiter, pc, target, links, parent,
                   exit_requested, exit_waited>>

ExitEnd_silent ==
    LET t == Current  p == proc[t] IN
    /\ op = "exit" /\ threads[p] = <<t>>
    /\ pstate' = [pstate EXCEPT ![p] = "ZOMBIE"]
    /\ status' = [status EXCEPT ![t] = "ZOMBIE"]
    /\ lifecycle' = [lifecycle EXCEPT ![t] = Zombie(t)]
    /\ parent' = Orphaned(p)
    /\ op' = "orphans"
    /\ UNCHANGED <<ring, claimed, join_waiter, pc, target, links,
                   exit_requested, exit_waited>>

ExitEnd ==
    LET t == Current  p == proc[t] IN
    /\ op = "exit" /\ threads[p] = <<t>>
    /\ pstate' = [pstate EXCEPT ![p] = "ZOMBIE"]
    /\ status' = [Unblocked({ParentMain(p)}) EXCEPT ![t] = "ZOMBIE"]
    /\ lifecycle' = [lifecycle EXCEPT ![t] = Zombie(t)]
    /\ parent' = Orphaned(p)
    /\ op' = "orphans"
    /\ UNCHANGED <<ring, claimed, join_waiter, pc, target, links,
                   exit_requested, exit_waited>>

\* Mutant of SyscallReturn: a marked thread goes back to user mode.
SyscallReturn_unchecked(t) ==
    /\ At(t, "ret")
    /\ Goto(t, "user")
    /\ UNCHANGED <<sched, lifecycle, claimed, join_waiter, target, links, procs, op>>

\* The end of syscall_handler.
SyscallReturn(t) ==
    /\ At(t, "ret")
    /\ \/ exit_requested[proc[t]] /\ ExitBegin(t)
       \/ /\ ~exit_requested[proc[t]]
          /\ Goto(t, "user")
          /\ UNCHANGED <<sched, lifecycle, claimed, join_waiter, target, links, procs, op>>

-----------------------------------------------------------------------------
(* The timer interrupt and schedule()                                      *)

\* A tick that does not end the time slice.
Tick(t) ==
    /\ User(t) /\ exit_requested[proc[t]]
    /\ ExitBegin(t)

\* A tick that ends it; the way back to user mode is that of a system call.
Preempt ==
    /\ InterruptsOn
    /\ IF Current = Idle THEN UNCHANGED pc ELSE Goto(Current, "ret")
    /\ op' = "orphans"
    /\ UNCHANGED <<sched, lifecycle, claimed, join_waiter, target, links, procs>>

IsOrphan(p) == parent[p] = None /\ Reapable(p)

\* process_reap_orphans
ReapOrphan(p) ==
    /\ op = "orphans" /\ IsOrphan(p)
    /\ Reap(p)
    /\ pc' = Cleared(main_thread[p])
    /\ UNCHANGED <<target, op>>

\* The orphans have been seen to: schedule() goes on to the detached threads.
OrphansDone ==
    /\ op \in {"orphans", "detached"}
    /\ op = "orphans" => \A p \in Process : ~IsOrphan(p)

IsDetachedZombie(t) ==
    t \in Range(ring) /\ t # Current /\ status[t] = "ZOMBIE" /\ lifecycle[t] = "DETACHED_ZOMBIE"

\* thread_reap_detached
ReapDetached(t) ==
    /\ OrphansDone /\ IsDetachedZombie(t)
    /\ op' = "detached"
    /\ Free(t)
    /\ pc' = Cleared(t)
    /\ UNCHANGED <<target, procs>>

Ready == {i \in 2 .. Len(ring) : status[ring[i]] = "READY"}

\* The rest of schedule(): the next ready thread after the current one runs.
Switch ==
    /\ OrphansDone /\ \A t \in Thread : ~IsDetachedZombie(t)
    /\ op' = "none"
    /\ IF Ready = {} THEN UNCHANGED sched
       ELSE LET i == CHOOSE i \in Ready : \A j \in Ready : i <= j IN
            /\ ring' = SubSeq(ring, i, Len(ring)) \o SubSeq(ring, 1, i - 1)
            /\ status' = [status EXCEPT
                 ![ring[i]] = "RUNNING",
                 ![Current] = IF @ = "RUNNING" THEN "READY" ELSE @]
    /\ UNCHANGED <<thrs, links, procs>>

-----------------------------------------------------------------------------
\* What a thread does in user mode is its own choice.
UserStep ==
    \/ \E t, n \in Thread : ThreadCreate(t, n) \/ ThreadJoin(t, n) \/ ThreadDetach(t, n)
    \/ \E t \in Thread : ThreadExit(t) \/ Sleep(t) \/ Yield(t) \/ Exit(t)
    \/ \E t, n \in Thread, p \in Process : Spawn(t, p, n)
    \/ \E t \in Thread, w \in Process \cup {AnyChild} : Wait(t, w)
    \/ \E t \in Thread, p \in Process : Kill(t, p)
    \/ \E p \in Process : TerminalSignal(p)

\* What the kernel has begun it goes on with.
KernelStep ==
    \/ \E t \in Thread : JoinBlocks(t) \/ JoinReaps(t) \/ SleepReturns(t) \/ WaitAgain(t)
    \/ \E t \in Thread : SyscallReturn(t) \/ ExitVictim(t) \/ ReapDetached(t)
    \/ \E p \in Process : ReapOrphan(p)
    \/ ExitEnd \/ Switch

Next ==
    \/ UserStep \/ KernelStep \/ Preempt
    \/ \E t \in Thread : TimerWake(t) \/ Tick(t)

\* The kernel is not stopped, and ticks that end a time slice keep coming: a
\* tick raised while interrupts are off is taken when they are on again.
\* A sleep has an end.  Nothing is assumed of what programs do.
Fairness ==
    /\ WF_vars(KernelStep) /\ SF_vars(Preempt)
    /\ \A t \in Thread : SF_vars(TimerWake(t))

Spec == Init /\ [][Next]_vars /\ Fairness
-----------------------------------------------------------------------------
(* Properties                                                              *)

TypeOK ==
    /\ ring \in Seq(Thread \cup {Idle}) /\ ring # <<>>
    /\ status \in [Thread \cup {Idle} ->
                     {"READY", "RUNNING", "BLOCKED", "ZOMBIE", "DEAD"}]
    /\ lifecycle \in [Thread -> {"JOINABLE", "JOINABLE_ZOMBIE",
                                 "DETACHED", "DETACHED_ZOMBIE"}]
    /\ claimed \in [Thread -> BOOLEAN]
    /\ join_waiter \in [Thread -> Thread \cup {None}]
    /\ proc \in [Thread -> Process \cup {None}]
    /\ pc \in [Thread -> {"user", "ret", "join", "wait", "sleep", "dead"}]
    /\ target \in [Thread -> Thread \cup Process \cup {AnyChild, None}]
    /\ threads \in [Process -> Seq(Thread)]
    /\ main_thread \in [Process -> Thread \cup {None}]
    /\ pstate \in [Process -> {"RUNNING", "ZOMBIE", "DEAD"}]
    /\ parent \in [Process -> Process \cup {Idle, None}]
    /\ exit_requested \in [Process -> BOOLEAN]
    /\ exit_waited \in [Process -> BOOLEAN]
    /\ op \in {"none", "exit", "orphans", "detached"}

\* What check_scheduler_invariants asserts and more: the ring holds each
\* thread object in use once and no freed one, and outside schedule() the
\* current thread is the only running one.
RingExact ==
    /\ IsInjective(ring)
    /\ Range(ring) = {t \in Thread \cup {Idle} : status[t] # "DEAD"}
    /\ {t \in Thread \cup {Idle} : status[t] = "RUNNING"} \subseteq {Current}
    /\ op \in {"none", "exit"} => status[Current] = "RUNNING"

\* The thread list of a process holds exactly its threads, main_thread is
\* one of them, a process that runs has a thread alive, and one that does
\* not has at most the thread that ended it.
ListsExact ==
    /\ \A p \in Process :
         /\ Range(threads[p]) = {t \in Thread : proc[t] = p} /\ IsInjective(threads[p])
         /\ main_thread[p] \in Range(threads[p]) \/ (threads[p] = <<>> /\ main_thread[p] = None)
         /\ pstate[p] = "RUNNING" => Live(p) # {}
         /\ pstate[p] # "RUNNING" => Len(threads[p]) <= 1 /\ Live(p) = {}
         /\ pstate[p] = "DEAD" => threads[p] = <<>>
    /\ \A t \in Thread : status[t] = "DEAD" <=> proc[t] = None

\* No process has a freed or exited one for its parent.
ParentsRun == \A p \in Process :
    pstate[p] # "DEAD" /\ parent[p] \in Process => pstate[parent[p]] = "RUNNING"

\* Ring, thread lists and process tree agree with each other and with the
\* states of the objects, whatever is created, ended, freed and used again.
StructureExact == TypeOK /\ RingExact /\ ListsExact /\ ParentsRun

\* The object a thread joins stays that thread until the join returns: no
\* one else joins, detaches or frees it ("of join and detach on one target
\* exactly one succeeds"), and the joiner does not sleep past its exit.
JoinSafe ==
    op # "exit" => \A t \in Thread : proc[t] # None /\ pc[t] = "join" =>
        LET n == target[t] IN
        /\ proc[n] = proc[t] /\ n # t
        /\ lifecycle[n] \in {"JOINABLE", "JOINABLE_ZOMBIE"}
        /\ \A u \in Thread : proc[u] # None /\ pc[u] = "join" /\ target[u] = n => u = t
        /\ status[t] = "BLOCKED" => status[n] # "ZOMBIE" /\ join_waiter[n] = t

\* A thread that waits for a child does not sleep while the child is a
\* zombie.  (Programs with one thread: process_exit wakes the main thread.)
WaitNotLost ==
    \A t \in Thread : pc[t] = "wait" /\ status[t] = "BLOCKED" =>
        Exited(t, target[t]) = {}

\* "The last thread alive then triggers the reclaim of the process": a child
\* whose exit has been reported to its parent is reclaimed, so it is
\* reported once.
ReportedOnce == \A p \in Process : ~(pstate[p] = "ZOMBIE" /\ exit_waited[p])

\* Every exited process whose parent is gone is reclaimed.
OrphansReclaimed ==
    \A p \in Process : pstate[p] = "ZOMBIE" /\ parent[p] = None ~> pstate[p] = "DEAD"

\* Killing a process ends it, unless a thread of it is asleep waiting for a
\* child or another thread: those loops block again after the kill.  (A
\* thread that Ctrl+C marks in user mode may still begin a sleep, and ends
\* after it.)
KillEnds ==
    \A p \in Process : exit_requested[p] ~>
        \/ pstate[p] # "RUNNING"
        \/ \E t \in Thread : /\ proc[t] = p /\ status[t] = "BLOCKED"
                             /\ pc[t] \in {"wait", "join"}
=============================================================================
