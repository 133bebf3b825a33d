------------------------------ MODULE UserSync ------------------------------
(***************************************************************************)
(* The user-space mutex and condition variable of usr/thread_runtime.h on  *)
(* top of the futex system calls, run by threads like those of the         *)
(* broadcast test of usr/sync_demo.c: waiters that wait under the mutex    *)
(* until a flag is set, and a main thread that sets it and broadcasts, and *)
(* clears it again (under the mutex, as the queue test does with           *)
(* queue_full) for the next round.                                         *)
(*                                                                         *)
(* Threads are preempted between any two of their atomic accesses; each    *)
(* access, and each futex system call, is one step.                        *)
(***************************************************************************)
EXTENDS Integers, FiniteSets

CONSTANTS
    Waiter,     \* threads running broadcast_waiter
    Main,       \* the thread running run_broadcast_test
    WakeCount,  \* 1 for user_cond_signal, all for user_cond_broadcast
    MaxSeq,     \* bound on the number of broadcasts
    None

Thread == Waiter \cup {Main}

ASSUME SyncAssumption ==
    /\ IsFiniteSet(Waiter) /\ Main \notin Waiter /\ None \notin Thread
    /\ WakeCount \in Nat \ {0} /\ MaxSeq \in Nat

VARIABLES
    state,      \* mutex: 0 free, 1 locked, 2 locked with waiters
    owner_tid,
    sequence,   \* of the condition variable
    released,   \* broadcast_release
    pc,
    seen,       \* the sequence user_cond_wait has read
    after,      \* where a thread goes on after user_mutex_unlock
    asleep      \* in futex_wait on "mutex" or "cond", or "no"

vars == <<state, owner_tid, sequence, released, pc, seen, after, asleep>>

Init ==
    /\ state = 0 /\ owner_tid = None /\ sequence = 0 /\ released = FALSE
    /\ pc = [t \in Thread |-> "lock"]
    /\ seen = [t \in Thread |-> 0]
    /\ after = [t \in Thread |-> "lock"]
    /\ asleep = [t \in Thread |-> "no"]

At(t, l) == pc[t] = l /\ asleep[t] = "no"
Goto(t, l) == pc' = [pc EXCEPT ![t] = l]

-----------------------------------------------------------------------------
(* The futex system calls                                                  *)

\* Mutant of FutexWait: the word is not compared again.
FutexWait_unchecked(t, w, equal) == asleep' = [asleep EXCEPT ![t] = w]

\* futex_wait: sleep if the word still has the expected value.
FutexWait(t, w, equal) ==
    asleep' = IF equal THEN [asleep EXCEPT ![t] = w] ELSE asleep

\* futex_wake: n sleepers on w, or all if there are fewer, are woken.
FutexWake(w, n) ==
    LET queue == {t \in Thread : asleep[t] = w} IN
    \E s \in SUBSET queue :
        /\ Cardinality(s) = n \/ (s = queue /\ Cardinality(queue) < n)
        /\ asleep' = [t \in Thread |-> IF t \in s THEN "no" ELSE asleep[t]]

-----------------------------------------------------------------------------
(* user_mutex_lock                                                         *)

\* The first compare-and-exchange, 0 -> 1.
LockFast(t) ==
    /\ At(t, "lock")
    /\ IF state = 0 THEN state' = 1 /\ Goto(t, "own")
                    ELSE UNCHANGED state /\ Goto(t, "slow")
    /\ UNCHANGED <<owner_tid, sequence, released, seen, after, asleep>>

LockOwner(t) ==
    /\ At(t, "own")
    /\ owner_tid' = t
    /\ Goto(t, "crit")
    /\ UNCHANGED <<state, sequence, released, seen, after, asleep>>

\* Mutant of LockPromote: the 1 -> 2 transition counts as an acquisition.
LockPromote_takes(t) ==
    /\ At(t, "slow")
    /\ state' = IF state = 1 THEN 2 ELSE state
    /\ Goto(t, CASE state = 0 -> "slow" [] state = 1 -> "own" [] OTHER -> "sleep")
    /\ UNCHANGED <<owner_tid, sequence, released, seen, after, asleep>>

\* One turn of the loop: the compare-and-exchange 1 -> 2, and the next turn
\* at once if the state was 0.
LockPromote(t) ==
    /\ At(t, "slow")
    /\ state' = IF state = 1 THEN 2 ELSE state
    /\ Goto(t, IF state = 0 THEN "slow" ELSE "sleep")
    /\ UNCHANGED <<owner_tid, sequence, released, seen, after, asleep>>

LockSleep(t) ==
    /\ At(t, "sleep")
    /\ FutexWait(t, "mutex", state = 2)
    /\ Goto(t, "slow")
    /\ UNCHANGED <<state, owner_tid, sequence, released, seen, after>>

-----------------------------------------------------------------------------
(* user_mutex_unlock                                                       *)

\* The owner is cleared; a thread that is not the owner gets -1 and gives up.
UnlockOwner(t) ==
    /\ At(t, "unlock")
    /\ IF owner_tid = t /\ state # 0
         THEN owner_tid' = None /\ Goto(t, "xchg")
         ELSE UNCHANGED owner_tid /\ Goto(t, "failed")
    /\ UNCHANGED <<state, sequence, released, seen, after, asleep>>

\* Mutant of UnlockExchange: no one is woken.
UnlockExchange_silent(t) ==
    /\ At(t, "xchg")
    /\ state' = 0
    /\ Goto(t, after[t])
    /\ UNCHANGED <<owner_tid, sequence, released, seen, after, asleep>>

UnlockExchange(t) ==
    /\ At(t, "xchg")
    /\ state' = 0
    /\ Goto(t, IF state = 2 THEN "wake" ELSE after[t])
    /\ UNCHANGED <<owner_tid, sequence, released, seen, after, asleep>>

UnlockWake(t) ==
    /\ At(t, "wake")
    /\ FutexWake("mutex", 1)
    /\ Goto(t, after[t])
    /\ UNCHANGED <<state, owner_tid, sequence, released, seen, after>>

-----------------------------------------------------------------------------
(* broadcast_waiter with user_cond_wait                                    *)

\* Released: unlock and be done (the next round begins with a lock).
\* Otherwise user_cond_wait reads the sequence, unlocks and sleeps.
WaiterChecks(t) ==
    /\ t \in Waiter /\ At(t, "crit")
    /\ after' = [after EXCEPT ![t] = IF released THEN "lock" ELSE "cond"]
    /\ seen' = IF released THEN seen ELSE [seen EXCEPT ![t] = sequence]
    /\ Goto(t, "unlock")
    /\ UNCHANGED <<state, owner_tid, sequence, released, asleep>>

\* Mutant of CondSleep: the sequence is read after the mutex is unlocked.
CondSleep_late(t) ==
    /\ At(t, "cond")
    /\ FutexWait(t, "cond", TRUE)
    /\ Goto(t, "lock")
    /\ UNCHANGED <<state, owner_tid, sequence, released, seen, after>>

\* The futex wait of user_cond_wait, then user_mutex_lock.
CondSleep(t) ==
    /\ At(t, "cond")
    /\ FutexWait(t, "cond", sequence = seen[t])
    /\ Goto(t, "lock")
    /\ UNCHANGED <<state, owner_tid, sequence, released, seen, after>>

-----------------------------------------------------------------------------
(* run_broadcast_test with user_cond_broadcast                             *)

MainReleases ==
    /\ At(Main, "crit") /\ (released \/ sequence < MaxSeq)
    /\ released' = ~released
    /\ after' = [after EXCEPT ![Main] = "lock"]
    /\ Goto(Main, IF released THEN "unlock" ELSE "notify")
    /\ UNCHANGED <<state, owner_tid, sequence, seen, asleep>>

Notify ==
    /\ At(Main, "notify")
    /\ sequence' = sequence + 1
    /\ Goto(Main, "nwake")
    /\ UNCHANGED <<state, owner_tid, released, seen, after, asleep>>

NotifyWake ==
    /\ At(Main, "nwake")
    /\ FutexWake("cond", WakeCount)
    /\ Goto(Main, "unlock")
    /\ UNCHANGED <<state, owner_tid, sequence, released, seen, after>>

\* The test is over once the rounds are used up.
MainEnds ==
    /\ At(Main, "crit") /\ ~released /\ sequence = MaxSeq
    /\ UNCHANGED vars

-----------------------------------------------------------------------------
Step(t) ==
    \/ LockFast(t) \/ LockOwner(t) \/ LockPromote(t) \/ LockSleep(t)
    \/ UnlockOwner(t) \/ UnlockExchange(t) \/ UnlockWake(t)
    \/ WaiterChecks(t) \/ CondSleep(t)
    \/ t = Main /\ (MainReleases \/ Notify \/ NotifyWake \/ MainEnds)

Next == \E t \in Thread : Step(t)

\* Every ready thread gets time slices (round robin, timer preemption).
Spec == Init /\ [][Next]_vars /\ \A t \in Thread : WF_vars(Step(t))

-----------------------------------------------------------------------------
(* Properties                                                              *)

TypeOK ==
    /\ state \in 0 .. 2 /\ owner_tid \in Thread \cup {None}
    /\ sequence \in 0 .. MaxSeq /\ released \in BOOLEAN
    /\ pc \in [Thread -> {"lock", "own", "slow", "sleep", "crit", "unlock",
                          "xchg", "wake", "cond", "notify", "nwake", "failed"}]
    /\ seen \in [Thread -> 0 .. MaxSeq]
    /\ after \in [Thread -> {"lock", "cond"}]
    /\ asleep \in [Thread -> {"no", "mutex", "cond"}]

Holders == {t \in Thread :
              pc[t] \in {"own", "crit", "unlock", "xchg", "notify", "nwake"}}

\* At most one thread is between a successful user_mutex_lock and the
\* exchange of user_mutex_unlock, the word is 0 exactly when none is, and no
\* unlock by a holder returns -1 (sync_demo counts that as a failure).
MutualExclusion ==
    /\ Cardinality(Holders) <= 1
    /\ state = 0 <=> Holders = {}
    /\ \A t \in Thread : pc[t] # "failed"

\* No lost wake-up on the mutex: while a thread sleeps on it, the holder
\* will wake one, or is about to, or another waiter is awake in the loop.
SleeperHasWaker ==
    (\E t \in Thread : asleep[t] = "mutex") =>
        \/ state = 2
        \/ \E u \in Thread : At(u, "wake") \/ At(u, "slow") \/ At(u, "sleep")

\* No lost broadcast: a waiter sleeps on the condition while the flag is set
\* only until the broadcast that follows the store.
NoLostBroadcast ==
    (\E t \in Waiter : asleep[t] = "cond") /\ released =>
        pc[Main] \in {"notify", "nwake"}

\* "Always takes the mutex again before it returns": a thread inside
\* user_mutex_lock does not go on forever without it while it is free.
LockTakesFreeMutex ==
    \A t \in Thread : ~<>[](pc[t] = "slow" /\ asleep[t] = "no" /\ state = 0)
=============================================================================
