--------------------------- MODULE UserSyncProofs ---------------------------
(***************************************************************************)
(* Theorems about the user-space mutex and condition variable (UserSync),  *)
(* for any number of waiters and any number of broadcasts: mutual          *)
(* exclusion, a waker for every sleeper on the mutex, and no lost          *)
(* broadcast.                                                              *)
(*                                                                         *)
(* The properties are not inductive by themselves.  The invariant adds     *)
(* where a thread can be when it sleeps (Asleep), that a holder beyond the *)
(* store of owner_tid is the owner (Owned), which code a waiter and the    *)
(* main thread run (Roles), and the reason why no broadcast is lost        *)
(* (Current): from the check of the flag to the futex call, a waiter whose *)
(* sequence is still the current one sees the flag clear, or the main      *)
(* thread has yet to count up.                                             *)
(***************************************************************************)
EXTENDS UserSync, FiniteSetTheorems, TLAPS

\* A thread sleeps only where it called futex_wait.
Asleep ==
    \A t \in Thread : /\ asleep[t] = "mutex" => pc[t] = "slow"
                      /\ asleep[t] = "cond" => pc[t] = "lock" /\ t \in Waiter

\* One thread has the mutex, and the word says whether.
Exclusive ==
    /\ \A t, u \in Holders : t = u
    /\ state = 0 <=> Holders = {}

Owned ==
    \A t \in Thread :
        /\ pc[t] \in {"crit", "unlock", "notify", "nwake"} => owner_tid = t
        /\ pc[t] # "failed"

Roles ==
    \A t \in Thread : /\ pc[t] \in {"notify", "nwake"} => t = Main
                      /\ pc[t] = "notify" => sequence < MaxSeq
                      /\ after[t] = "cond" => t \in Waiter
                      /\ pc[t] = "cond" => after[t] = "cond"

\* Waiter t has decided to wait and has not called futex_wait yet.
Deciding(t) ==
    after[t] = "cond" /\ pc[t] \in {"unlock", "xchg", "wake", "cond"}

Current ==
    \A t \in Thread :
        /\ seen[t] <= sequence
        /\ Deciding(t) /\ released /\ seen[t] = sequence => pc[Main] = "notify"

\* The inductive invariant of the mutex; that of the condition variable is
\* IInv /\ Current /\ NoLostBroadcast.
MutexInv == TypeOK /\ Asleep /\ Exclusive /\ Owned /\ Roles
IInv == MutexInv /\ SleeperHasWaker

-----------------------------------------------------------------------------
(* futex_wake and futex_wait                                               *)

\* futex_wake changes nothing but that some sleepers on w are awake.
Wakes(w) ==
    /\ asleep' \in [Thread -> {"no", "mutex", "cond"}]
    /\ \A t \in Thread : asleep'[t] = asleep[t] \/ (asleep[t] = w /\ asleep'[t] = "no")

LEMMA WakeFacts ==
    ASSUME TypeOK, NEW w, NEW n, FutexWake(w, n)
    PROVE  Wakes(w)
  <1>1. PICK s \in SUBSET {t \in Thread : asleep[t] = w} :
          asleep' = [t \in Thread |-> IF t \in s THEN "no" ELSE asleep[t]]
    BY DEF FutexWake
  <1>2. asleep \in [Thread -> {"no", "mutex", "cond"}]
    BY DEF TypeOK
  <1>. QED
    BY <1>1, <1>2 DEF Wakes

\* Sets of threads are finite.
LEMMA Counting ==
    ASSUME NEW S \in SUBSET Thread
    PROVE  /\ IsFiniteSet(S) /\ Cardinality(S) \in Nat
           /\ Cardinality(S) = 0 <=> S = {}
  <1>1. IsFiniteSet(Thread)
    BY SyncAssumption, FS_AddElement DEF Thread
  <1>2. IsFiniteSet(S)
    BY <1>1, FS_Subset
  <1>. QED
    BY <1>2, FS_CardinalityType, FS_EmptySet

\* A wake-up of at least one thread leaves a sleeper only if it woke one.
LEMMA WakesOne ==
    ASSUME TypeOK, NEW w, w # "no", NEW n \in Nat \ {0}, FutexWake(w, n),
           NEW t \in Thread, asleep[t] = w
    PROVE  \E u \in Thread : asleep[u] = w /\ asleep'[u] = "no"
  <1> DEFINE queue == {u \in Thread : asleep[u] = w}
  <1>1. PICK s \in SUBSET queue :
          /\ Cardinality(s) = n \/ (s = queue /\ Cardinality(queue) < n)
          /\ asleep' = [u \in Thread |-> IF u \in s THEN "no" ELSE asleep[u]]
    BY DEF FutexWake
  <1>2. t \in queue
    OBVIOUS
  <1>3. s # {}
    <2>1. CASE Cardinality(s) = n
      BY <2>1, Counting
    <2>2. CASE s = queue
      BY <1>2, <2>2
    <2>. QED
      BY <1>1, <2>1, <2>2
  <1>. QED
    BY <1>1, <1>3

\* A wake-up of as many threads as can wait leaves no sleeper.
LEMMA WakesAll ==
    ASSUME TypeOK, Asleep, WakeCount >= Cardinality(Waiter),
           FutexWake("cond", WakeCount), NEW t \in Thread
    PROVE  asleep'[t] # "cond"
  <1> DEFINE queue == {u \in Thread : asleep[u] = "cond"}
  <1>1. PICK s \in SUBSET queue :
          /\ \/ Cardinality(s) = WakeCount
             \/ s = queue /\ Cardinality(queue) < WakeCount
          /\ asleep' = [u \in Thread |-> IF u \in s THEN "no" ELSE asleep[u]]
    BY Zenon DEF FutexWake
  <1>2. queue \subseteq Waiter /\ queue \subseteq Thread /\ Waiter \subseteq Thread
    BY DEF Asleep, Thread
  <1>3. s = queue
    <2>. SUFFICES ASSUME Cardinality(s) = WakeCount PROVE s = queue
      BY <1>1
    <2>1. IsFiniteSet(Waiter) /\ IsFiniteSet(queue) /\ IsFiniteSet(s)
      BY <1>2, Counting
    <2>2. /\ Cardinality(Waiter) \in Nat /\ Cardinality(queue) \in Nat
          /\ WakeCount \in Nat
      BY <1>2, Counting, SyncAssumption
    <2>3. Cardinality(queue) <= Cardinality(Waiter)
      BY <1>2, <2>1, FS_Subset
    <2>4. Cardinality(s) <= Cardinality(queue)
      BY <2>1, FS_Subset
    <2>5. Cardinality(s) = Cardinality(queue)
      BY <2>2, <2>3, <2>4
    <2>. QED
      BY <2>1, <2>5, FS_Subset
  <1>. QED
    BY <1>1, <1>3

-----------------------------------------------------------------------------
(* The mutex                                                               *)

LEMMA MutexInit == Init => IInv
  <1>. SUFFICES ASSUME Init PROVE IInv
    OBVIOUS
  <1>1. TypeOK
    <2>1. 0 \in 0 .. MaxSeq /\ 0 \in 0 .. 2
      BY SyncAssumption
    <2>. QED
      BY Zenon, <2>1 DEF Init, TypeOK
  <1>2. Asleep /\ Owned /\ Roles
    BY DEF Init, Asleep, Owned, Roles
  <1>3. Exclusive
    BY DEF Init, Exclusive, Holders
  <1>4. SleeperHasWaker
    BY DEF Init, SleeperHasWaker
  <1>. QED
    BY <1>1, <1>2, <1>3, <1>4 DEF IInv, MutexInv

LEMMA TypeNext == ASSUME TypeOK, Roles, [Next]_vars PROVE TypeOK'
  <1>1. ASSUME NEW t \in Thread,
               LockFast(t) \/ LockOwner(t) \/ LockPromote(t) \/ UnlockOwner(t)
                 \/ UnlockExchange(t) \/ WaiterChecks(t)
        PROVE  TypeOK'
    BY <1>1 DEF TypeOK, LockFast, LockOwner, LockPromote, UnlockOwner,
      UnlockExchange, WaiterChecks, Goto, At
  <1>2. ASSUME NEW t \in Thread, LockSleep(t) \/ CondSleep(t)
        PROVE  TypeOK'
    BY <1>2 DEF TypeOK, LockSleep, CondSleep, FutexWait, Goto
  <1>3. ASSUME NEW t \in Thread, UnlockWake(t) \/ NotifyWake
        PROVE  TypeOK'
    <2>1. asleep' \in [Thread -> {"no", "mutex", "cond"}]
      BY <1>3, WakeFacts DEF UnlockWake, NotifyWake, Wakes
    <2>. QED
      BY <1>3, <2>1 DEF TypeOK, UnlockWake, NotifyWake, Goto, Thread
  <1>4. CASE MainReleases
    BY <1>4 DEF TypeOK, MainReleases, Goto, Thread
  <1>5. CASE Notify
    BY <1>5, SyncAssumption DEF TypeOK, Roles, Notify, Goto, At, Thread
  <1>6. CASE UNCHANGED vars
    BY <1>6 DEF TypeOK, vars
  <1>. QED
    BY <1>1, <1>2, <1>3, <1>4, <1>5, <1>6 DEF Next, Step, MainEnds

\* Where the mutex stands after a step, one case per action.
LEMMA ExclusiveNext == ASSUME MutexInv, [Next]_vars PROVE Exclusive'
  <1>0. /\ state \in 0 .. 2 /\ DOMAIN pc = Thread /\ DOMAIN after = Thread
        /\ \A t \in Thread : after[t] \in {"lock", "cond"}
        /\ Main \in Thread
    BY DEF MutexInv, TypeOK, Thread
  <1>1. ASSUME NEW t \in Thread, LockFast(t) PROVE Exclusive'
    <2>1. CASE state = 0
      <3>1. Holders' = {t} /\ state' = 1
        BY <1>0, <1>1, <2>1 DEF MutexInv, Exclusive, Holders, LockFast, Goto
      <3>. QED
        BY <3>1 DEF Exclusive
    <2>2. CASE state # 0
      <3>1. Holders' = Holders /\ state' = state
        BY <1>0, <1>1, <2>2 DEF Holders, LockFast, Goto, At
      <3>. QED
        BY <3>1 DEF MutexInv, Exclusive
    <2>. QED
      BY <2>1, <2>2
  <1>2. ASSUME NEW t \in Thread,
               LockOwner(t) \/ LockPromote(t) \/ LockSleep(t) \/ UnlockWake(t)
                 \/ CondSleep(t) \/ WaiterChecks(t)
        PROVE  Exclusive'
    <2>1. Holders' = Holders /\ (state' = 0 <=> state = 0)
      BY <1>0, <1>2 DEF Holders, LockOwner, LockPromote, LockSleep, UnlockWake,
        CondSleep, WaiterChecks, Goto, At
    <2>. QED
      BY <2>1 DEF MutexInv, Exclusive
  <1>3. ASSUME NEW t \in Thread, UnlockOwner(t) PROVE Exclusive'
    <2>1. t \in Holders /\ owner_tid = t
      BY <1>3 DEF UnlockOwner, At, Holders, MutexInv, Owned
    <2>2. state # 0
      BY <2>1 DEF MutexInv, Exclusive
    <2>3. Holders' = Holders /\ state' = state
      BY <1>0, <1>3, <2>1, <2>2 DEF Holders, UnlockOwner, Goto, At
    <2>. QED
      BY <2>3 DEF MutexInv, Exclusive
  <1>4. ASSUME NEW t \in Thread, UnlockExchange(t) PROVE Exclusive'
    <2>1. \A u \in Holders : u = t
      BY <1>4 DEF UnlockExchange, At, Holders, MutexInv, Exclusive
    <2>2. \A u \in Thread : u \notin Holders'
      BY <1>0, <1>4, <2>1 DEF Holders, UnlockExchange, Goto, At
    <2>3. state' = 0 /\ Holders' = {}
      BY <1>4, <2>2 DEF UnlockExchange, Holders
    <2>. QED
      BY <2>3 DEF Exclusive
  <1>5. CASE MainReleases \/ Notify \/ NotifyWake
    <2>1. Holders' = Holders /\ state' = state
      BY <1>0, <1>5 DEF Holders, MainReleases, Notify, NotifyWake, Goto, At
    <2>. QED
      BY <2>1 DEF MutexInv, Exclusive
  <1>6. CASE UNCHANGED vars
    BY <1>6 DEF vars, MutexInv, Exclusive, Holders
  <1>. QED
    BY <1>1, <1>2, <1>3, <1>4, <1>5, <1>6 DEF Next, Step, MainEnds

LEMMA OwnedNext == ASSUME MutexInv, [Next]_vars PROVE Owned'
  <1>0. /\ DOMAIN pc = Thread /\ DOMAIN after = Thread /\ Main \in Thread
        /\ \A t \in Thread : after[t] \in {"lock", "cond"}
    BY DEF MutexInv, TypeOK, Thread
  <1>1. ASSUME NEW t \in Thread,
               LockFast(t) \/ LockPromote(t) \/ LockSleep(t) \/ UnlockExchange(t)
                 \/ UnlockWake(t) \/ CondSleep(t) \/ WaiterChecks(t)
        PROVE  Owned'
    BY <1>0, <1>1 DEF MutexInv, Owned, LockFast, LockPromote, LockSleep,
      UnlockExchange, UnlockWake, CondSleep, WaiterChecks, Goto, At
  <1>2. ASSUME NEW t \in Thread, LockOwner(t) PROVE Owned'
    <2>1. \A u \in Thread :
            pc[u] \in {"crit", "unlock", "notify", "nwake"} => u = t
      BY <1>2 DEF MutexInv, Exclusive, Holders, LockOwner, At
    <2>. QED
      BY <1>0, <1>2, <2>1 DEF MutexInv, Owned, LockOwner, Goto
  <1>3. ASSUME NEW t \in Thread, UnlockOwner(t) PROVE Owned'
    <2>1. t \in Holders /\ owner_tid = t
      BY <1>3 DEF UnlockOwner, At, Holders, MutexInv, Owned
    <2>2. state # 0
      BY <2>1 DEF MutexInv, Exclusive
    <2>3. pc' = [pc EXCEPT ![t] = "xchg"]
      BY <1>3, <2>1, <2>2 DEF UnlockOwner, Goto
    <2>4. \A u \in Thread :
            pc[u] \in {"crit", "unlock", "notify", "nwake"} => u = t
      BY <2>1 DEF MutexInv, Exclusive, Holders
    <2>. QED
      BY <1>0, <2>3, <2>4 DEF MutexInv, Owned
  <1>4. CASE MainReleases \/ Notify \/ NotifyWake
    BY <1>0, <1>4 DEF MutexInv, Owned, MainReleases, Notify, NotifyWake, Goto, At
  <1>5. CASE UNCHANGED vars
    BY <1>5 DEF vars, MutexInv, Owned
  <1>. QED
    BY <1>1, <1>2, <1>3, <1>4, <1>5 DEF Next, Step, MainEnds

LEMMA AsleepNext == ASSUME MutexInv, [Next]_vars PROVE Asleep'
  <1>0. /\ DOMAIN pc = Thread /\ DOMAIN asleep = Thread /\ Main \in Thread
        /\ \A t \in Thread : asleep[t] \in {"no", "mutex", "cond"}
    BY DEF MutexInv, TypeOK, Thread
  <1>1. ASSUME NEW t \in Thread,
               LockFast(t) \/ LockOwner(t) \/ LockPromote(t) \/ UnlockOwner(t)
                 \/ UnlockExchange(t) \/ WaiterChecks(t)
        PROVE  Asleep'
    <2>1. asleep[t] = "no" /\ asleep' = asleep
      BY <1>1 DEF LockFast, LockOwner, LockPromote, UnlockOwner, UnlockExchange,
        WaiterChecks, At
    <2>2. \A u \in Thread : u # t => pc'[u] = pc[u]
      BY <1>0, <1>1 DEF LockFast, LockOwner, LockPromote, UnlockOwner,
        UnlockExchange, WaiterChecks, Goto
    <2>. QED
      BY <2>1, <2>2 DEF MutexInv, Asleep
  <1>2. ASSUME NEW t \in Thread, LockSleep(t) PROVE Asleep'
    BY <1>0, <1>2 DEF MutexInv, Asleep, LockSleep, FutexWait, Goto, At
  <1>3. ASSUME NEW t \in Thread, CondSleep(t) PROVE Asleep'
    BY <1>0, <1>3 DEF MutexInv, Asleep, Roles, CondSleep, FutexWait, Goto, At
  <1>4. ASSUME NEW t \in Thread, UnlockWake(t) PROVE Asleep'
    <2>1. Wakes("mutex") /\ asleep[t] = "no" /\ Goto(t, after[t])
      BY <1>4, WakeFacts DEF MutexInv, UnlockWake, At
    <2>. QED
      BY <1>0, <2>1 DEF MutexInv, Asleep, Wakes, Goto
  <1>5. CASE NotifyWake
    <2>1. Wakes("cond") /\ asleep[Main] = "no" /\ Goto(Main, "unlock")
      BY <1>5, WakeFacts DEF MutexInv, NotifyWake, At
    <2>. QED
      BY <1>0, <2>1 DEF MutexInv, Asleep, Wakes, Goto
  <1>6. CASE MainReleases \/ Notify
    BY <1>0, <1>6 DEF MutexInv, Asleep, MainReleases, Notify, Goto, At
  <1>7. CASE UNCHANGED vars
    BY <1>7 DEF vars, MutexInv, Asleep
  <1>. QED
    BY <1>1, <1>2, <1>3, <1>4, <1>5, <1>6, <1>7 DEF Next, Step, MainEnds

LEMMA RolesNext == ASSUME MutexInv, [Next]_vars PROVE Roles'
  <1>0. /\ DOMAIN pc = Thread /\ DOMAIN after = Thread /\ Main \in Thread
        /\ sequence \in Int /\ MaxSeq \in Int
        /\ \A t \in Thread : after[t] \in {"lock", "cond"}
    BY SyncAssumption DEF MutexInv, TypeOK, Thread
  <1>1. ASSUME NEW t \in Thread,
               LockFast(t) \/ LockOwner(t) \/ LockPromote(t) \/ LockSleep(t)
                 \/ UnlockOwner(t) \/ UnlockExchange(t) \/ UnlockWake(t)
                 \/ CondSleep(t)
        PROVE  Roles'
    <2>1. after' = after /\ sequence' = sequence
      BY <1>1 DEF LockFast, LockOwner, LockPromote, LockSleep, UnlockOwner,
        UnlockExchange, UnlockWake, CondSleep
    <2>2. \A u \in Thread :
            pc'[u] = pc[u] \/ pc'[u] = after[u]
              \/ pc'[u] \notin {"notify", "nwake", "cond"}
      BY <1>0, <1>1 DEF LockFast, LockOwner, LockPromote, LockSleep, UnlockOwner,
        UnlockExchange, UnlockWake, CondSleep, Goto
    <2>. QED
      BY <1>0, <2>1, <2>2 DEF MutexInv, Roles
  <1>2. ASSUME NEW t \in Thread, WaiterChecks(t) PROVE Roles'
    BY <1>0, <1>2 DEF MutexInv, Roles, WaiterChecks, Goto
  <1>3. CASE MainReleases
    BY <1>0, <1>3 DEF MutexInv, Roles, MainReleases, Goto
  <1>4. CASE Notify \/ NotifyWake
    BY <1>0, <1>4 DEF MutexInv, Roles, Notify, NotifyWake, Goto
  <1>5. CASE UNCHANGED vars
    BY <1>5 DEF vars, MutexInv, Roles
  <1>. QED
    BY <1>1, <1>2, <1>3, <1>4, <1>5 DEF Next, Step, MainEnds

LEMMA MutexNext == ASSUME MutexInv, [Next]_vars PROVE MutexInv'
  BY TypeNext, AsleepNext, ExclusiveNext, OwnedNext, RolesNext DEF MutexInv

-----------------------------------------------------------------------------
(* Sleepers on the mutex                                                   *)

\* u is about to wake a sleeper, or to try for the mutex again.
Waker(u) == At(u, "wake") \/ At(u, "slow") \/ At(u, "sleep")

LEMMA WakerNext ==
    ASSUME MutexInv, SleeperHasWaker, [Next]_vars
    PROVE  SleeperHasWaker'
  <1>0. /\ state \in 0 .. 2 /\ DOMAIN pc = Thread /\ DOMAIN asleep = Thread
        /\ Main \in Thread
        /\ \A t \in Thread : asleep[t] \in {"no", "mutex", "cond"}
    BY DEF MutexInv, TypeOK, Thread
  <1> DEFINE Sleeper == \E t \in Thread : asleep[t] = "mutex"
  \* A waker that the step does not move is a waker still.
  <1>a. ASSUME NEW t \in Thread, asleep' = asleep,
               \A u \in Thread : u # t => pc'[u] = pc[u],
               ~Waker(t) \/ state' = 2 \/ Waker(t)',
               state = 2 => state' = 2 \/ Waker(t)'
        PROVE  SleeperHasWaker'
    BY <1>a DEF SleeperHasWaker, Waker, At
  <1>1. ASSUME NEW t \in Thread,
               LockFast(t) \/ LockOwner(t) \/ UnlockOwner(t) \/ WaiterChecks(t)
        PROVE  SleeperHasWaker'
    <2>1. asleep' = asleep /\ (state = 2 => state' = 2) /\ ~Waker(t)
      BY <1>0, <1>1 DEF LockFast, LockOwner, UnlockOwner, WaiterChecks, At, Waker
    <2>2. \A u \in Thread : u # t => pc'[u] = pc[u]
      BY <1>0, <1>1 DEF LockFast, LockOwner, UnlockOwner, WaiterChecks, Goto
    <2>. QED
      BY <1>a, <2>1, <2>2
  <1>2. ASSUME NEW t \in Thread, LockPromote(t) PROVE SleeperHasWaker'
    <2>1. asleep' = asleep /\ (state = 2 => state' = 2) /\ Waker(t)'
      BY <1>0, <1>2 DEF LockPromote, At, Waker, Goto
    <2>2. \A u \in Thread : u # t => pc'[u] = pc[u]
      BY <1>0, <1>2 DEF LockPromote, Goto
    <2>. QED
      BY <1>a, <2>1, <2>2
  <1>3. ASSUME NEW t \in Thread, LockSleep(t) PROVE SleeperHasWaker'
    <2>1. CASE state = 2
      BY <1>3, <2>1 DEF LockSleep, SleeperHasWaker
    <2>2. CASE state # 2
      BY <1>0, <1>3, <2>2 DEF LockSleep, FutexWait, SleeperHasWaker, At, Goto
    <2>. QED
      BY <2>1, <2>2
  <1>4. ASSUME NEW t \in Thread, UnlockExchange(t) PROVE SleeperHasWaker'
    <2>1. asleep' = asleep /\ ~Waker(t) /\ (state = 2 => Waker(t)')
      BY <1>0, <1>4 DEF UnlockExchange, At, Waker, Goto
    <2>2. \A u \in Thread : u # t => pc'[u] = pc[u]
      BY <1>0, <1>4 DEF UnlockExchange, Goto
    <2>. QED
      BY <1>a, <2>1, <2>2
  <1>5. ASSUME NEW t \in Thread, UnlockWake(t), Sleeper' PROVE SleeperHasWaker'
    <2>1. Wakes("mutex") /\ asleep[t] = "no"
      BY <1>5, WakeFacts DEF MutexInv, UnlockWake, At
    <2>2. PICK s \in Thread : asleep[s] = "mutex"
      BY <1>5, <2>1 DEF Wakes
    <2>3. PICK u \in Thread : asleep[u] = "mutex" /\ asleep'[u] = "no"
      <3>1. FutexWake("mutex", 1) /\ TypeOK
        BY <1>5 DEF UnlockWake, MutexInv
      <3>. QED
        BY <2>2, <3>1, WakesOne
    <2>4. u # t /\ pc[u] = "slow"
      BY <2>1, <2>3 DEF MutexInv, Asleep
    <2>5. pc'[u] = "slow"
      BY <1>0, <1>5, <2>4 DEF UnlockWake, Goto
    <2>. QED
      BY <2>3, <2>5 DEF SleeperHasWaker, At
  <1>6. ASSUME NEW t \in Thread, CondSleep(t) PROVE SleeperHasWaker'
    <2>1. /\ \A u \in Thread : u # t => pc'[u] = pc[u] /\ asleep'[u] = asleep[u]
          /\ asleep'[t] # "mutex" /\ ~Waker(t) /\ state' = state
      BY <1>0, <1>6 DEF CondSleep, FutexWait, At, Waker, Goto
    <2>. QED
      BY <2>1 DEF SleeperHasWaker, Waker, At
  <1>7. CASE MainReleases \/ Notify
    <2>1. asleep' = asleep /\ state' = state /\ ~Waker(Main)
      BY <1>7 DEF MainReleases, Notify, At, Waker
    <2>2. \A u \in Thread : u # Main => pc'[u] = pc[u]
      BY <1>0, <1>7 DEF MainReleases, Notify, Goto
    <2>. QED
      BY <1>0, <1>a, <2>1, <2>2
  <1>8. CASE NotifyWake
    <2>1. Wakes("cond") /\ ~Waker(Main) /\ state' = state
      BY <1>8, WakeFacts DEF MutexInv, NotifyWake, At, Waker
    <2>2. \A u \in Thread : u # Main => pc'[u] = pc[u]
      BY <1>0, <1>8 DEF NotifyWake, Goto
    <2>3. \A u \in Thread : asleep'[u] = "mutex" => asleep[u] = "mutex"
      BY <2>1 DEF Wakes
    <2>4. \A u \in Thread : asleep[u] = "no" => asleep'[u] = "no"
      BY <2>1 DEF Wakes
    <2>. QED
      BY <2>1, <2>2, <2>3, <2>4 DEF SleeperHasWaker, Waker, At
  <1>9. CASE UNCHANGED vars
    BY <1>9 DEF vars, SleeperHasWaker, At
  <1>. QED
    <2>1. ASSUME NEW t \in Thread, UnlockWake(t) PROVE SleeperHasWaker'
      BY <1>5, <2>1 DEF SleeperHasWaker
    <2>. QED
      BY <1>1, <1>2, <1>3, <1>4, <2>1, <1>6, <1>7, <1>8, <1>9
        DEF Next, Step, MainEnds

-----------------------------------------------------------------------------
(* Broadcasts                                                              *)

LEMMA CurrentNext == ASSUME MutexInv, Current, [Next]_vars PROVE Current'
  <1>0. /\ DOMAIN pc = Thread /\ DOMAIN after = Thread /\ DOMAIN seen = Thread
        /\ Main \in Thread /\ sequence \in Nat /\ released \in BOOLEAN
        /\ \A t \in Thread : seen[t] \in Nat /\ after[t] \in {"lock", "cond"}
    BY SyncAssumption DEF MutexInv, TypeOK, Thread
  \* Steps that do not touch the flag and the sequence, and take no thread
  \* from deciding to wait to another place but through the unlock.
  <1>a. ASSUME NEW t \in Thread, pc[t] # "notify", UNCHANGED <<sequence, released>>,
               \A u \in Thread : u # t => pc'[u] = pc[u],
               seen' = seen /\ after' = after,
               Deciding(t)' => Deciding(t)
        PROVE  Current'
    <2>1. \A u \in Thread : Deciding(u)' => Deciding(u)
      BY <1>a DEF Deciding
    <2>2. pc[Main] = "notify" => pc'[Main] = "notify"
      BY <1>0, <1>a
    <2>. QED
      BY <1>a, <2>1, <2>2 DEF Current
  <1>1. ASSUME NEW t \in Thread, LockFast(t) \/ LockOwner(t) \/ LockPromote(t)
        PROVE  Current'
    <2>1. /\ pc[t] # "notify" /\ UNCHANGED <<sequence, released, seen, after>>
          /\ ~Deciding(t)' /\ \A u \in Thread : u # t => pc'[u] = pc[u]
      BY <1>0, <1>1 DEF LockFast, LockOwner, LockPromote, At, Goto, Deciding
    <2>. QED
      BY <1>a, <2>1
  <1>2. ASSUME NEW t \in Thread, LockSleep(t) \/ CondSleep(t) PROVE Current'
    <2>1. /\ pc[t] # "notify" /\ UNCHANGED <<sequence, released, seen, after>>
          /\ ~Deciding(t)' /\ \A u \in Thread : u # t => pc'[u] = pc[u]
      BY <1>0, <1>2 DEF LockSleep, CondSleep, At, Goto, Deciding
    <2>. QED
      BY <1>a, <2>1
  <1>3. ASSUME NEW t \in Thread,
               UnlockOwner(t) \/ UnlockExchange(t) \/ UnlockWake(t)
        PROVE  Current'
    <2>1. /\ pc[t] # "notify" /\ UNCHANGED <<sequence, released, seen, after>>
          /\ \A u \in Thread : u # t => pc'[u] = pc[u]
          /\ Deciding(t)' => Deciding(t)
      BY <1>0, <1>3 DEF UnlockOwner, UnlockExchange, UnlockWake, At, Goto, Deciding
    <2>. QED
      BY <1>a, <2>1
  <1>4. ASSUME NEW t \in Thread, WaiterChecks(t) PROVE Current'
    <2>1. /\ UNCHANGED <<sequence, released>> /\ pc[t] # "notify"
          /\ \A u \in Thread : u # t => /\ pc'[u] = pc[u] /\ seen'[u] = seen[u]
                                        /\ after'[u] = after[u]
          /\ pc[Main] = "notify" => pc'[Main] = "notify"
      BY <1>0, <1>4 DEF WaiterChecks, At, Goto
    <2>2. \A u \in Thread : u # t => (Deciding(u)' <=> Deciding(u))
      BY <2>1 DEF Deciding
    <2>3. CASE released
      <3>1. ~Deciding(t)' /\ seen'[t] = seen[t]
        BY <1>0, <1>4, <2>3 DEF WaiterChecks, Deciding
      <3>. QED
        BY <2>1, <2>2, <3>1 DEF Current
    <2>4. CASE ~released
      <3>1. seen'[t] = sequence /\ ~released'
        BY <1>0, <1>4, <2>4 DEF WaiterChecks
      <3>. QED
        BY <1>0, <2>1, <3>1 DEF Current
    <2>. QED
      BY <2>3, <2>4
  <1>5. CASE MainReleases
    <2>1. UNCHANGED <<sequence, seen>>
      BY <1>5 DEF MainReleases
    <2>2. released' => pc'[Main] = "notify"
      BY Zenon, <1>0, <1>5 DEF MainReleases, Goto
    <2>. QED
      BY <2>1, <2>2 DEF Current
  <1>6. CASE Notify
    <2>1. sequence' = sequence + 1 /\ seen' = seen
      BY <1>6 DEF Notify
    <2>. QED
      BY <1>0, <2>1 DEF Current
  <1>7. CASE NotifyWake
    <2>1. /\ UNCHANGED <<sequence, released, seen, after>> /\ pc[Main] # "notify"
          /\ \A u \in Thread : u # Main => pc'[u] = pc[u]
      BY <1>0, <1>7 DEF NotifyWake, Goto, At
    <2>2. Main \notin Waiter /\ after[Main] # "cond"
      BY <1>0, SyncAssumption DEF MutexInv, Roles
    <2>3. ~Deciding(Main)'
      BY <2>1, <2>2 DEF Deciding
    <2>. QED
      BY <1>0, <1>a, <2>1, <2>3
  <1>8. CASE UNCHANGED vars
    BY <1>8 DEF vars, Current, Deciding
  <1>. QED
    BY <1>1, <1>2, <1>3, <1>4, <1>5, <1>6, <1>7, <1>8 DEF Next, Step, MainEnds

LEMMA BroadcastNext ==
    ASSUME MutexInv, Current, NoLostBroadcast, [Next]_vars,
           WakeCount >= Cardinality(Waiter)
    PROVE  NoLostBroadcast'
  <1>0. /\ DOMAIN pc = Thread /\ DOMAIN asleep = Thread /\ released \in BOOLEAN
        /\ Main \in Thread /\ Waiter \subseteq Thread
    BY DEF MutexInv, TypeOK, Thread
  \* Steps that put no waiter to sleep on the condition.
  <1>a. ASSUME NEW t \in Thread, pc[t] \notin {"notify", "nwake"},
               \A u \in Thread : u # t => pc'[u] = pc[u],
               released' = released,
               \A u \in Waiter : asleep'[u] = "cond" => asleep[u] = "cond"
        PROVE  NoLostBroadcast'
    BY <1>0, <1>a DEF NoLostBroadcast
  <1>1. ASSUME NEW t \in Thread,
               LockFast(t) \/ LockOwner(t) \/ LockPromote(t) \/ UnlockOwner(t)
                 \/ UnlockExchange(t) \/ WaiterChecks(t)
        PROVE  NoLostBroadcast'
    <2>1. /\ pc[t] \notin {"notify", "nwake"} /\ UNCHANGED <<released, asleep>>
          /\ \A u \in Thread : u # t => pc'[u] = pc[u]
      BY <1>0, <1>1 DEF LockFast, LockOwner, LockPromote, UnlockOwner,
        UnlockExchange, WaiterChecks, At, Goto
    <2>. QED
      BY <1>a, <2>1
  <1>2. ASSUME NEW t \in Thread, LockSleep(t) PROVE NoLostBroadcast'
    <2>1. /\ pc[t] \notin {"notify", "nwake"} /\ released' = released
          /\ \A u \in Thread : u # t => pc'[u] = pc[u]
          /\ \A u \in Thread : asleep'[u] = "cond" => asleep[u] = "cond"
      BY <1>0, <1>2 DEF LockSleep, FutexWait, At, Goto
    <2>. QED
      BY <1>0, <1>a, <2>1
  <1>3. ASSUME NEW t \in Thread, UnlockWake(t) PROVE NoLostBroadcast'
    <2>1. Wakes("mutex")
      BY <1>3, WakeFacts DEF MutexInv, UnlockWake
    <2>2. \A u \in Waiter : asleep'[u] = "cond" => asleep[u] = "cond"
      BY <1>0, <2>1 DEF Wakes
    <2>3. /\ pc[t] \notin {"notify", "nwake"} /\ released' = released
          /\ \A u \in Thread : u # t => pc'[u] = pc[u]
      BY <1>0, <1>3 DEF UnlockWake, At, Goto
    <2>. QED
      BY <1>a, <2>2, <2>3
  <1>4. ASSUME NEW t \in Thread, CondSleep(t) PROVE NoLostBroadcast'
    <2>1. /\ pc[t] = "cond" /\ released' = released
          /\ \A u \in Thread : u # t => pc'[u] = pc[u]
          /\ \A u \in Thread : u # t => asleep'[u] = asleep[u]
      BY <1>0, <1>4 DEF CondSleep, FutexWait, At, Goto
    <2>2. CASE sequence = seen[t]
      <3>1. Deciding(t)
        BY <2>1 DEF Deciding, MutexInv, Roles
      <3>2. released => pc[Main] = "notify" /\ Main # t
        BY <2>1, <2>2, <3>1 DEF Current
      <3>3. released' => pc'[Main] = "notify"
        BY <1>0, <2>1, <3>2
      <3>. QED
        BY <3>3 DEF NoLostBroadcast
    <2>3. CASE sequence # seen[t]
      <3>1. asleep' = asleep
        BY <1>4, <2>3 DEF CondSleep, FutexWait
      <3>. QED
        BY <1>a, <2>1, <3>1
    <2>. QED
      BY <2>2, <2>3
  <1>5. CASE MainReleases
    <2>1. released' => pc'[Main] = "notify"
      BY Zenon, <1>0, <1>5 DEF MainReleases, Goto
    <2>. QED
      BY <2>1 DEF NoLostBroadcast
  <1>6. CASE Notify
    <2>1. pc'[Main] = "nwake"
      BY <1>0, <1>6 DEF Notify, Goto
    <2>. QED
      BY <2>1 DEF NoLostBroadcast
  <1>7. CASE NotifyWake
    <2>1. \A t \in Thread : asleep'[t] # "cond"
      BY <1>7, WakesAll DEF MutexInv, NotifyWake
    <2>. QED
      BY <1>0, <2>1 DEF NoLostBroadcast
  <1>8. CASE UNCHANGED vars
    BY <1>8 DEF vars, NoLostBroadcast
  <1>. QED
    BY <1>1, <1>2, <1>3, <1>4, <1>5, <1>6, <1>7, <1>8 DEF Next, Step, MainEnds

-----------------------------------------------------------------------------
(* Theorems                                                                *)

LEMMA AlwaysIInv == Spec => []IInv
  <1>1. IInv /\ [Next]_vars => IInv'
    BY MutexNext, WakerNext DEF IInv
  <1>. QED
    BY MutexInit, <1>1, PTL DEF Spec

\* Every variable of user_mutex_t, user_cond_t and of the threads keeps its
\* range; the sequence never passes the number of broadcasts.
THEOREM SyncTypes == Spec => []TypeOK
  <1>1. IInv => TypeOK
    BY DEF IInv, MutexInv
  <1>. QED
    BY AlwaysIInv, <1>1, PTL

\* user_mutex_lock and user_mutex_unlock exclude each other for any number of
\* threads: one holder at most, the word is 0 exactly when there is none, and
\* the owner test of user_mutex_unlock never fails for a holder.
THEOREM MutexExcludes == Spec => []MutualExclusion
  <1>1. ASSUME IInv PROVE MutualExclusion
    <2>1. Cardinality(Holders) <= 1
      <3>1. CASE Holders = {}
        BY <3>1, FS_EmptySet
      <3>2. ASSUME NEW t \in Holders PROVE Cardinality(Holders) <= 1
        <4>1. Holders = {t}
          BY <1>1 DEF IInv, MutexInv, Exclusive
        <4>. QED
          BY <4>1, FS_Singleton
      <3>. QED
        BY <3>1, <3>2
    <2>. QED
      BY <1>1, <2>1 DEF IInv, MutexInv, Exclusive, Owned, MutualExclusion
  <1>. QED
    BY AlwaysIInv, <1>1, PTL

\* The wake-up of user_mutex_unlock is never lost: while a thread sleeps on
\* the mutex word, the word is 2, or some thread is awake that will wake a
\* sleeper or try for the mutex itself.
THEOREM NoSleeperForgotten == Spec => []SleeperHasWaker
  <1>1. IInv => SleeperHasWaker
    BY DEF IInv
  <1>. QED
    BY AlwaysIInv, <1>1, PTL

\* user_cond_broadcast reaches every waiter: user_cond_wait reads the sequence
\* before it unlocks, so no waiter sleeps through the broadcast that follows
\* the store of the flag.  The count must cover all waiters, as it does for
\* the broadcast; user_cond_signal promises less.
THEOREM BroadcastReachesAll ==
    ASSUME WakeCount >= Cardinality(Waiter)
    PROVE  Spec => []NoLostBroadcast
  <1>1. Init => Current /\ NoLostBroadcast
    BY DEF Init, Current, NoLostBroadcast
  <1>2. IInv /\ Current /\ NoLostBroadcast /\ [Next]_vars
          => (Current /\ NoLostBroadcast)'
    BY CurrentNext, BroadcastNext DEF IInv
  <1>. QED
    BY AlwaysIInv, <1>1, <1>2, PTL DEF Spec
=============================================================================
