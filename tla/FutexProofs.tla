---------------------------- MODULE FutexProofs ----------------------------
(***************************************************************************)
(* Theorems about the futex wait queues (Futex), for any number of         *)
(* processes, threads, words and buckets and any hash: the lists are exact *)
(* at every step, and futex_wake stops only when it has done its work.     *)
(*                                                                         *)
(* The invariant adds to WaitersExact that a queued thread has a key, and  *)
(* what the walks over the lists have still to do (Walking): the node a    *)
(* walk has come to is queued in its bucket, and every waiter the walk     *)
(* looks for is behind that node, or in a bucket not yet visited.          *)
(*                                                                         *)
(* The nodes of a list are the least set closed under futex_next (From),   *)
(* so that what is on a list after a link changes follows from closed sets *)
(* before the change, without induction along the list.                    *)
(***************************************************************************)
EXTENDS Futex, TLAPS

\* A queued thread has the key of a word of its process.
Keyed == \A t \in Thread : waiting[t] => key[t] \in Key /\ key[t][1] = ProcOf[t]

\* The lists hold exactly the waiters.
Exact == \A b \in Bucket : Reach(b) = InBucket(b)

Waiters == {t \in Thread : waiting[t]}
Counted == waiter_count = Cardinality(Waiters)

\* The sleepers of futex_wait are the waiters.
Sleepers ==
    \A t \in Thread :
        /\ waiting[t] => status[t] = "BLOCKED" /\ pc[t] = "wait"
        /\ status[t] = "BLOCKED" /\ pc[t] = "wait" => waiting[t]

\* A walk has left no waiter that it looks for behind it.
Walking ==
    /\ op = "wake" => for \in Key /\ bkt = Hash[for] /\ woke <= limit
    /\ op \in {"kill", "exit"} => for \in Process
    /\ op # "none" =>
         /\ scan # None => waiting[scan] /\ Hash[key[scan]] = bkt
         /\ \A t \in Thread : waiting[t] /\ Matches(t) =>
              Hash[key[t]] > bkt \/ t \in From(scan)

\* The inductive invariant.
IInv == TypeOK /\ Keyed /\ Linked /\ Exact /\ Counted /\ Sleepers /\ Walking

\* The ranges that the steps on the lists rely on.
Shape ==
    /\ head \in [Bucket -> Thread \cup {None}]
    /\ next \in [Thread -> Thread \cup {None}]
    /\ prev \in [Thread -> Thread \cup {None}]
    /\ waiting \in [Thread -> BOOLEAN]
    /\ key \in [Thread -> Key \cup {None}]

\* What the counting below needs to know about finite sets.
CountFacts ==
    \A S \in SUBSET Thread :
        /\ Cardinality(S) \in Nat
        /\ \A t \in Thread \ S : Cardinality(S \cup {t}) = Cardinality(S) + 1
        /\ \A t \in S : Cardinality(S \ {t}) = Cardinality(S) - 1

LEMMA ShapeOf == TypeOK => Shape
  BY DEF TypeOK, Shape

LEMMA HashRange ==
    ASSUME NEW k \in Key
    PROVE  Hash[k] \in Bucket /\ Hash[k] \in Nat
  BY FutexAssumption DEF Bucket

-----------------------------------------------------------------------------
(* Lists as closed sets                                                    *)

LEMMA FromNone == From(None) = {}
  <1>1. {} \in SUBSET Thread /\ Closed({})
    BY DEF Closed
  <1>. QED
    BY <1>1 DEF From

LEMMA FromSelf == ASSUME NEW s \in Thread PROVE s \in From(s)
  BY FutexAssumption DEF From

\* A list is its first node and the list from the next one.
LEMMA FromStep ==
    ASSUME NEW s \in Thread, NEW t \in From(s), t # s
    PROVE  t \in From(next[s])
  <1>. SUFFICES ASSUME NEW S \in SUBSET Thread,
                       next[s] # None => next[s] \in S, Closed(S)
                PROVE  t \in S
    BY DEF From
  <1>1. Closed(S \cup {s})
    BY DEF Closed
  <1>2. S \cup {s} \in SUBSET Thread /\ s \in S \cup {s}
    OBVIOUS
  <1>3. t \in S \cup {s}
    BY <1>1, <1>2 DEF From
  <1>. QED
    BY <1>3

\* A well formed list holds only waiters of its bucket.
OnlyWaiters == \A b \in Bucket : Reach(b) \subseteq InBucket(b)

LEMMA ReachWaits == Shape /\ Linked => OnlyWaiters
  <1>. SUFFICES ASSUME Shape, Linked, NEW b \in Bucket
                PROVE  Reach(b) \subseteq InBucket(b)
    BY DEF OnlyWaiters
  <1>1. InBucket(b) \in SUBSET Thread
    BY DEF InBucket
  <1>2. head[b] # None => head[b] \in InBucket(b)
    BY DEF Shape, Linked, InBucket
  <1>3. Closed(InBucket(b))
    BY DEF Shape, Linked, InBucket, Closed
  <1>. QED
    BY <1>1, <1>2, <1>3 DEF Reach, From

LEMMA ReachWaitsNext ==
    ASSUME Shape', Linked', NEW b \in Bucket PROVE Reach(b)' \subseteq InBucket(b)'
  <1>1. (Shape /\ Linked => OnlyWaiters)'
    BY ReachWaits, PTL
  <1>. QED
    BY <1>1 DEF OnlyWaiters

-----------------------------------------------------------------------------
(* enqueue_waiter_locked                                                   *)

LEMMA EnqueueShape ==
    ASSUME Shape, NEW t \in Thread, NEW k \in Key, Enqueue(t, k)
    PROVE  Shape'
  BY HashRange DEF Shape, Enqueue

\* Pointer by pointer.
LEMMA EnqueueLinks ==
    ASSUME Shape, Linked, NEW t \in Thread, ~waiting[t], NEW k \in Key, Enqueue(t, k)
    PROVE  /\ waiting'[t] /\ key'[t] = k
           /\ next'[t] = head[Hash[k]] /\ prev'[t] = None
           /\ head[Hash[k]] # t /\ head'[Hash[k]] = t
           /\ \A b \in Bucket : b # Hash[k] => head'[b] = head[b]
           /\ \A u \in Thread : u # t =>
                /\ next'[u] = next[u] /\ waiting'[u] = waiting[u] /\ key'[u] = key[u]
                /\ prev'[u] = IF u = head[Hash[k]] THEN t ELSE prev[u]
  <1>1. Hash[k] \in Bucket
    BY HashRange
  <1>2. head[Hash[k]] # t
    BY <1>1, FutexAssumption DEF Linked
  <1>. QED
    BY <1>1, <1>2, FutexAssumption DEF Shape, Enqueue

LEMMA EnqueueLinked ==
    ASSUME Shape, Linked, Keyed, NEW t \in Thread, ~waiting[t], NEW k \in Key,
           Enqueue(t, k)
    PROVE  Linked'
  <1> DEFINE b == Hash[k]
  <1>0. b \in Bucket /\ None \notin Thread
    BY HashRange, FutexAssumption
  <1>1. /\ waiting'[t] /\ key'[t] = k /\ next'[t] = head[b] /\ prev'[t] = None
        /\ head[b] # t /\ head'[b] = t
        /\ \A c \in Bucket : c # b => head'[c] = head[c]
    BY EnqueueLinks
  <1>2. \A u \in Thread : u # t =>
          /\ next'[u] = next[u] /\ waiting'[u] = waiting[u] /\ key'[u] = key[u]
          /\ prev'[u] = IF u = head[b] THEN t ELSE prev[u]
    BY EnqueueLinks
  <1>3. /\ head[b] \in Thread \cup {None}
        /\ head[b] # None => /\ waiting[head[b]] /\ Hash[key[head[b]]] = b
                             /\ prev[head[b]] = None
    BY <1>0 DEF Shape, Linked
  <1> HIDE DEF b
  <1>4. ASSUME NEW u \in Thread, waiting'[u]
        PROVE  /\ next'[u] # None => waiting'[next'[u]] /\ prev'[next'[u]] = u
                                      /\ Hash[key'[next'[u]]] = Hash[key'[u]]
               /\ prev'[u] # None => waiting'[prev'[u]] /\ next'[prev'[u]] = u
               /\ prev'[u] = None => head'[Hash[key'[u]]] = u
    <2>1. CASE u = t
      BY <1>0, <1>1, <1>2, <1>3, <2>1 DEF b
    <2>2. CASE u # t
      <3>1. waiting[u]
        BY <1>2, <1>4, <2>2
      <3>2. next[u] # t /\ prev[u] # t
        BY <3>1, <1>0 DEF Linked
      <3>3. next[u] # None => next[u] # head[b]
        BY <1>0, <1>3, <3>1 DEF Linked
      <3>4. next[u] # None => /\ next[u] \in Thread /\ waiting[next[u]]
                              /\ prev[next[u]] = u
                              /\ Hash[key[next[u]]] = Hash[key[u]]
        BY <3>1 DEF Linked, Shape
      <3>5. next'[u] # None => waiting'[next'[u]] /\ prev'[next'[u]] = u
                                /\ Hash[key'[next'[u]]] = Hash[key'[u]]
        BY <1>2, <2>2, <3>2, <3>3, <3>4
      <3>6. CASE u = head[b]
        BY <1>0, <1>1, <1>2, <2>2, <3>5, <3>6
      <3>7. CASE u # head[b]
        <4>1. prev[u] # None => prev[u] \in Thread /\ waiting[prev[u]] /\ next[prev[u]] = u
          BY <3>1 DEF Linked, Shape
        <4>2. prev[u] = None => head[Hash[key[u]]] = u /\ Hash[key[u]] # b
          BY <3>1, <3>7 DEF Linked
        <4>3. prev[u] = None => head'[Hash[key[u]]] = u
          BY <1>1, <3>1, <4>2, HashRange DEF Keyed
        <4>. QED
          BY <1>2, <2>2, <3>2, <3>5, <3>7, <4>1, <4>3
      <3>. QED
        BY <3>6, <3>7
    <2>. QED
      BY <2>1, <2>2
  <1>5. ASSUME NEW c \in Bucket, head'[c] # None
        PROVE  waiting'[head'[c]] /\ Hash[key'[head'[c]]] = c /\ prev'[head'[c]] = None
    <2>1. CASE c = b
      BY <1>1, <2>1 DEF b
    <2>2. CASE c # b
      <3>1. /\ head'[c] = head[c] /\ head[c] \in Thread /\ waiting[head[c]]
            /\ Hash[key[head[c]]] = c /\ prev[head[c]] = None
        BY <1>1, <1>5, <2>2 DEF Linked, Shape
      <3>2. head[c] # t /\ head[c] # head[b]
        BY <1>0, <1>3, <2>2, <3>1
      <3>. QED
        BY <1>2, <3>1, <3>2
    <2>. QED
      BY <2>1, <2>2
  <1>6. ASSUME NEW u \in Thread, ~waiting'[u] PROVE next'[u] = None /\ prev'[u] = None
    <2>1. u # t /\ ~waiting[u] /\ next[u] = None /\ prev[u] = None
      BY <1>1, <1>2, <1>6 DEF Linked
    <2>2. u # head[b]
      BY <1>0, <1>3, <2>1
    <2>. QED
      BY <1>2, <2>1, <2>2
  <1>. QED
    BY <1>4, <1>5, <1>6 DEF Linked

LEMMA EnqueueExact ==
    ASSUME Shape, Linked, Keyed, Exact, NEW t \in Thread, ~waiting[t],
           NEW k \in Key, Enqueue(t, k)
    PROVE  Exact'
  <1>0. /\ next'[t] = head[Hash[k]] /\ next[t] = None /\ head'[Hash[k]] = t
        /\ key'[t] = k /\ None # t
        /\ \A b \in Bucket : b # Hash[k] => head'[b] = head[b]
        /\ \A u \in Thread : u # t =>
             next'[u] = next[u] /\ waiting'[u] = waiting[u] /\ key'[u] = key[u]
    <2>1. next[t] = None /\ None # t
      BY FutexAssumption DEF Linked
    <2>. QED
      BY <2>1, EnqueueLinks
  <1>1. ASSUME NEW S \in SUBSET Thread, Closed(S)' PROVE Closed(S)
    BY <1>0, <1>1 DEF Closed
  <1>2. ASSUME NEW b \in Bucket, NEW u \in InBucket(b)' PROVE u \in Reach(b)'
    <2>. SUFFICES ASSUME NEW S \in SUBSET Thread,
                         head'[b] # None => head'[b] \in S, Closed(S)'
                  PROVE  u \in S
      BY <1>2 DEF Reach, From, InBucket
    <2>1. CASE u = t
      BY <1>0, <2>1 DEF InBucket
    <2>2. CASE u # t
      <3>1. u \in Reach(b)
        BY <1>0, <2>2 DEF InBucket, Exact
      <3>2. head[b] # None => head[b] \in S
        <4>1. CASE b = Hash[k]
          BY <1>0, <4>1 DEF Closed
        <4>. QED
          BY <1>0, <4>1
      <3>. QED
        BY <1>1, <3>1, <3>2 DEF Reach, From
    <2>. QED
      BY <2>1, <2>2
  <1>3. Shape' /\ Linked'
    BY EnqueueShape, EnqueueLinked
  <1>. QED
    BY <1>2, <1>3, ReachWaitsNext DEF Exact

-----------------------------------------------------------------------------
(* unlink_waiter_locked                                                    *)

LEMMA UnlinkShape ==
    ASSUME Shape, NEW t \in Thread, NEW b \in Bucket, Unlink(b, t)
    PROVE  Shape'
  <1>1. next[t] \in Thread \cup {None} /\ prev[t] \in Thread \cup {None}
    BY DEF Shape
  <1>2. head' \in [Bucket -> Thread \cup {None}]
    BY <1>1 DEF Shape, Unlink
  <1>3. next' \in [Thread -> Thread \cup {None}]
    BY <1>1 DEF Shape, Unlink
  <1>4. prev' \in [Thread -> Thread \cup {None}]
    BY <1>1 DEF Shape, Unlink
  <1>5. waiting' \in [Thread -> BOOLEAN] /\ key' = key
    BY DEF Shape, Unlink
  <1>. QED
    BY <1>2, <1>3, <1>4, <1>5 DEF Shape

\* Pointer by pointer: who pointed to t points past it.
UnlinkFacts(t) ==
    /\ ~waiting'[t] /\ next'[t] = None /\ prev'[t] = None /\ key' = key
    /\ \A b \in Bucket : head'[b] = IF head[b] = t THEN next[t] ELSE head[b]
    /\ \A u \in Thread : u # t => waiting'[u] = waiting[u]
    /\ \A u \in Thread : u # t =>
         next'[u] = IF next[u] = t THEN next[t] ELSE next[u]
    /\ \A u \in Thread : u # t =>
         prev'[u] = IF prev[u] = t THEN prev[t] ELSE prev[u]

LEMMA UnlinkLinks ==
    ASSUME Shape, Linked, NEW t \in Thread, waiting[t], key[t] \in Key,
           Unlink(Hash[key[t]], t)
    PROVE  UnlinkFacts(t)
  <1>0. Hash[key[t]] \in Bucket /\ None \notin Thread
    BY HashRange, FutexAssumption
  <1>1. ~waiting'[t] /\ next'[t] = None /\ prev'[t] = None /\ key' = key
    BY DEF Unlink, Shape
  <1>2. ASSUME NEW b \in Bucket
        PROVE  head'[b] = IF head[b] = t THEN next[t] ELSE head[b]
    <2>1. head[b] = t => b = Hash[key[t]] /\ prev[t] = None
      BY <1>0 DEF Linked
    <2>. QED
      BY <1>0, <2>1 DEF Unlink, Shape
  <1>3. ASSUME NEW u \in Thread, u # t
        PROVE  next'[u] = IF next[u] = t THEN next[t] ELSE next[u]
    <2>1. next[u] = t <=> u = prev[t]
      BY <1>0 DEF Linked
    <2>. QED
      BY <1>3, <2>1 DEF Unlink
  <1>4. ASSUME NEW u \in Thread, u # t
        PROVE  prev'[u] = IF prev[u] = t THEN prev[t] ELSE prev[u]
    <2>1. prev[u] = t <=> u = next[t]
      BY <1>0 DEF Linked
    <2>. QED
      BY <1>4, <2>1 DEF Unlink
  <1>5. ASSUME NEW u \in Thread, u # t PROVE waiting'[u] = waiting[u]
    BY <1>5 DEF Unlink, Shape
  <1>. QED
    BY <1>1, <1>2, <1>3, <1>4, <1>5 DEF UnlinkFacts

LEMMA UnlinkLinked ==
    ASSUME Shape, Linked, Keyed, NEW t \in Thread, waiting[t], UnlinkFacts(t)
    PROVE  Linked'
  <1>0. None \notin Thread
    BY FutexAssumption
  <1>1. /\ next[t] # None => /\ next[t] \in Thread /\ waiting[next[t]]
                             /\ prev[next[t]] = t
                             /\ Hash[key[next[t]]] = Hash[key[t]]
        /\ prev[t] # None => prev[t] \in Thread /\ waiting[prev[t]] /\ next[prev[t]] = t
        /\ prev[t] = None => head[Hash[key[t]]] = t
    BY DEF Shape, Linked
  <1>2. ASSUME NEW u \in Thread, waiting'[u]
        PROVE  u # t /\ waiting[u] /\ key'[u] = key[u]
    BY <1>2 DEF UnlinkFacts
  <1>3. ASSUME NEW u \in Thread, waiting'[u], next'[u] # None
        PROVE  /\ waiting'[next'[u]] /\ prev'[next'[u]] = u
               /\ Hash[key'[next'[u]]] = Hash[key'[u]]
    <2>1. u # t /\ waiting[u] /\ key' = key
      BY <1>2, <1>3 DEF UnlinkFacts
    <2>2. CASE next[u] = t
      <3>1. prev[t] = u /\ next'[u] = next[t] /\ Hash[key[t]] = Hash[key[u]]
        BY <1>0, <2>1, <2>2 DEF Linked, UnlinkFacts
      <3>2. next[t] \in Thread /\ next[t] # t /\ prev[next[t]] = t
        BY <1>1, <1>3, <2>1, <3>1
      <3>. QED
        BY <1>1, <1>3, <2>1, <3>1, <3>2 DEF UnlinkFacts
    <2>3. CASE next[u] # t
      <3>1. next'[u] = next[u]
        BY <2>1, <2>3 DEF UnlinkFacts
      <3>2. /\ next[u] \in Thread /\ waiting[next[u]] /\ prev[next[u]] = u
            /\ Hash[key[next[u]]] = Hash[key[u]]
        BY <1>3, <2>1, <3>1 DEF Linked, Shape
      <3>. QED
        BY <2>1, <2>3, <3>1, <3>2 DEF UnlinkFacts
    <2>. QED
      BY <2>2, <2>3
  <1>4. ASSUME NEW u \in Thread, waiting'[u], prev'[u] # None
        PROVE  waiting'[prev'[u]] /\ next'[prev'[u]] = u
    <2>1. u # t /\ waiting[u]
      BY <1>2, <1>4
    <2>2. CASE prev[u] = t
      <3>1. next[t] = u /\ prev'[u] = prev[t]
        BY <1>0, <2>1, <2>2 DEF Linked, UnlinkFacts
      <3>2. prev[t] \in Thread /\ prev[t] # t /\ next[prev[t]] = t
        BY <1>1, <1>4, <2>1, <3>1
      <3>. QED
        BY <1>1, <1>4, <2>1, <3>1, <3>2 DEF UnlinkFacts
    <2>3. CASE prev[u] # t
      <3>1. prev'[u] = prev[u]
        BY <2>1, <2>3 DEF UnlinkFacts
      <3>2. prev[u] \in Thread /\ waiting[prev[u]] /\ next[prev[u]] = u
        BY <1>4, <2>1, <3>1 DEF Linked, Shape
      <3>. QED
        BY <2>1, <2>3, <3>1, <3>2 DEF UnlinkFacts
    <2>. QED
      BY <2>2, <2>3
  <1>5. ASSUME NEW u \in Thread, waiting'[u], prev'[u] = None
        PROVE  head'[Hash[key'[u]]] = u
    <2>1. u # t /\ waiting[u] /\ key' = key
      BY <1>2, <1>5 DEF UnlinkFacts
    <2>0. Hash[key[u]] \in Bucket
      BY <2>1, HashRange DEF Keyed
    <2>2. CASE prev[u] = t
      <3>1. /\ next[t] = u /\ prev[t] = None
            /\ Hash[key[u]] = Hash[key[t]]
        BY <1>0, <1>1, <1>5, <2>1, <2>2 DEF Linked, UnlinkFacts
      <3>2. head[Hash[key[u]]] = t
        BY <1>1, <3>1
      <3>. QED
        BY <2>0, <2>1, <3>1, <3>2 DEF UnlinkFacts
    <2>3. CASE prev[u] # t
      <3>1. head[Hash[key[u]]] = u
        BY <1>5, <2>1, <2>3 DEF Linked, UnlinkFacts
      <3>. QED
        BY <2>0, <2>1, <3>1 DEF UnlinkFacts
    <2>. QED
      BY <2>2, <2>3
  <1>6. ASSUME NEW c \in Bucket, head'[c] # None
        PROVE  waiting'[head'[c]] /\ Hash[key'[head'[c]]] = c /\ prev'[head'[c]] = None
    <2>1. /\ head[c] # None /\ head[c] \in Thread /\ waiting[head[c]]
          /\ Hash[key[head[c]]] = c /\ prev[head[c]] = None /\ key' = key
      BY <1>0, <1>6 DEF Linked, Shape, UnlinkFacts
    <2>2. CASE head[c] = t
      <3>1. head'[c] = next[t] /\ prev[t] = None
        BY <2>1, <2>2 DEF UnlinkFacts
      <3>2. next[t] # t
        BY <1>0, <1>1, <1>6, <3>1
      <3>. QED
        BY <1>1, <1>6, <2>1, <2>2, <3>1, <3>2 DEF UnlinkFacts
    <2>3. CASE head[c] # t
      BY <1>0, <2>1, <2>3 DEF UnlinkFacts
    <2>. QED
      BY <2>2, <2>3
  <1>7. ASSUME NEW u \in Thread, ~waiting'[u] PROVE next'[u] = None /\ prev'[u] = None
    <2>1. CASE u = t
      BY <2>1 DEF UnlinkFacts
    <2>2. CASE u # t
      BY <1>0, <1>7, <2>2 DEF UnlinkFacts, Linked
    <2>. QED
      BY <2>1, <2>2
  <1>. QED
    BY <1>3, <1>4, <1>5, <1>6, <1>7 DEF Linked

\* A set closed after the step, with t, is closed before it, if the rest of
\* the list behind t is in the set.
LEMMA UnlinkClosed ==
    ASSUME Shape, NEW t \in Thread, UnlinkFacts(t), NEW S \in SUBSET Thread,
           Closed(S)', next[t] # None => next[t] \in S
    PROVE  Closed(S \cup {t})
  BY DEF Shape, UnlinkFacts, Closed

LEMMA UnlinkExact ==
    ASSUME Shape, Linked, Keyed, Exact, NEW t \in Thread, waiting[t],
           UnlinkFacts(t), Shape'
    PROVE  Exact'
  <1>1. ASSUME NEW b \in Bucket, NEW u \in InBucket(b)' PROVE u \in Reach(b)'
    <2>. SUFFICES ASSUME NEW S \in SUBSET Thread,
                         head'[b] # None => head'[b] \in S, Closed(S)'
                  PROVE  u \in S
      BY <1>1 DEF Reach, From, InBucket
    <2>1. u # t /\ u \in Reach(b)
      BY <1>1 DEF UnlinkFacts, InBucket, Exact
    <2>2. CASE next[t] # None => next[t] \in S
      <3>1. Closed(S \cup {t})
        BY <2>2, UnlinkClosed
      <3>2. head[b] # None => head[b] \in S \cup {t}
        BY DEF UnlinkFacts
      <3>3. S \cup {t} \in SUBSET Thread
        OBVIOUS
      <3>4. u \in S \cup {t}
        BY <2>1, <3>1, <3>2, <3>3 DEF Reach, From
      <3>. QED
        BY <2>1, <3>4
    <2>3. CASE next[t] # None /\ next[t] \notin S
      <3>1. \A w \in S : w # t => next[w] # t
        BY <2>3 DEF UnlinkFacts, Closed
      <3>2. Closed(S \ {t})
        BY <3>1 DEF UnlinkFacts, Closed
      <3>3. head[b] # None => head[b] \in S \ {t}
        BY <2>3 DEF UnlinkFacts
      <3>4. S \ {t} \in SUBSET Thread
        OBVIOUS
      <3>. QED
        BY <2>1, <3>2, <3>3, <3>4 DEF Reach, From
    <2>. QED
      BY <2>2, <2>3
  <1>2. Linked'
    BY UnlinkLinked
  <1>. QED
    BY <1>1, <1>2, ReachWaitsNext DEF Exact

\* What follows t on its list follows it after t is taken off.
LEMMA UnlinkFrom ==
    ASSUME Shape, NEW t \in Thread, UnlinkFacts(t), NEW n, n = next[t],
           NEW u \in From(n), u # t
    PROVE  u \in From(n)'
  <1>. SUFFICES ASSUME NEW S \in SUBSET Thread, n # None => n \in S, Closed(S)'
                PROVE  u \in S
    BY DEF From
  <1>1. Closed(S \cup {t})
    BY UnlinkClosed
  <1>2. S \cup {t} \in SUBSET Thread /\ (n # None => n \in S \cup {t})
    OBVIOUS
  <1>3. u \in S \cup {t}
    BY <1>1, <1>2 DEF From
  <1>. QED
    BY <1>3

\* No node is its own successor.
LEMMA NoLoop ==
    ASSUME Shape, Linked, Keyed, Exact, NEW t \in Thread, waiting[t]
    PROVE  next[t] # t
  <1>. SUFFICES ASSUME next[t] = t PROVE FALSE
    OBVIOUS
  <1> DEFINE b == Hash[key[t]]
             S == Thread \ {t}
  <1>0. b \in Bucket /\ None \notin Thread
    BY HashRange, FutexAssumption DEF Keyed
  <1>1. prev[t] = t
    BY <1>0 DEF Linked
  <1>2. \A u \in S : next[u] # t
    BY <1>0, <1>1 DEF Linked
  <1>3. Closed(S)
    BY <1>2 DEF Closed, Shape
  <1>4. head[b] # None => head[b] \in S
    BY <1>0, <1>1 DEF Linked, Shape
  <1>5. t \in Reach(b)
    BY <1>0 DEF Exact, InBucket
  <1>. QED
    BY <1>3, <1>4, <1>5 DEF Reach, From

-----------------------------------------------------------------------------
(* Steps that change no list                                               *)

Kept ==
    /\ head' = head /\ next' = next /\ prev' = prev /\ waiting' = waiting
    /\ waiter_count' = waiter_count
    /\ \A t \in Thread : waiting[t] => key'[t] = key[t]

\* The list part of the invariant.
Lists == Keyed /\ Linked /\ Exact /\ Counted

LEMMA KeptLists == ASSUME Shape, Lists, Kept PROVE Lists'
  <1>1. Keyed'
    BY DEF Lists, Keyed, Kept
  <1>2. Linked'
    <2>1. ASSUME NEW t \in Thread, waiting[t]
          PROVE  /\ key'[t] = key[t]
                 /\ next[t] # None => key'[next[t]] = key[next[t]]
      BY <2>1 DEF Lists, Linked, Kept, Shape
    <2>2. ASSUME NEW b \in Bucket, head[b] # None
          PROVE  key'[head[b]] = key[head[b]]
      BY <2>2 DEF Lists, Linked, Kept, Shape
    <2>. QED
      BY <2>1, <2>2 DEF Lists, Linked, Kept
  <1>3. ASSUME NEW b \in Bucket PROVE Reach(b)' = Reach(b)
    BY DEF Kept, Reach, From, Closed
  <1>4. ASSUME NEW b \in Bucket PROVE InBucket(b)' = InBucket(b)
    BY DEF Kept, InBucket
  <1>5. Exact'
    BY <1>3, <1>4 DEF Lists, Exact
  <1>6. Counted'
    BY DEF Lists, Counted, Waiters, Kept
  <1>. QED
    BY <1>1, <1>2, <1>5, <1>6 DEF Lists

\* A walk that begins has everything before it.
LEMMA LoopWalks ==
    ASSUME TypeOK, Lists, UNCHANGED lists, NEW b \in Bucket, NEW n \in Nat, NEW f,
           \/ Loop("wake", f, b, n) /\ f \in Key /\ b = Hash[f]
           \/ (Loop("exit", f, b, n) \/ Loop("kill", f, b, n)) /\ b = 0 /\ f \in Process
    PROVE  Walking'
  <1>0. Shape /\ None \notin Thread /\ b \in Nat
    BY ShapeOf, FutexAssumption DEF Bucket
  <1>1. scan' = head[b] /\ bkt' = b /\ for' = f /\ woke' = 0 /\ limit' = n
    BY DEF Loop
  <1>2. /\ op' = "wake" => for' \in Key /\ bkt' = Hash[for'] /\ woke' <= limit'
        /\ op' \in {"kill", "exit"} => for' \in Process /\ bkt' = 0
        /\ op' \in {"wake", "kill", "exit"}
    BY <1>1 DEF Loop
  <1>3. scan' # None => waiting'[scan'] /\ Hash[key'[scan']] = bkt'
    BY <1>1 DEF Lists, Linked, lists
  <1>4. ASSUME NEW t \in Thread, waiting'[t], Matches(t)'
        PROVE  Hash[key'[t]] > bkt' \/ t \in From(scan)'
    <2>1. waiting[t] /\ key'[t] = key[t] /\ key[t] \in Key /\ key' = key
      BY <1>4 DEF lists, Lists, Keyed
    <2>2. Hash[key[t]] \in Nat /\ Hash[key[t]] \in Bucket
      BY <2>1, HashRange
    <2>3. Hash[key[t]] > b \/ Hash[key[t]] = b
      <3>1. CASE op' = "wake"
        BY <1>1, <1>2, <1>4, <2>1, <3>1 DEF Matches
      <3>2. CASE op' \in {"kill", "exit"}
        BY <1>1, <1>2, <2>2, <3>2
      <3>. QED
        BY <1>2, <3>1, <3>2
    <2>4. CASE Hash[key[t]] = b
      <3>1. t \in Reach(b)
        BY <2>1, <2>4 DEF Lists, Exact, InBucket
      <3>2. next' = next
        BY DEF lists
      <3>3. t \in From(scan)'
        BY <1>1, <3>1, <3>2 DEF Reach, From, Closed
      <3>. QED
        BY <3>3
    <2>. QED
      BY <1>1, <2>1, <2>3, <2>4
  <1>. QED
    BY <1>2, <1>3, <1>4 DEF Walking

\* A finished walk asks for nothing.
LEMMA IdleWalks == ASSUME op' = "none" PROVE Walking'
  BY DEF Walking

-----------------------------------------------------------------------------
(* The types                                                               *)

LEMMA KeyOf == ASSUME NEW t \in Thread, NEW a \in Addr PROVE <<ProcOf[t], a>> \in Key
  BY FutexAssumption DEF Key

LEMMA UnblockedType ==
    ASSUME TypeOK, NEW S
    PROVE  Unblocked(S) \in [Thread -> {"READY", "BLOCKED", "DEAD"}]
  BY DEF TypeOK, Unblocked

\* The part of TypeOK about the loops.
LoopTypes ==
    /\ op \in {"none", "wake", "kill", "exit"}
    /\ for \in Key \cup Process \cup {None}
    /\ bkt \in Bucket /\ scan \in Thread \cup {None}
    /\ woke \in Nat /\ limit \in 0 .. MaxWake

\* The part of TypeOK about threads and processes.
ThreadTypes ==
    /\ status \in [Thread -> {"READY", "BLOCKED", "DEAD"}]
    /\ pc \in [Thread -> {"user", "wait"}]
    /\ exit_requested \in [Process -> BOOLEAN]

LEMMA TypeParts ==
    TypeOK <=> Shape /\ LoopTypes /\ ThreadTypes /\ waiter_count \in Nat
  BY DEF TypeOK, Shape, LoopTypes, ThreadTypes

LEMMA TypePartsNext ==
    ASSUME Shape', LoopTypes', ThreadTypes', (waiter_count \in Nat)'
    PROVE  TypeOK'
  BY DEF TypeOK, Shape, LoopTypes, ThreadTypes

-----------------------------------------------------------------------------
(* One step per action                                                     *)

LEMMA InitInv == CountFacts /\ Cardinality({}) = 0 /\ Init => IInv
  <1>. SUFFICES ASSUME Cardinality({}) = 0, Init PROVE IInv
    OBVIOUS
  <1>1. TypeOK
    <2>1. 0 \in Bucket
      BY FutexAssumption DEF Bucket
    <2>2. 0 \in 0 .. MaxWake
      BY FutexAssumption
    <2>. QED
      BY <2>1, <2>2 DEF Init, TypeOK
  <1>2. Keyed /\ Linked /\ Sleepers /\ Walking
    BY DEF Init, Keyed, Linked, Sleepers, Walking
  <1>3. Exact
    <2>1. ASSUME NEW b \in Bucket PROVE Reach(b) = InBucket(b)
      BY FromNone DEF Init, Reach, InBucket
    <2>. QED
      BY <2>1 DEF Exact
  <1>4. Counted
    <2>1. Waiters = {}
      BY DEF Init, Waiters
    <2>. QED
      BY <2>1 DEF Init, Counted
  <1>. QED
    BY <1>1, <1>2, <1>3, <1>4 DEF IInv

\* futex_wait puts one more thread on a list and to sleep.
LEMMA WaitStep ==
    ASSUME IInv, CountFacts, NEW t \in Thread, NEW a \in Addr, FutexWait(t, a)
    PROVE  IInv'
  <1> DEFINE k == <<ProcOf[t], a>>
  <1>0. /\ TypeOK /\ Shape /\ Linked /\ Exact /\ Keyed /\ Counted /\ Sleepers
        /\ k \in Key /\ k[1] = ProcOf[t]
    BY ShapeOf, KeyOf DEF IInv
  <1>1. ~waiting[t] /\ Enqueue(t, k) /\ op' = "none"
    BY <1>0 DEF FutexWait, Running, Sleepers, locals
  <1> HIDE DEF k
  <1>2. /\ waiting'[t] /\ key'[t] = k
        /\ \A u \in Thread : u # t => waiting'[u] = waiting[u] /\ key'[u] = key[u]
    BY <1>0, <1>1, EnqueueLinks
  <1>3. Shape' /\ Linked' /\ Exact'
    BY <1>0, <1>1, EnqueueShape, EnqueueLinked, EnqueueExact
  <1>4. Keyed'
    BY <1>0, <1>2 DEF Keyed
  <1>5. Counted' /\ (waiter_count \in Nat)'
    <2>1. Waiters' = Waiters \cup {t} /\ t \notin Waiters
      BY <1>1, <1>2 DEF Waiters
    <2>2. Waiters \in SUBSET Thread
      BY DEF Waiters
    <2>3. Cardinality(Waiters \cup {t}) = Cardinality(Waiters) + 1
      BY <2>1, <2>2 DEF CountFacts
    <2>4. waiter_count' = waiter_count + 1 /\ waiter_count \in Nat
      BY <1>0, <1>1 DEF Enqueue, TypeOK
    <2>. QED
      BY <1>0, <2>1, <2>3, <2>4 DEF Counted
  <1>6. Sleepers'
    BY <1>0, <1>2 DEF Sleepers, FutexWait, TypeOK
  <1>7. TypeOK'
    <2>1. ThreadTypes' /\ LoopTypes'
      BY <1>0 DEF TypeOK, ThreadTypes, LoopTypes, FutexWait, locals
    <2>. QED
      BY <1>3, <1>5, <2>1, TypePartsNext
  <1>. QED
    BY <1>1, <1>3, <1>4, <1>5, <1>6, <1>7, IdleWalks DEF IInv

\* The steps of a thread that is on no list, outside the loops.
LEMMA QuietStep ==
    ASSUME IInv, NEW t \in Thread, FutexReturn(t) \/ ThreadExit(t) \/ ThreadStart(t)
    PROVE  IInv'
  <1>0. TypeOK /\ Shape /\ Lists /\ Sleepers /\ Linked
    BY ShapeOf DEF IInv, Lists
  <1>1. ~waiting[t] /\ next[t] = None /\ prev[t] = None
    BY <1>0 DEF FutexReturn, ThreadExit, ThreadStart, Running, Sleepers, Linked
  <1>2. Kept /\ (key' = key \/ key' = [key EXCEPT ![t] = None])
    <2>1. CASE FutexReturn(t) \/ ThreadExit(t)
      BY Zenon, <1>1, <2>1 DEF FutexReturn, ThreadExit, lists, Kept
    <2>2. CASE ThreadStart(t)
      <3>1. next' = next /\ prev' = prev
        BY <1>0, <1>1, <2>2 DEF ThreadStart, Shape
      <3>2. waiting' = waiting
        BY <1>0, <1>1, <2>2 DEF ThreadStart, Shape
      <3>3. /\ head' = head /\ waiter_count' = waiter_count
            /\ key' = [key EXCEPT ![t] = None]
        BY Zenon, <2>2 DEF ThreadStart
      <3>4. \A u \in Thread : waiting[u] => key'[u] = key[u]
        BY <1>0, <1>1, <3>3 DEF Shape
      <3>. QED
        BY <3>1, <3>2, <3>3, <3>4 DEF Kept
    <2>. QED
      BY <2>1, <2>2
  <1>3. Lists'
    BY <1>0, <1>2, KeptLists
  <1>4. Sleepers'
    <2>1. status \in [Thread -> {"READY", "BLOCKED", "DEAD"}] /\ DOMAIN pc = Thread
      BY <1>0 DEF TypeOK, ThreadTypes
    <2>2. /\ status'[t] # "BLOCKED"
          /\ \A u \in Thread \ {t} : status'[u] = status[u] /\ pc'[u] = pc[u]
      <3>1. CASE FutexReturn(t)
        BY <2>1, <3>1 DEF FutexReturn
      <3>2. CASE ThreadExit(t)
        BY <2>1, <3>2 DEF ThreadExit, user
      <3>3. CASE ThreadStart(t)
        BY <2>1, <3>3 DEF ThreadStart, user
      <3>. QED
        BY <3>1, <3>2, <3>3
    <2>3. waiting' = waiting
      BY <1>2 DEF Kept
    <2>. QED
      BY Zenon, <1>0, <1>1, <2>2, <2>3 DEF Sleepers
  <1>5. TypeOK'
    <2>1. Shape'
      BY <1>0, <1>2 DEF Shape, Kept
    <2>2. ThreadTypes'
      BY <1>0 DEF TypeOK, ThreadTypes, FutexReturn, ThreadExit, ThreadStart, user
    <2>3. LoopTypes'
      BY Zenon, <1>0 DEF TypeOK, LoopTypes, FutexReturn, ThreadExit, ThreadStart, locals
    <2>4. waiter_count' \in Nat
      BY <1>0, <1>2 DEF TypeOK, Kept
    <2>. QED
      BY <2>1, <2>2, <2>3, <2>4, TypePartsNext
  <1>6. op' = "none"
    BY DEF FutexReturn, ThreadExit, ThreadStart, Running, locals
  <1>. QED
    BY <1>3, <1>4, <1>5, <1>6, IdleWalks DEF IInv, Lists

\* The steps that begin a walk.
Begins(b, n, f) ==
    \/ Loop("wake", f, b, n) /\ f \in Key /\ b = Hash[f]
    \/ (Loop("exit", f, b, n) \/ Loop("kill", f, b, n)) /\ b = 0 /\ f \in Process

BeginActions ==
    \/ \E t \in Thread, a \in Addr, n \in 1 .. MaxWake : FutexWake(t, a, n)
    \/ \E t \in Thread : ProcessExit(t)
    \/ \E p \in Process : Kill(p)

LEMMA BeginStep == ASSUME IInv, BeginActions PROVE IInv'
  <1>0. TypeOK /\ Shape /\ Lists /\ Sleepers
    BY ShapeOf DEF IInv, Lists
  <1>1. UNCHANGED <<status, pc, lists>>
    BY Zenon DEF BeginActions, FutexWake, ProcessExit, Kill, user
  <1>2. PICK b \in Bucket, n \in 0 .. MaxWake, f \in Key \cup Process : Begins(b, n, f)
    <2>0. 0 \in Bucket /\ 0 \in 0 .. MaxWake
      BY FutexAssumption DEF Bucket
    <2>1. ASSUME NEW t \in Thread, NEW a \in Addr, NEW m \in 1 .. MaxWake,
                 FutexWake(t, a, m)
          PROVE  \E b \in Bucket, n \in 0 .. MaxWake, f \in Key \cup Process :
                   Begins(b, n, f)
      <3>1. /\ <<ProcOf[t], a>> \in Key /\ Hash[<<ProcOf[t], a>>] \in Bucket
            /\ m \in 0 .. MaxWake
        BY KeyOf, HashRange
      <3>2. Begins(Hash[<<ProcOf[t], a>>], m, <<ProcOf[t], a>>)
        BY <2>1, <3>1 DEF FutexWake, Begins
      <3>. QED
        BY <3>1, <3>2
    <2>2. ASSUME NEW t \in Thread, ProcessExit(t) PROVE Begins(0, 0, ProcOf[t])
      BY <2>2, FutexAssumption DEF ProcessExit, Begins
    <2>3. ASSUME NEW p \in Process, Kill(p) PROVE Begins(0, 0, p)
      BY <2>3 DEF Kill, Begins
    <2>4. \A t \in Thread : ProcOf[t] \in Process
      BY FutexAssumption
    <2>. QED
      BY <2>0, <2>1, <2>2, <2>3, <2>4 DEF BeginActions
  <1>3. Lists'
    <2>1. Kept
      BY <1>1 DEF Kept, lists
    <2>. QED
      BY <1>0, <2>1, KeptLists
  <1>4. Sleepers'
    BY <1>0, <1>1 DEF Sleepers, lists
  <1>5. Walking'
    <2>1. n \in Nat /\ UNCHANGED lists
      BY <1>1
    <2>. QED
      BY <1>0, <1>2, <2>1, LoopWalks DEF Begins
  <1>6. TypeOK'
    <2>1. Shape' /\ waiter_count' \in Nat
      BY <1>0, <1>1 DEF Shape, lists, TypeOK
    <2>2. ThreadTypes'
      BY Zenon, <1>0 DEF TypeOK, ThreadTypes, BeginActions, FutexWake, ProcessExit, Kill, user
    <2>3. head[b] \in Thread \cup {None}
      BY <1>0 DEF Shape
    <2>4. LoopTypes'
      BY <1>2, <2>3 DEF Begins, Loop, LoopTypes
    <2>. QED
      BY <2>1, <2>2, <2>4, TypePartsNext
  <1>. QED
    BY <1>3, <1>4, <1>5, <1>6 DEF IInv, Lists

\* One node of a walk.
LEMMA NodeStep == ASSUME IInv, CountFacts, LoopNode PROVE IInv'
  <1>0. /\ TypeOK /\ Shape /\ Lists /\ Keyed /\ Linked /\ Exact /\ Counted
        /\ Sleepers /\ Walking /\ None \notin Thread
    BY ShapeOf, FutexAssumption DEF IInv, Lists
  <1>1. PICK s \in Thread : s = scan
    BY <1>0 DEF LoopNode, More, TypeOK
  <1>2. PICK n \in Thread \cup {None} : n = next[s]
    BY <1>0 DEF Shape
  <1>3. waiting[s] /\ Hash[key[s]] = bkt /\ key[s] \in Key /\ scan' = n
    BY Zenon, <1>0, <1>1, <1>2 DEF LoopNode, Walking, Keyed
  <1>4. n # None => n # s /\ waiting[n] /\ Hash[key[n]] = bkt
    BY <1>0, <1>2, <1>3, NoLoop DEF Linked
  <1>5. /\ op' = op /\ for' = for /\ bkt' = bkt /\ limit' = limit /\ op # "none"
        /\ op = "wake" => woke < limit
    BY DEF LoopNode, More
  <1>6. \A t \in Thread : waiting[t] /\ Matches(t) /\ t # s =>
          Hash[key[t]] > bkt \/ t \in From(n)
    BY <1>0, <1>1, <1>2, <1>5, FromStep DEF Walking
  <1>7. CASE Matches(s)
    <2>1. /\ Unlink(Hash[key[s]], s) /\ status' = Unblocked({s}) /\ woke' = woke + 1
          /\ UNCHANGED <<pc, exit_requested>>
      BY Zenon, <1>1, <1>3, <1>7 DEF LoopNode, user
    <2>2. UnlinkFacts(s)
      BY <1>0, <1>3, <2>1, UnlinkLinks
    <2>3. Shape' /\ Linked' /\ Exact'
      <3>1. Shape'
        BY <1>0, <1>3, <2>1, UnlinkShape, HashRange
      <3>. QED
        BY <1>0, <1>3, <2>2, <3>1, UnlinkLinked, UnlinkExact
    <2>4. Keyed'
      BY <1>0, <2>2 DEF Keyed, UnlinkFacts
    <2>5. Counted' /\ (waiter_count \in Nat)'
      <3>1. Waiters' = Waiters \ {s} /\ s \in Waiters /\ Waiters \in SUBSET Thread
        BY <1>3, <2>2 DEF UnlinkFacts, Waiters
      <3>2. /\ Cardinality(Waiters \ {s}) = Cardinality(Waiters) - 1
            /\ Cardinality(Waiters) \in Nat /\ Cardinality(Waiters \ {s}) \in Nat
        BY <3>1 DEF CountFacts
      <3>3. waiter_count' = IF waiter_count = 0 THEN 0 ELSE waiter_count - 1
        BY <2>1 DEF Unlink
      <3>. QED
        BY <1>0, <3>1, <3>2, <3>3 DEF Counted
    <2>6. Sleepers'
      <3>1. /\ status'[s] # "BLOCKED"
            /\ \A u \in Thread : u # s => status'[u] = status[u]
        BY <2>1 DEF Unblocked
      <3>. QED
        BY <1>0, <2>1, <2>2, <3>1 DEF Sleepers, UnlinkFacts
    <2>7. ThreadTypes' /\ LoopTypes'
      BY <1>0, <1>3, <1>5, <2>1, UnblockedType DEF TypeOK, ThreadTypes, LoopTypes
    <2>8. Walking'
      <3>1. op' = "wake" => for' \in Key /\ bkt' = Hash[for'] /\ woke' <= limit'
        <4>1. woke \in Nat /\ limit \in Nat
          BY <1>0 DEF TypeOK
        <4>2. op = "wake" => woke' <= limit'
          BY <1>5, <2>1, <4>1
        <4>. QED
          BY <1>0, <1>5, <4>2 DEF Walking
      <3>2. op' \in {"kill", "exit"} => for' \in Process
        BY <1>0, <1>5 DEF Walking
      <3>3. scan' # None => waiting'[scan'] /\ Hash[key'[scan']] = bkt'
        BY <1>3, <1>4, <1>5, <2>2 DEF UnlinkFacts
      <3>4. ASSUME NEW t \in Thread, waiting'[t], Matches(t)'
            PROVE  Hash[key'[t]] > bkt' \/ t \in From(scan)'
        <4>1. t # s /\ waiting[t] /\ Matches(t) /\ key' = key
          BY <1>5, <2>2, <3>4 DEF UnlinkFacts, Matches
        <4>2. CASE t \in From(n)
          <5>1. t \in From(n)'
            BY <1>0, <1>2, <2>2, <4>1, <4>2, UnlinkFrom
          <5>2. t \in From(scan)'
            BY <1>3, <5>1 DEF From
          <5>. QED
            BY <5>2
        <4>. QED
          BY <1>5, <1>6, <4>1, <4>2
      <3>. QED
        BY Zenon, <3>1, <3>2, <3>3, <3>4 DEF Walking
    <2>. QED
      BY <2>3, <2>4, <2>5, <2>6, <2>7, <2>8, TypePartsNext DEF IInv
  <1>8. CASE ~Matches(s)
    <2>1. UNCHANGED <<lists, status, woke, pc, exit_requested>>
      BY <1>1, <1>8 DEF LoopNode, user
    <2>2. Kept
      BY <2>1 DEF Kept, lists
    <2>3. Lists'
      BY <1>0, <2>2, KeptLists
    <2>4. Sleepers'
      BY <1>0, <2>1, <2>2 DEF Sleepers, Kept
    <2>5. Walking'
      <3>1. waiting' = waiting /\ key' = key /\ next' = next /\ woke' = woke
        BY <2>1 DEF lists
      <3>2. /\ op' = "wake" => for' \in Key /\ bkt' = Hash[for'] /\ woke' <= limit'
            /\ op' \in {"kill", "exit"} => for' \in Process
            /\ scan' # None => waiting'[scan'] /\ Hash[key'[scan']] = bkt'
        BY <1>0, <1>3, <1>4, <1>5, <3>1 DEF Walking
      <3>3. ASSUME NEW t \in Thread, waiting'[t], Matches(t)'
            PROVE  Hash[key'[t]] > bkt' \/ t \in From(scan)'
        <4>1. waiting[t] /\ Matches(t)
          BY <1>5, <3>1, <3>3 DEF Matches
        <4>2. Hash[key[t]] > bkt \/ t \in From(n)
          BY <1>6, <1>8, <4>1
        <4>3. t \in From(n) => t \in From(scan)'
          BY <1>3, <3>1 DEF From, Closed
        <4>. QED
          BY <1>5, <3>1, <4>2, <4>3
      <3>. QED
        BY <3>2, <3>3 DEF Walking
    <2>6. Shape' /\ ThreadTypes' /\ LoopTypes' /\ waiter_count' \in Nat
      BY <1>0, <1>3, <1>5, <2>1 DEF TypeOK, Shape, ThreadTypes, LoopTypes, lists
    <2>. QED
      BY <2>3, <2>4, <2>5, <2>6, TypePartsNext DEF IInv, Lists
  <1>. QED
    BY <1>7, <1>8

\* No waiter that the walk looks for is left when it comes to its end.
LEMMA WalkDone ==
    ASSUME TypeOK, Keyed, Walking, op # "none", scan = None,
           op = "wake" \/ bkt + 1 \notin Bucket, NEW t \in Thread, waiting[t]
    PROVE  ~Matches(t)
  <1>. SUFFICES ASSUME Matches(t) PROVE FALSE
    OBVIOUS
  <1>1. Hash[key[t]] > bkt
    BY FromNone DEF Walking
  <1>2. Hash[key[t]] \in Bucket /\ key[t] \in Key
    BY HashRange DEF Keyed
  <1>3. CASE op = "wake"
    BY <1>1, <1>2, <1>3 DEF Walking, Matches, TypeOK, Bucket
  <1>4. CASE bkt + 1 \notin Bucket
    BY <1>1, <1>2, <1>4, FutexAssumption DEF TypeOK, Bucket
  <1>. QED
    BY <1>3, <1>4

\* A walk goes to the next bucket.
LEMMA BucketStep == ASSUME IInv, NextBucket PROVE IInv'
  <1>0. /\ TypeOK /\ Shape /\ Lists /\ Keyed /\ Exact /\ Sleepers /\ Walking
        /\ Linked
    BY ShapeOf DEF IInv, Lists
  <1>1. /\ UNCHANGED <<lists, status, pc, exit_requested, op, for, woke, limit>>
        /\ op \in {"kill", "exit"} /\ scan = None
    BY DEF NextBucket, More, user
  <1>2. PICK b \in Bucket : b = bkt + 1 /\ bkt' = b /\ scan' = head[b]
    BY DEF NextBucket
  <1>3. Lists'
    <2>1. Kept
      BY <1>1 DEF Kept, lists
    <2>. QED
      BY <1>0, <2>1, KeptLists
  <1>4. Sleepers'
    BY <1>0, <1>1 DEF Sleepers, lists
  <1>5. Walking'
    <2>1. waiting' = waiting /\ key' = key /\ next' = next
      BY <1>1 DEF lists
    <2>2. scan' # None => waiting'[scan'] /\ Hash[key'[scan']] = bkt'
      BY <1>0, <1>2, <2>1 DEF Linked
    <2>3. ASSUME NEW t \in Thread, waiting'[t], Matches(t)'
          PROVE  Hash[key'[t]] > bkt' \/ t \in From(scan)'
      <3>1. waiting[t] /\ Matches(t)
        BY <1>1, <2>1, <2>3 DEF Matches
      <3>2. Hash[key[t]] > bkt /\ Hash[key[t]] \in Nat /\ bkt \in Nat
        BY <1>0, <1>1, <3>1, FromNone, HashRange DEF Walking, Keyed, TypeOK, Bucket
      <3>3. CASE Hash[key[t]] = b
        <4>1. t \in Reach(b)
          BY <1>0, <3>1, <3>3 DEF Exact, InBucket
        <4>2. t \in From(scan)'
          BY <1>2, <2>1, <4>1 DEF Reach, From, Closed
        <4>. QED
          BY <4>2
      <3>4. CASE Hash[key[t]] # b
        BY <1>2, <2>1, <3>2, <3>4
      <3>. QED
        BY <3>3, <3>4
    <2>4. op' # "wake" /\ for' \in Process
      BY <1>0, <1>1 DEF Walking
    <2>. QED
      BY <2>2, <2>3, <2>4 DEF Walking
  <1>6. TypeOK'
    <2>1. Shape' /\ ThreadTypes' /\ waiter_count' \in Nat
      BY <1>0, <1>1 DEF TypeOK, Shape, ThreadTypes, lists
    <2>2. head[b] \in Thread \cup {None}
      BY <1>0 DEF Shape
    <2>3. LoopTypes'
      BY <1>0, <1>1, <1>2, <2>2 DEF TypeOK, LoopTypes
    <2>. QED
      BY <2>1, <2>3, TypePartsNext
  <1>. QED
    BY <1>3, <1>4, <1>5, <1>6 DEF IInv, Lists

\* The ends of the three walks.
LEMMA EndStep == ASSUME IInv, WakeEnd \/ KillEnd \/ ExitEnd PROVE IInv'
  <1>0. TypeOK /\ Shape /\ Lists /\ Keyed /\ Sleepers /\ Walking
    BY ShapeOf DEF IInv, Lists
  <1>1. UNCHANGED lists /\ Finish
    BY DEF WakeEnd, KillEnd, ExitEnd
  <1>2. Lists'
    <2>1. Kept
      BY <1>1 DEF Kept, lists
    <2>. QED
      BY <1>0, <2>1, KeptLists
  <1>3. waiting' = waiting
    BY <1>1 DEF lists
  <1>4. Sleepers'
    <2>1. CASE WakeEnd
      BY <1>0, <1>3, <2>1 DEF Sleepers, WakeEnd, user
    <2>2. ASSUME KillEnd \/ ExitEnd, NEW t \in Thread, waiting[t]
          PROVE  ProcOf[t] # for
      <3>1. op \in {"kill", "exit"} /\ scan = None /\ bkt + 1 \notin Bucket
        BY <2>2 DEF KillEnd, ExitEnd, More
      <3>2. ~Matches(t)
        BY <1>0, <2>2, <3>1, WalkDone
      <3>. QED
        BY <1>0, <2>2, <3>1, <3>2 DEF Matches, Keyed
    <2>3. CASE KillEnd
      <3>1. \A t \in Thread : status'[t] = IF ProcOf[t] = for /\ status[t] = "BLOCKED"
                                          THEN "READY" ELSE status[t]
        BY <2>3 DEF KillEnd, Unblocked, ThreadsOf
      <3>2. pc' = pc
        BY <2>3 DEF KillEnd, user
      <3>. QED
        BY <1>0, <1>3, <2>2, <2>3, <3>1, <3>2 DEF Sleepers
    <2>4. CASE ExitEnd
      BY <1>0, <1>3, <2>2, <2>4 DEF Sleepers, ExitEnd
    <2>. QED
      BY <2>1, <2>3, <2>4
  <1>5. TypeOK'
    <2>1. Shape' /\ waiter_count' \in Nat
      BY <1>0, <1>1 DEF TypeOK, Shape, lists
    <2>2. ThreadTypes'
      <3>1. CASE WakeEnd
        BY <1>0, <3>1 DEF TypeOK, ThreadTypes, WakeEnd, user
      <3>2. CASE KillEnd
        BY <1>0, <3>2, UnblockedType DEF TypeOK, ThreadTypes, KillEnd, user
      <3>3. CASE ExitEnd
        BY Zenon, <1>0, <3>3 DEF TypeOK, ThreadTypes, ExitEnd
      <3>. QED
        BY <3>1, <3>2, <3>3
    <2>3. LoopTypes'
      BY <1>1, FutexAssumption DEF Finish, LoopTypes, Bucket
    <2>. QED
      BY <2>1, <2>2, <2>3, TypePartsNext
  <1>. QED
    BY <1>1, <1>2, <1>4, <1>5, IdleWalks DEF IInv, Lists, Finish

LEMMA StutterStep == ASSUME IInv, UNCHANGED vars PROVE IInv'
  <1>1. TypeOK'
    BY DEF IInv, TypeOK, vars
  <1>2. Lists'
    <2>1. Kept
      BY Zenon DEF Kept, vars
    <2>. QED
      BY <2>1, KeptLists, ShapeOf DEF IInv, Lists
  <1>3. Sleepers'
    BY DEF IInv, Sleepers, vars
  <1>4. Walking'
    BY DEF IInv, Walking, Matches, From, Closed, vars
  <1>. QED
    BY <1>1, <1>2, <1>3, <1>4 DEF IInv, Lists

LEMMA StepInv == ASSUME IInv, CountFacts, [Next]_vars PROVE IInv'
  BY WaitStep, QuietStep, BeginStep, NodeStep, BucketStep, EndStep, StutterStep
    DEF Next, Scan, BeginActions

-----------------------------------------------------------------------------
(* Theorems                                                                *)

INSTANCE FiniteSetTheorems

LEMMA CountFactsHold == CountFacts /\ Cardinality({}) = 0
  <1>1. ASSUME NEW S \in SUBSET Thread
        PROVE  /\ Cardinality(S) \in Nat
               /\ \A t \in Thread \ S : Cardinality(S \cup {t}) = Cardinality(S) + 1
               /\ \A t \in S : Cardinality(S \ {t}) = Cardinality(S) - 1
    <2>1. IsFiniteSet(S)
      BY FutexAssumption, FS_Subset
    <2>. QED
      BY <2>1, FS_CardinalityType, FS_AddElement, FS_RemoveElement
  <1>. QED
    BY <1>1, FS_EmptySet DEF CountFacts

LEMMA AlwaysIInv == Spec => []IInv
  <1>1. Init => IInv
    BY InitInv, CountFactsHold
  <1>2. IInv /\ [Next]_vars => IInv'
    BY StepInv, CountFactsHold
  <1>. QED
    BY <1>1, <1>2, PTL DEF Spec

\* The futex queues of futex.c are exact at every step of every wait, wake,
\* kill and exit: the pointers are well formed, a bucket's list holds exactly
\* the threads waiting in it, waiter_count counts them, a thread that sleeps in
\* futex_wait is on the list where a waker looks, and nobody else is.
THEOREM QueuesAlwaysExact == Spec => []WaitersExact
  <1>1. ASSUME IInv PROVE WaitersExact
    <2>1. QueuesExact
      BY <1>1 DEF IInv, Exact, Counted, Waiters, QueuesExact
    <2>2. QueuedAreBlocked
      BY <1>1 DEF IInv, Keyed, Sleepers, QueuedAreBlocked
    <2>3. BlockedWaitersQueued
      <3>1. ASSUME NEW t \in Thread, status[t] = "BLOCKED", pc[t] = "wait"
            PROVE  waiting[t] /\ t \in Reach(Hash[key[t]])
        <4>1. waiting[t] /\ key[t] \in Key
          BY <1>1, <3>1 DEF IInv, Sleepers, Keyed
        <4>2. t \in InBucket(Hash[key[t]]) /\ Hash[key[t]] \in Bucket
          BY <4>1, HashRange DEF InBucket
        <4>. QED
          BY <1>1, <4>1, <4>2 DEF IInv, Exact
      <3>. QED
        BY <3>1 DEF BlockedWaitersQueued
    <2>. QED
      BY <1>1, <2>1, <2>2, <2>3 DEF IInv, WaitersExact
  <1>. QED
    BY AlwaysIInv, <1>1, PTL

\* futex_wake returns only when it has woken as many threads as it was asked
\* to or nobody sleeps on the word any more, and it wakes no thread that
\* sleeps on another word, though they share the bucket's list.
THEOREM WakeDoesItsWork == Spec => WakeComplete
  <1> DEFINE Step ==
        op = "wake" =>
          /\ op' = "none" => woke = limit \/ \A t \in Thread :
               ~(pc[t] = "wait" /\ status[t] = "BLOCKED" /\ key[t] = for)
          /\ \A t \in Thread : status'[t] # status[t] => key[t] = for
  <1>1. ASSUME IInv, [Next]_vars PROVE [Step]_vars
    <2>. SUFFICES ASSUME Next, op = "wake" PROVE Step
      BY <1>1
    <2>1. LoopNode \/ WakeEnd
      BY Zenon DEF Next, Scan, FutexWait, FutexWake, FutexReturn, ThreadExit, ThreadStart,
        ProcessExit, Kill, Running, NextBucket, KillEnd, ExitEnd
    <2>2. CASE LoopNode
      <3>1. op' = "wake"
        BY <2>2 DEF LoopNode
      <3>2. ASSUME NEW t \in Thread, status'[t] # status[t] PROVE key[t] = for
        BY Zenon, <2>2, <3>2 DEF LoopNode, Matches, Unblocked
      <3>. QED
        BY <3>1, <3>2
    <2>3. CASE WakeEnd
      <3>1. status' = status
        BY <2>3 DEF WakeEnd
      <3>2. CASE scan # None
        BY <1>1, <2>3, <3>1, <3>2 DEF WakeEnd, More, IInv, Walking, TypeOK
      <3>3. CASE scan = None
        <4>1. ASSUME NEW t \in Thread, pc[t] = "wait", status[t] = "BLOCKED"
              PROVE  key[t] # for
          <5>1. waiting[t]
            BY <1>1, <4>1 DEF IInv, Sleepers
          <5>2. ~Matches(t)
            BY <1>1, <3>3, <5>1, WalkDone DEF IInv
          <5>. QED
            BY <5>2 DEF Matches
        <4>. QED
          BY <3>1, <4>1
      <3>. QED
        BY <3>2, <3>3
    <2>. QED
      BY <2>1, <2>2, <2>3
  <1>. QED
    BY AlwaysIInv, <1>1, PTL DEF Spec, WakeComplete
=============================================================================
