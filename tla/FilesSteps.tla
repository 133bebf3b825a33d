---------------------------- MODULE FilesSteps -----------------------------
(***************************************************************************)
(* The inductive invariant of file objects and pipes (Files), and the part *)
(* of its proof that concerns single descriptors and the pipe loops.       *)
(* FilesProofs continues with the steps that make, copy and drop whole     *)
(* tables, and draws the theorems.                                         *)
(*                                                                         *)
(* RefsExact is inductive once it is known which threads may hold          *)
(* references (Quiet: none in user mode) and that a process that was never *)
(* used has an empty table (Unused: fork fills it).  The counting of       *)
(* descriptors and holders is kept apart from the steps: CountFacts says   *)
(* how the counts change when a table or the objects a thread holds do.    *)
(***************************************************************************)
EXTENDS Files, TLAPS

\* A thread in user mode holds nothing, and only pipe_read and pipe_write sleep.
Quiet ==
    \A t \in Thread : /\ pc[t] = "user" => held[t] = {}
                      /\ pc[t] \notin End => waiting_lock[t] = None

\* A process object not yet used has no descriptors and no threads.
Unused ==
    /\ \A p \in Process \ used : \A d \in Fd : desc[p][d] = None
    /\ \A t \in Thread : proc[t] # None => proc[t] \in used

\* Descriptors that refer to f in the tables ds, holders of f among h.
Uses(ds, f) == Cardinality({x \in Process \X Fd : ds[x[1]][x[2]] = f})
Held(h, f) == Cardinality({t \in Thread : f \in h[t]})

Counted == \A f \in File : refs[f] = Uses(desc, f) + Held(held, f) + lost[f]

Ends == \A q \in Pipe : readers[q] = refs[<<q, "read">>] /\ writers[q] = refs[<<q, "write">>]

InUse(r) == {f \in Regular : r[f] > 0}
Inodes == opens = Cardinality(InUse(refs))

\* The inductive invariant.
IInv == TypeOK /\ Quiet /\ Unused /\ Counted /\ Ends /\ Inodes /\ SleepJustified

-----------------------------------------------------------------------------
(* Counting.  These facts about finite sets are proved at the end; the     *)
(* steps assume them.                                                      *)

\* What f adds to a count of v, or of the members of S.
Same(f, v) == IF f = v THEN 1 ELSE 0
In(f, S) == IF f \in S THEN 1 ELSE 0

\* A count a becomes b when x comes and y goes.
Shift(a, b, x, y) == b = a + x - y
Tables == [Process -> [Fd -> File \cup {None}]]
Holdings == [Thread -> SUBSET File]

\* How many descriptors of p refer to f.
InTable(ds, p, f) == Cardinality({d \in Fd : ds[p][d] = f})

UseFacts ==
    \A ds \in Tables, f \in File :
        /\ Uses(ds, f) \in Nat
        /\ \A p \in Process : InTable(ds, p, f) \in Nat /\ InTable(ds, p, f) <= Uses(ds, f)
        /\ \A p \in Process, d \in Fd : ds[p][d] = f => Uses(ds, f) > 0

\* The tables differ in descriptor d of process p only.
DiffersAt(ds, es, p, d) ==
    \A x \in Process, e \in Fd : x # p \/ e # d => es[x][e] = ds[x][e]

SetFacts ==
    \A ds, es \in Tables, f \in File, p \in Process, d \in Fd : DiffersAt(ds, es, p, d) =>
        Shift(Uses(ds, f), Uses(es, f), Same(f, es[p][d]), Same(f, ds[p][d]))

\* The tables differ in process p only, where one of them is empty.
EmptyIn(ds, es, p) ==
    /\ \A x \in Process \ {p} : es[x] = ds[x]
    /\ \A d \in Fd : es[p][d] = None

ClearFacts ==
    \A ds, es \in Tables, f \in File, p \in Process : EmptyIn(ds, es, p) =>
        Shift(Uses(es, f), Uses(ds, f), InTable(ds, p, f), 0)

\* Holders of f among the threads of G, and what is held once they are gone.
Among(h, G, f) == Cardinality({u \in G : f \in h[u]})
Without(h, G) == [u \in Thread |-> IF u \in G THEN {} ELSE h[u]]

HeldFacts ==
    /\ \A h \in Holdings, f \in File :
         /\ Held(h, f) \in Nat
         /\ \A t \in Thread : f \in h[t] => Held(h, f) > 0
    /\ \A h, g \in Holdings, t \in Thread, f \in File :
         (\A u \in Thread \ {t} : g[u] = h[u]) =>
            Shift(Held(h, f), Held(g, f), In(f, g[t]), In(f, h[t]))
    /\ \A h \in Holdings, G \in SUBSET Thread, f \in File :
         /\ Among(h, G, f) \in Nat
         /\ Shift(Held(h, f), Held(Without(h, G), f), 0, Among(h, G, f))

InUseFacts ==
    \A r, s \in [File -> Nat] :
        /\ Cardinality(InUse(r)) \in Nat
        /\ (\A f \in Regular : s[f] > 0 => r[f] > 0) =>
             Cardinality(InUse(s)) =
               Cardinality(InUse(r)) - Cardinality({f \in Regular : r[f] > 0 /\ s[f] = 0})
        /\ \A g \in Regular :
             r[g] = 0 /\ s[g] > 0 /\ (\A f \in Regular \ {g} : s[f] = r[f]) =>
               Shift(Cardinality(InUse(r)), Cardinality(InUse(s)), 1, 0)

SlotFacts ==
    \A S \in SUBSET Slot :
        /\ S # {} => Lowest(S) \in S
        /\ Cardinality(S) >= 2 => S # {} /\ S \ {Lowest(S)} # {}

CountFacts ==
    UseFacts /\ SetFacts /\ ClearFacts /\ HeldFacts /\ InUseFacts /\ SlotFacts

-----------------------------------------------------------------------------
(* The parts of TypeOK                                                     *)

Ring == [data : [0..Capacity-1 -> 0..Wrap-1],
         head : 0..Capacity-1, tail : 0..Capacity-1,
         count : 0..Capacity, sent : 0..Wrap-1, taken : 0..Wrap-1]

TaskTypes ==
    /\ calls \in Programs
    /\ proc \in [Thread -> Process \cup {None}]
    /\ parent \in [Process -> Process \cup {None}]
    /\ main_thread \in [Process -> Thread \cup {None}]
    /\ used \subseteq Process
    /\ exit_requested \in [Process -> BOOLEAN]

CallTypes ==
    /\ cpu \in Thread \cup {None}
    /\ pc \in [Thread -> {"user", "pipe"} \cup End]
    /\ len \in [Thread -> 0..MaxLength]
    /\ held \in Holdings
    /\ desc \in Tables
    /\ lost \in [File -> Nat]

CountTypes ==
    /\ refs \in [File -> Nat]
    /\ readers \in [Pipe -> Nat] /\ writers \in [Pipe -> Nat]
    /\ opens \in Nat

PipeTypes ==
    /\ waiting_lock \in [Thread -> Pipe \cup {None}]
    /\ pipe \in [Pipe -> Ring]

LEMMA TypeParts == TypeOK <=> TaskTypes /\ CallTypes /\ CountTypes /\ PipeTypes
  BY Zenon DEF TypeOK, TaskTypes, CallTypes, CountTypes, PipeTypes, Ring, Tables, Holdings

LEMMA TypePartsNext ==
    ASSUME TaskTypes', CallTypes', CountTypes', PipeTypes' PROVE TypeOK'
  BY DEF TypeOK, TaskTypes, CallTypes, CountTypes, PipeTypes, Ring, Tables, Holdings

\* The objects of the two ends of a pipe.
LEMMA EndsAreFiles ==
    ASSUME NEW q \in Pipe
    PROVE  /\ <<q, "read">> \in File /\ <<q, "write">> \in File
           /\ <<q, "read">> # <<q, "write">>
           /\ <<q, "read">> \notin Regular /\ <<q, "write">> \notin Regular
  BY FilesAssumption DEF File, End

LEMMA NoneIsNothing ==
    None \notin File /\ None \notin Pipe /\ None \notin Thread /\ None \notin Process
  BY FilesAssumption

LEMMA EmptyPipeType == EmptyPipe \in Ring
  <1>1. 0 \in 0..Capacity-1 /\ 0 \in 0..Capacity /\ 0 \in 0..Wrap-1
    BY FilesAssumption
  <1>. QED
    BY <1>1 DEF EmptyPipe, Ring

-----------------------------------------------------------------------------
(* file_retain and file_release                                            *)

Amounts == [File -> Nat]

\* What an exchange does to the counts.
Balanced(get, give) ==
    /\ \A f \in File : refs'[f] = refs[f] + get[f] - give[f]
    /\ refs' \in [File -> Nat]

LEMMA ExchangeCounts ==
    ASSUME CountFacts, CountTypes, Ends, Inodes,
           NEW get \in Amounts, NEW give \in Amounts, NEW ring, NEW w,
           \A f \in File : give[f] <= refs[f] + get[f],
           \A f \in Regular : get[f] > 0 => refs[f] > 0,
           Exchange(get, give, ring, w)
    PROVE  Balanced(get, give) /\ CountTypes' /\ Ends' /\ Inodes'
  <1>1. \A f \in File : refs[f] \in Nat /\ get[f] \in Nat /\ give[f] \in Nat
    BY DEF CountTypes, Amounts
  <1>2. refs' = [f \in File |-> Minus(refs[f] + get[f], give[f])]
    BY DEF Exchange
  <1>3. \A f \in File : refs'[f] = refs[f] + get[f] - give[f]
    BY <1>1, <1>2 DEF Minus
  <1>4. refs' \in [File -> Nat]
    BY <1>1, <1>2, <1>3 DEF Minus
  <1>5. ASSUME NEW q \in Pipe
        PROVE  readers'[q] = refs'[<<q, "read">>] /\ writers'[q] = refs'[<<q, "write">>]
    BY <1>2, EndsAreFiles DEF Exchange, Ends
  <1>6. readers' \in [Pipe -> Nat] /\ writers' \in [Pipe -> Nat]
    <2>1. \A q \in Pipe : readers'[q] \in Nat /\ writers'[q] \in Nat
      BY Zenon, <1>4, <1>5, EndsAreFiles
    <2>2. /\ readers' = [q \in Pipe |-> readers'[q]]
          /\ writers' = [q \in Pipe |-> writers'[q]]
      BY DEF Exchange
    <2>. QED
      BY <2>1, <2>2
  <1>7. Cardinality(InUse(refs')) = opens' /\ opens' \in Nat
    <2>1. \A f \in Regular : refs'[f] > 0 => refs[f] > 0
      BY <1>1, <1>3 DEF File
    <2>2. /\ Cardinality(InUse(refs')) = Cardinality(InUse(refs))
               - Cardinality({f \in Regular : refs[f] > 0 /\ refs'[f] = 0})
          /\ Cardinality(InUse(refs')) \in Nat
      BY Zenon, <1>4, <2>1 DEF CountFacts, InUseFacts, CountTypes
    <2>. QED
      BY <2>2 DEF Exchange, Inodes
  <1>. QED
    BY <1>3, <1>4, <1>5, <1>6, <1>7 DEF Balanced, CountTypes, Ends, Inodes, InUse

\* An exchange leaves asleep only who has a reason: w are the threads that
\* slept on their pipe before it and still do.
LEMMA ExchangeSleep ==
    ASSUME CountTypes, PipeTypes, SleepJustified,
           NEW get \in Amounts, NEW give \in Amounts,
           NEW ring \in [Pipe -> Ring], NEW w \in [Thread -> Pipe \cup {None}],
           \A t \in Thread, q \in Pipe : w[t] = q =>
             waiting_lock[t] = q /\ held'[t] = held[t] /\ ring[q] = pipe[q],
           Exchange(get, give, ring, w)
    PROVE  SleepJustified' /\ PipeTypes'
  <1>1. ASSUME NEW t \in Thread, NEW q \in Pipe, waiting_lock'[t] = q
        PROVE  \/ held'[t] = {<<q, "read">>} /\ pipe'[q].count = 0 /\ writers'[q] > 0
               \/ held'[t] = {<<q, "write">>} /\ pipe'[q].count = Capacity /\ readers'[q] > 0
    <2>1. w[t] = q /\ q \notin Touched(give)
      BY <1>1, NoneIsNothing DEF Exchange, Woken
    <2>2. waiting_lock[t] = q /\ held'[t] = held[t] /\ ring[q] = pipe[q]
      BY <2>1
    <2>3. give[<<q, "read">>] = 0 /\ give[<<q, "write">>] = 0
      BY <2>1, EndsAreFiles DEF Touched, Amounts
    <2>4. readers'[q] >= readers[q] /\ writers'[q] >= writers[q]
      BY <2>3, EndsAreFiles DEF Exchange, Minus, CountTypes, Amounts
    <2>5. /\ readers[q] \in Nat /\ writers[q] \in Nat
          /\ readers'[q] \in Nat /\ writers'[q] \in Nat
      BY <2>3, EndsAreFiles DEF Exchange, Minus, CountTypes, Amounts
    <2>6. \/ held[t] = {<<q, "read">>} /\ pipe[q].count = 0 /\ writers[q] > 0
          \/ held[t] = {<<q, "write">>} /\ pipe[q].count = Capacity /\ readers[q] > 0
      BY <2>2 DEF SleepJustified
    <2>7. readers'[q] # 0 \/ writers'[q] # 0
      BY <2>4, <2>5, <2>6
    <2>8. pipe'[q] = pipe[q]
      BY <2>2, <2>7 DEF Exchange
    <2>. QED
      BY <2>2, <2>4, <2>5, <2>6, <2>8
  <1>2. pipe' \in [Pipe -> Ring]
    BY EmptyPipeType DEF Exchange
  <1>3. waiting_lock' \in [Thread -> Pipe \cup {None}]
    BY DEF Exchange, Woken
  <1>. QED
    BY <1>1, <1>2, <1>3 DEF SleepJustified, PipeTypes

-----------------------------------------------------------------------------
(* What every step has to show                                             *)

LEMMA Parts ==
    IInv => /\ TaskTypes /\ CallTypes /\ CountTypes /\ PipeTypes
            /\ Quiet /\ Unused /\ Counted /\ Ends /\ Inodes /\ SleepJustified
  BY TypeParts DEF IInv

LEMMA PartsNext ==
    ASSUME TaskTypes', CallTypes', CountTypes', PipeTypes',
           Quiet', Unused', Counted', Ends', Inodes', SleepJustified'
    PROVE  IInv'
  BY TypePartsNext DEF IInv

\* Whoever still sleeps after a step slept before it, in the same call, on a
\* pipe that the step does not change.
KeptAsleep(ring, w) ==
    \A t \in Thread, q \in Pipe : w[t] = q =>
        waiting_lock[t] = q /\ held'[t] = held[t] /\ pc'[t] = pc[t] /\ ring[q] = pipe[q]

\* The descriptors, holders and lost references change by get and give.
Booked(get, give) ==
    \A f \in File : Uses(desc', f) + Held(held', f) + lost'[f]
                      = Uses(desc, f) + Held(held, f) + lost[f] + get[f] - give[f]

\* A step that exchanges references.
LEMMA ExchangeStep ==
    ASSUME CountFacts, IInv,
           NEW get \in Amounts, NEW give \in Amounts,
           NEW ring \in [Pipe -> Ring], NEW w \in [Thread -> Pipe \cup {None}],
           Exchange(get, give, ring, w),
           \A f \in Regular : get[f] > 0 => refs[f] > 0,
           TaskTypes', CallTypes', Unused',
           \A t \in Thread : pc'[t] = "user" => held'[t] = {},
           KeptAsleep(ring, w), Booked(get, give)
    PROVE  IInv'
  <1>0. /\ TaskTypes /\ CallTypes /\ CountTypes /\ PipeTypes
        /\ Quiet /\ Unused /\ Counted /\ Ends /\ Inodes /\ SleepJustified
    BY Parts
  <1>1. \A f \in File : /\ refs[f] \in Nat /\ get[f] \in Nat /\ give[f] \in Nat
                        /\ lost'[f] \in Nat
    BY <1>0 DEF CountTypes, Amounts, CallTypes
  <1>2. \A f \in File : Uses(desc', f) \in Nat /\ Held(held', f) \in Nat
    BY DEF CountFacts, UseFacts, HeldFacts, CallTypes
  <1>3. \A f \in File : Uses(desc', f) + Held(held', f) + lost'[f] = refs[f] + get[f] - give[f]
    BY <1>0 DEF Counted, Booked
  <1>4. \A f \in File : give[f] <= refs[f] + get[f]
    BY <1>1, <1>2, <1>3
  <1>5. Balanced(get, give) /\ CountTypes' /\ Ends' /\ Inodes'
    BY <1>0, <1>4, ExchangeCounts
  <1>6. Counted'
    BY <1>3, <1>5 DEF Counted, Balanced
  <1>7. SleepJustified' /\ PipeTypes'
    BY <1>0, ExchangeSleep DEF KeptAsleep
  <1>8. Quiet'
    <2>1. ASSUME NEW t \in Thread, pc'[t] \notin End PROVE waiting_lock'[t] = None
      <3>1. waiting_lock'[t] = w[t] \/ waiting_lock'[t] = None
        BY DEF Exchange, Woken
      <3>2. w[t] # None => w[t] \in Pipe
        OBVIOUS
      <3>3. w[t] # None => pc[t] \notin End /\ waiting_lock[t] # None
        BY <2>1, <3>2, NoneIsNothing DEF KeptAsleep
      <3>. QED
        BY <1>0, <3>1, <3>3 DEF Quiet
    <2>. QED
      BY <2>1 DEF Quiet
  <1>. QED
    BY <1>5, <1>6, <1>7, <1>8, PartsNext

LEMMA NothingAmount == Nothing \in Amounts /\ \A f \in File : Nothing[f] = 0
  BY DEF Nothing, Amounts

LEMMA OneAmount ==
    ASSUME NEW v
    PROVE  Each({v}) \in Amounts /\ \A f \in File : Each({v})[f] = Same(f, v)
  BY DEF Each, Amounts, Same

LEMMA EachAmount ==
    ASSUME NEW S
    PROVE  Each(S) \in Amounts /\ \A f \in File : Each(S)[f] = In(f, S)
  BY DEF Each, Amounts, In

LEMMA TableAmounts ==
    ASSUME CountFacts, CallTypes, NEW p \in Process
    PROVE  Table(p) \in Amounts /\ \A f \in File : Table(p)[f] = InTable(desc, p, f)
  BY DEF CountFacts, UseFacts, CallTypes, Table, InTable, Amounts

\* What a descriptor refers to, or a call holds, is referenced.
LEMMA Referenced ==
    ASSUME CountFacts, IInv, NEW f \in File
    PROVE  /\ \A p \in Process, d \in Fd : desc[p][d] = f => refs[f] > 0
           /\ \A p \in Process : InTable(desc, p, f) > 0 => refs[f] > 0
           /\ \A t \in Thread : f \in held[t] => refs[f] > 0
  <1>0. CallTypes /\ CountTypes /\ Counted
    BY Parts
  <1>1. lost[f] \in Nat /\ refs[f] \in Nat /\ desc \in Tables /\ held \in Holdings
    BY <1>0 DEF CallTypes, CountTypes
  <1>2. refs[f] = Uses(desc, f) + Held(held, f) + lost[f]
    BY <1>0 DEF Counted
  <1>3. Uses(desc, f) \in Nat /\ Held(held, f) \in Nat
    BY <1>1 DEF CountFacts, UseFacts, HeldFacts
  <1>4. \A p \in Process, d \in Fd : desc[p][d] = f => Uses(desc, f) > 0
    BY <1>1 DEF CountFacts, UseFacts
  <1>5. \A p \in Process : InTable(desc, p, f) \in Nat /\ InTable(desc, p, f) <= Uses(desc, f)
    BY <1>1 DEF CountFacts, UseFacts
  <1>6. \A t \in Thread : f \in held[t] => Held(held, f) > 0
    BY <1>1 DEF CountFacts, HeldFacts
  <1>. QED
    BY <1>1, <1>2, <1>3, <1>4, <1>5, <1>6

\* One descriptor is set.
SetAt(ds, p, d, v) == [ds EXCEPT ![p] = [ds[p] EXCEPT ![d] = v]]

WasSet(ds, es, p, d, v) ==
    /\ es \in Tables
    /\ \A f \in File : Shift(Uses(ds, f), Uses(es, f), Same(f, v), Same(f, ds[p][d]))
    /\ \A x \in Process \ {p} : es[x] = ds[x]
    /\ es[p] = [ds[p] EXCEPT ![d] = v]

LEMMA SetOneUse ==
    ASSUME SetFacts, NEW ds \in Tables, NEW es \in Tables, NEW f \in File,
           NEW p \in Process, NEW d \in Fd, DiffersAt(ds, es, p, d)
    PROVE  Shift(Uses(ds, f), Uses(es, f), Same(f, es[p][d]), Same(f, ds[p][d]))
  BY DEF SetFacts

LEMMA SetAtTables ==
    ASSUME NEW ds \in Tables, NEW p \in Process, NEW d \in Fd, NEW v \in File \cup {None}
    PROVE  LET es == SetAt(ds, p, d, v)
           IN  /\ es \in Tables
               /\ \A x \in Process \ {p} : es[x] = ds[x]
               /\ es[p] = [ds[p] EXCEPT ![d] = v] /\ es[p][d] = v
               /\ DiffersAt(ds, es, p, d)
  BY DEF SetAt, Tables, DiffersAt

LEMMA SetOne ==
    ASSUME CountFacts, NEW ds \in Tables, NEW p \in Process, NEW d \in Fd,
           NEW v \in File \cup {None}, NEW es, es = SetAt(ds, p, d, v)
    PROVE  WasSet(ds, es, p, d, v)
  <1>1. /\ es \in Tables /\ \A x \in Process \ {p} : es[x] = ds[x]
        /\ es[p] = [ds[p] EXCEPT ![d] = v] /\ es[p][d] = v
        /\ DiffersAt(ds, es, p, d)
    BY SetAtTables
  <1>2. SetFacts
    BY DEF CountFacts
  <1>3. ASSUME NEW f \in File
        PROVE  Shift(Uses(ds, f), Uses(es, f), Same(f, v), Same(f, ds[p][d]))
    <2>1. Shift(Uses(ds, f), Uses(es, f), Same(f, es[p][d]), Same(f, ds[p][d]))
      BY Zenon, <1>1, <1>2, SetOneUse
    <2>. QED
      BY <1>1, <2>1
  <1>. QED
    BY <1>1, <1>3 DEF WasSet

LEMMA SameType == ASSUME NEW f, NEW v PROVE Same(f, v) \in {0, 1}
  BY DEF Same

LEMMA InType == ASSUME NEW f, NEW S PROVE In(f, S) \in {0, 1}
  BY DEF In

\* Sums of a use count, a holder count and a loss: u, h, l before a step, v, k, m after.
Changes(v, k, m, u, h, l, get, give) == v + k + m = u + h + l + get - give

LEMMA HoldSum ==
    ASSUME NEW u \in Nat, NEW h \in Nat, NEW l \in Nat, NEW i \in {0, 1}, NEW j \in {0, 1},
           NEW get \in Nat, NEW give \in Nat, NEW v, NEW k, NEW m,
           v = u, m = l, Shift(h, k, i, j), i = j + get - give
    PROVE  Changes(v, k, m, u, h, l, get, give)
  BY SMTT(30) DEF Shift, Changes

LEMMA FillSum ==
    ASSUME NEW u \in Nat, NEW h \in Nat, NEW l \in Nat, NEW get \in Nat,
           NEW v, NEW k, NEW m, NEW give, give = 0, Shift(u, v, get, 0), k = h, m = l
    PROVE  Changes(v, k, m, u, h, l, get, give)
  BY SMTT(30) DEF Shift, Changes

LEMMA DropSum ==
    ASSUME NEW u \in Nat, NEW h \in Nat, NEW l \in Nat, NEW give \in Nat, NEW n \in Nat,
           NEW v \in Nat, NEW k, NEW m, NEW get, get = 0,
           Shift(v, u, give, 0), Shift(h, k, 0, n), m = l + n
    PROVE  Changes(v, k, m, u, h, l, get, give)
  BY SMTT(30) DEF Shift, Changes

\* The process of a thread that makes a call.
LEMMA Caller ==
    ASSUME IInv, NEW t \in Thread, User(t)
    PROVE  /\ proc[t] \in Process /\ held[t] = {} /\ waiting_lock[t] = None
           /\ proc[t] \in used
           /\ pc[t] = "user" /\ pc[t] \notin End
  <1>1. "user" \notin End
    BY DEF End
  <1>. QED
    BY <1>1, Parts DEF User, TaskTypes, Quiet, Unused

-----------------------------------------------------------------------------
(* Calls that do not block                                                 *)

\* A step of a caller that changes neither tasks nor the calls of threads, and
\* exchanges references for descriptors.
LEMMA DescriptorStep ==
    ASSUME CountFacts, IInv, NEW t \in Thread, User(t),
           NEW get \in Amounts, NEW give \in Amounts,
           Exchange(get, give, pipe, waiting_lock),
           UNCHANGED <<tasks, cpu, pc, len, held>>,
           \A f \in Regular : get[f] > 0 => refs[f] > 0,
           desc' \in Tables, lost' \in [File -> Nat],
           \A p \in Process \ {proc[t]} : desc'[p] = desc[p],
           \A f \in File : Uses(desc', f) + lost'[f]
                             = Uses(desc, f) + lost[f] + get[f] - give[f]
    PROVE  IInv'
  <1>0. TaskTypes /\ CallTypes /\ CountTypes /\ PipeTypes /\ Quiet /\ Unused
    BY Parts
  <1>1. /\ calls' = calls /\ proc' = proc /\ parent' = parent
        /\ main_thread' = main_thread /\ used' = used /\ exit_requested' = exit_requested
        /\ cpu' = cpu /\ pc' = pc /\ len' = len /\ held' = held
    BY DEF tasks
  <1>2. TaskTypes' /\ CallTypes'
    BY <1>0, <1>1 DEF TaskTypes, CallTypes
  <1>3. Unused'
    BY <1>0, <1>1, Caller DEF Unused
  <1>4. \A u \in Thread : pc'[u] = "user" => held'[u] = {}
    BY <1>0, <1>1 DEF Quiet
  <1>5. KeptAsleep(pipe, waiting_lock)
    BY <1>1 DEF KeptAsleep
  <1>6. Booked(get, give)
    <2>1. ASSUME NEW f \in File
          PROVE  Uses(desc', f) + Held(held', f) + lost'[f]
                   = Uses(desc, f) + Held(held, f) + lost[f] + get[f] - give[f]
      <3>1. /\ Uses(desc', f) \in Nat /\ Uses(desc, f) \in Nat
            /\ Held(held, f) \in Nat
        BY <1>0 DEF CountFacts, UseFacts, HeldFacts, CallTypes
      <3>2. lost'[f] \in Nat /\ lost[f] \in Nat /\ get[f] \in Nat /\ give[f] \in Nat
        BY <1>0 DEF CallTypes, Amounts
      <3>3. Held(held', f) = Held(held, f)
        BY <1>1
      <3>. QED
        BY <3>1, <3>2, <3>3
    <2>. QED
      BY <2>1 DEF Booked
  <1>7. pipe \in [Pipe -> Ring] /\ waiting_lock \in [Thread -> Pipe \cup {None}]
    BY <1>0 DEF PipeTypes
  <1>. QED
    BY <1>2, <1>3, <1>4, <1>5, <1>6, <1>7, ExchangeStep

\* The tables after a descriptor was set in p's.
LEMMA DescTypes == IInv => desc \in Tables /\ lost \in [File -> Nat] /\ held \in Holdings
  BY Parts DEF CallTypes

LEMMA SumTypes ==
    ASSUME CountFacts, IInv, NEW f \in File
    PROVE  Uses(desc, f) \in Nat /\ Held(held, f) \in Nat /\ lost[f] \in Nat
  BY DescTypes DEF CountFacts, UseFacts, HeldFacts

LEMMA CloseStep ==
    ASSUME CountFacts, IInv, NEW t \in Thread, NEW d \in Fd, Close(t, d)
    PROVE  IInv'
  <1>0. PICK p, o : p = proc[t] /\ o = desc[p][d]
    OBVIOUS
  <1>. DEFINE get == Nothing
              give == Each({o})
  <1>1. /\ User(t) /\ Exchange(get, give, pipe, waiting_lock)
        /\ UNCHANGED <<tasks, cpu, pc, len, held>> /\ lost' = lost
    BY <1>0 DEF Close, Calls, Object, Release
  <1>2. desc' = SetAt(desc, p, d, None)
    BY <1>0 DEF Close, SetAt
  <1>3. p \in Process
    BY Zenon, <1>0, <1>1, Caller
  <1>4. /\ get \in Amounts /\ \A f \in File : get[f] = 0
        /\ give \in Amounts /\ \A f \in File : give[f] = Same(f, o)
    BY NothingAmount, OneAmount
  <1>. HIDE DEF get, give
  <1>5. /\ desc' \in Tables /\ \A x \in Process \ {p} : desc'[x] = desc[x]
        /\ \A f \in File : Shift(Uses(desc, f), Uses(desc', f), Same(f, None), Same(f, o))
    <2>1. WasSet(desc, desc', p, d, None)
      BY <1>0, <1>2, <1>3, SetOne, DescTypes
    <2>. QED
      BY <1>0, <2>1 DEF WasSet
  <1>6. ASSUME NEW f \in File
        PROVE  Uses(desc', f) + lost'[f] = Uses(desc, f) + lost[f] + get[f] - give[f]
    <2>1. Same(f, None) = 0 /\ Same(f, o) \in {0, 1}
      BY NoneIsNothing DEF Same
    <2>2. Uses(desc, f) \in Nat /\ lost[f] \in Nat /\ lost'[f] = lost[f]
      BY <1>1, SumTypes
    <2>. QED
      BY <1>4, <1>5, <2>1, <2>2 DEF Shift
  <1>7. \A f \in Regular : get[f] > 0 => refs[f] > 0
    BY <1>4 DEF File
  <1>8. lost' \in [File -> Nat]
    BY <1>1, DescTypes
  <1>. QED
    BY <1>0, <1>1, <1>4, <1>5, <1>6, <1>7, <1>8, DescriptorStep

\* install_file_object takes the first free place.
LEMMA InstallOne ==
    ASSUME CountFacts, IInv, NEW p \in Process, FreeSlots(p) # {}, NEW f \in File,
           desc' = [desc EXCEPT ![p] = Install(p, f)]
    PROVE  /\ desc' \in Tables /\ \A x \in Process \ {p} : desc'[x] = desc[x]
           /\ \A g \in File : Uses(desc', g) = Uses(desc, g) + Same(g, f)
  <1>0. PICK s : s = Lowest(FreeSlots(p))
    OBVIOUS
  <1>1. s \in FreeSlots(p)
    BY <1>0 DEF FreeSlots, CountFacts, SlotFacts
  <1>2. s \in Fd /\ desc[p][s] = None
    BY <1>1 DEF FreeSlots, Fd
  <1>3. desc' = SetAt(desc, p, s, f)
    BY <1>0 DEF Install, SetAt
  <1>4. /\ desc' \in Tables /\ \A x \in Process \ {p} : desc'[x] = desc[x]
        /\ \A g \in File : Shift(Uses(desc, g), Uses(desc', g), Same(g, f), Same(g, None))
    <2>1. WasSet(desc, desc', p, s, f)
      BY Zenon, <1>2, <1>3, SetOne, DescTypes
    <2>. QED
      BY Zenon, <1>2, <2>1 DEF WasSet
  <1>5. ASSUME NEW g \in File PROVE Uses(desc', g) = Uses(desc, g) + Same(g, f)
    <2>1. Same(g, None) = 0 /\ Same(g, f) \in {0, 1}
      BY NoneIsNothing DEF Same
    <2>2. Uses(desc, g) \in Nat
      BY SumTypes
    <2>3. Shift(Uses(desc, g), Uses(desc', g), Same(g, f), Same(g, None))
      BY Zenon, <1>4
    <2>. QED
      BY <2>1, <2>2, <2>3 DEF Shift
  <1>. QED
    BY Zenon, <1>4, <1>5

LEMMA DupStep ==
    ASSUME CountFacts, IInv, NEW t \in Thread, NEW d \in Fd, Dup(t, d)
    PROVE  IInv'
  <1>0. PICK p, o : p = proc[t] /\ o = desc[p][d]
    OBVIOUS
  <1>. DEFINE get == Each({o})
              give == Nothing
  <1>1. /\ User(t) /\ Exchange(get, give, pipe, waiting_lock)
        /\ UNCHANGED <<tasks, cpu, pc, len, held>> /\ lost' = lost
    BY Zenon, <1>0 DEF Dup, Calls, Object, Retain
  <1>2. o # None /\ FreeSlots(p) # {} /\ desc' = [desc EXCEPT ![p] = Install(p, o)]
    BY <1>0 DEF Dup, Object
  <1>3. p \in Process
    BY Zenon, <1>0, <1>1, Caller
  <1>4. /\ get \in Amounts /\ \A f \in File : get[f] = Same(f, o)
        /\ give \in Amounts /\ \A f \in File : give[f] = 0
    BY NothingAmount, OneAmount
  <1>. HIDE DEF get, give
  <1>5. o \in File
    BY <1>0, <1>2, <1>3, DescTypes DEF Tables
  <1>6. /\ desc' \in Tables /\ \A x \in Process \ {p} : desc'[x] = desc[x]
        /\ \A f \in File : Uses(desc', f) = Uses(desc, f) + Same(f, o)
    BY Zenon, <1>2, <1>3, <1>5, InstallOne
  <1>7. ASSUME NEW f \in File
        PROVE  Uses(desc', f) + lost'[f] = Uses(desc, f) + lost[f] + get[f] - give[f]
    <2>1. Same(f, o) \in {0, 1}
      BY SameType
    <2>2. Uses(desc, f) \in Nat /\ lost[f] \in Nat /\ lost'[f] = lost[f]
      BY <1>1, SumTypes
    <2>. QED
      BY <1>4, <1>6, <2>1, <2>2
  <1>8. \A f \in Regular : get[f] > 0 => refs[f] > 0
    BY <1>0, <1>3, <1>4, Referenced DEF Same, File
  <1>9. lost' \in [File -> Nat]
    BY <1>1, DescTypes
  <1>. QED
    BY <1>0, <1>1, <1>4, <1>6, <1>7, <1>8, <1>9, DescriptorStep

LEMMA Dup2Step ==
    ASSUME CountFacts, IInv, NEW t \in Thread, NEW d \in Fd, NEW e \in Fd, Dup2(t, d, e)
    PROVE  IInv'
  <1>0. PICK p, o, r : p = proc[t] /\ o = desc[p][d] /\ r = desc[p][e]
    OBVIOUS
  <1>. DEFINE get == Each({o})
              give == Each({r})
  <1>1. /\ User(t) /\ Exchange(get, give, pipe, waiting_lock)
        /\ UNCHANGED <<tasks, cpu, pc, len, held>> /\ lost' = lost
    BY <1>0 DEF Dup2, Calls, Object
  <1>2. desc' = SetAt(desc, p, e, o)
    BY <1>0 DEF Dup2, Object, SetAt
  <1>3. p \in Process
    BY <1>0, <1>1, Caller
  <1>4. /\ get \in Amounts /\ \A f \in File : get[f] = Same(f, o)
        /\ give \in Amounts /\ \A f \in File : give[f] = Same(f, r)
    BY OneAmount
  <1>. HIDE DEF get, give
  <1>5. o \in File \cup {None}
    BY <1>0, <1>3, DescTypes DEF Tables
  <1>6. /\ desc' \in Tables /\ \A x \in Process \ {p} : desc'[x] = desc[x]
        /\ \A f \in File : Shift(Uses(desc, f), Uses(desc', f), Same(f, o), Same(f, r))
    <2>1. WasSet(desc, desc', p, e, o)
      BY <1>0, <1>2, <1>3, <1>5, SetOne, DescTypes
    <2>. QED
      BY <1>0, <2>1 DEF WasSet
  <1>7. ASSUME NEW f \in File
        PROVE  Uses(desc', f) + lost'[f] = Uses(desc, f) + lost[f] + get[f] - give[f]
    <2>1. Same(f, o) \in {0, 1} /\ Same(f, r) \in {0, 1}
      BY SameType
    <2>2. Uses(desc, f) \in Nat /\ lost[f] \in Nat /\ lost'[f] = lost[f]
      BY <1>1, SumTypes
    <2>. QED
      BY <1>4, <1>6, <2>1, <2>2 DEF Shift
  <1>8. \A f \in Regular : get[f] > 0 => refs[f] > 0
    BY <1>0, <1>3, <1>4, Referenced DEF Same, File
  <1>9. lost' \in [File -> Nat]
    BY <1>1, DescTypes
  <1>. QED
    BY Zenon, <1>0, <1>1, <1>4, <1>6, <1>7, <1>8, <1>9, DescriptorStep

LEMMA TouchStep ==
    ASSUME CountFacts, IInv, NEW t \in Thread, NEW d \in Fd, Touch(t, d)
    PROVE  IInv'
  <1>0. PICK o : o = desc[proc[t]][d]
    OBVIOUS
  <1>. DEFINE get == Each({o})
  <1>1. /\ User(t) /\ Exchange(get, get, pipe, waiting_lock)
        /\ UNCHANGED <<tasks, cpu, pc, len, held>> /\ lost' = lost /\ desc' = desc
    BY Zenon, <1>0 DEF Touch, Calls, Object
  <1>2. get \in Amounts /\ \A f \in File : get[f] = Same(f, o)
    BY OneAmount
  <1>. HIDE DEF get
  <1>3. ASSUME NEW f \in File
        PROVE  Uses(desc', f) + lost'[f] = Uses(desc, f) + lost[f] + get[f] - get[f]
    <2>1. Uses(desc, f) \in Nat /\ lost[f] \in Nat
      BY SumTypes
    <2>2. Uses(desc', f) = Uses(desc, f) /\ lost'[f] = lost[f] /\ get[f] \in Nat
      BY <1>1, <1>2 DEF Amounts
    <2>. QED
      BY <2>1, <2>2
  <1>4. \A f \in Regular : get[f] > 0 => refs[f] > 0
    BY <1>0, <1>1, <1>2, Caller, Referenced DEF Same, File
  <1>5. /\ desc' \in Tables /\ lost' \in [File -> Nat]
        /\ \A p \in Process \ {proc[t]} : desc'[p] = desc[p]
    BY <1>1, DescTypes
  <1>. QED
    BY Zenon, <1>1, <1>2, <1>3, <1>4, <1>5, DescriptorStep

LEMMA ReadNoMemoryStep ==
    ASSUME CountFacts, IInv, NEW t \in Thread, NEW d \in Fd, ReadNoMemory(t, d)
    PROVE  IInv'
  <1>0. PICK o : o = desc[proc[t]][d]
    OBVIOUS
  <1>. DEFINE get == Each({o})
              give == Nothing
  <1>1. /\ User(t) /\ Exchange(get, give, pipe, waiting_lock)
        /\ UNCHANGED <<tasks, cpu, pc, len, held>> /\ desc' = desc
    BY <1>0 DEF ReadNoMemory, Calls, Object, Retain
  <1>2. lost' = [lost EXCEPT ![o] = lost[o] + 1]
    BY <1>0 DEF ReadNoMemory, Object
  <1>3. /\ get \in Amounts /\ \A f \in File : get[f] = Same(f, o)
        /\ give \in Amounts /\ \A f \in File : give[f] = 0
    BY OneAmount, NothingAmount
  <1>. HIDE DEF get, give
  <1>4. lost' = [f \in File |-> IF f = o THEN lost[f] + 1 ELSE lost[f]]
    BY Zenon, <1>2, DescTypes
  <1>5. ASSUME NEW f \in File
        PROVE  Uses(desc', f) + lost'[f] = Uses(desc, f) + lost[f] + get[f] - give[f]
    <2>1. Uses(desc, f) \in Nat /\ lost[f] \in Nat
      BY SumTypes
    <2>2. Uses(desc', f) = Uses(desc, f)
      BY <1>1
    <2>. QED
      BY <1>3, <1>4, <2>1, <2>2 DEF Same
  <1>6. \A f \in Regular : get[f] > 0 => refs[f] > 0
    BY <1>0, <1>1, <1>3, Caller, Referenced DEF Same, File
  <1>7. lost' \in [File -> Nat]
    BY <1>4, DescTypes
  <1>8. desc' \in Tables /\ \A p \in Process \ {proc[t]} : desc'[p] = desc[p]
    BY Zenon, <1>1, DescTypes
  <1>. QED
    BY Zenon, <1>1, <1>3, <1>5, <1>6, <1>7, <1>8, DescriptorStep

LEMMA ForkFailsStep ==
    ASSUME CountFacts, IInv, NEW t \in Thread, ForkFails(t)
    PROVE  IInv'
  <1>. DEFINE b == Table(proc[t])
  <1>1. /\ User(t) /\ Exchange(b, b, pipe, waiting_lock)
        /\ UNCHANGED <<tasks, cpu, pc, len, held>> /\ lost' = lost /\ desc' = desc
    BY DEF ForkFails, Calls
  <1>2. proc[t] \in Process
    BY <1>1, Caller
  <1>3. b \in Amounts /\ \A f \in File : b[f] = InTable(desc, proc[t], f)
    BY <1>2, TableAmounts, Parts
  <1>. HIDE DEF b
  <1>4. ASSUME NEW f \in File
        PROVE  Uses(desc', f) + lost'[f] = Uses(desc, f) + lost[f] + b[f] - b[f]
    BY <1>1, <1>3, SumTypes DEF Amounts
  <1>5. \A f \in Regular : b[f] > 0 => refs[f] > 0
    BY <1>2, <1>3, Referenced DEF File
  <1>. QED
    BY <1>1, <1>3, <1>4, <1>5, DescTypes, DescriptorStep

-----------------------------------------------------------------------------
(* Calls on pipes                                                          *)

\* The call of thread t goes on or ends: it holds h and is at s afterwards.
Goes(t, h, s) ==
    /\ UNCHANGED <<tasks, desc, lost>>
    /\ cpu' \in Thread \cup {None} /\ len' \in [Thread -> 0..MaxLength]
    /\ held' = [held EXCEPT ![t] = h] /\ pc' = [pc EXCEPT ![t] = s]

\* It sleeps no more itself, and for the sleepers w nothing changes.
LeavesAsleep(t, ring, w) ==
    \A u \in Thread, q \in Pipe : w[u] = q =>
        u # t /\ waiting_lock[u] = q /\ ring[q] = pipe[q]

\* It holds what it takes, and no more what it returns.
Trades(t, h, get, give) == \A f \in File : In(f, h) = In(f, held[t]) + get[f] - give[f]

\* Nobody takes the first reference to a regular file here.
Known(get) == \A f \in Regular : get[f] > 0 => refs[f] > 0

LEMMA CallStep ==
    ASSUME CountFacts, IInv, NEW t \in Thread,
           NEW get \in Amounts, NEW give \in Amounts,
           NEW ring \in [Pipe -> Ring], NEW w \in [Thread -> Pipe \cup {None}],
           NEW h \in SUBSET File, NEW s \in {"user", "pipe"} \cup End,
           Exchange(get, give, ring, w),
           Goes(t, h, s), s = "user" => h = {},
           Known(get), LeavesAsleep(t, ring, w), Trades(t, h, get, give)
    PROVE  IInv'
  <1>0. TaskTypes /\ CallTypes /\ CountTypes /\ PipeTypes /\ Quiet /\ Unused
    BY Parts
  <1>1. /\ calls' = calls /\ proc' = proc /\ parent' = parent
        /\ main_thread' = main_thread /\ used' = used /\ exit_requested' = exit_requested
        /\ desc' = desc /\ lost' = lost
    BY DEF Goes, tasks
  <1>2. TaskTypes' /\ Unused'
    BY Zenon, <1>0, <1>1 DEF TaskTypes, Unused
  <1>3. /\ held' \in Holdings /\ held'[t] = h
        /\ \A u \in Thread \ {t} : held'[u] = held[u]
    BY <1>0 DEF Goes, CallTypes, Holdings
  <1>4. /\ pc' \in [Thread -> {"user", "pipe"} \cup End] /\ pc'[t] = s
        /\ \A u \in Thread \ {t} : pc'[u] = pc[u]
    BY <1>0 DEF Goes, CallTypes
  <1>5. CallTypes'
    BY <1>0, <1>1, <1>3, <1>4 DEF Goes, CallTypes
  <1>6. \A u \in Thread : pc'[u] = "user" => held'[u] = {}
    BY <1>0, <1>3, <1>4 DEF Quiet
  <1>7. KeptAsleep(ring, w)
    BY <1>3, <1>4 DEF LeavesAsleep, KeptAsleep
  <1>8. Booked(get, give)
    <2>1. ASSUME NEW f \in File
          PROVE  Uses(desc', f) + Held(held', f) + lost'[f]
                   = Uses(desc, f) + Held(held, f) + lost[f] + get[f] - give[f]
      <3>1. Shift(Held(held, f), Held(held', f), In(f, held'[t]), In(f, held[t]))
        BY Zenon, <1>0, <1>3 DEF CountFacts, HeldFacts, CallTypes
      <3>2. Uses(desc, f) \in Nat /\ Held(held, f) \in Nat /\ lost[f] \in Nat
        BY SumTypes
      <3>3. Uses(desc', f) = Uses(desc, f) /\ lost'[f] = lost[f]
        BY <1>1
      <3>4. /\ In(f, h) \in {0, 1} /\ In(f, held[t]) \in {0, 1}
            /\ get[f] \in Nat /\ give[f] \in Nat
        BY InType DEF Amounts
      <3>5. In(f, h) = In(f, held[t]) + get[f] - give[f]
        BY DEF Trades
      <3>6. Shift(Held(held, f), Held(held', f), In(f, h), In(f, held[t]))
        BY Zenon, <1>3, <3>1
      <3>7. Changes(Uses(desc', f), Held(held', f), lost'[f],
                   Uses(desc, f), Held(held, f), lost[f], get[f], give[f])
        BY Zenon, <3>2, <3>3, <3>4, <3>5, <3>6, HoldSum
      <3>. QED
        BY Zenon, <3>7 DEF Changes
    <2>. QED
      BY Zenon, <2>1 DEF Booked
  <1>. QED
    BY Zenon, <1>2, <1>5, <1>6, <1>7, <1>8, ExchangeStep DEF Known

LEMMA LenTypes ==
    ASSUME IInv, NEW t \in Thread, NEW n \in 0..MaxLength
    PROVE  len \in [Thread -> 0..MaxLength] /\ [len EXCEPT ![t] = n] \in [Thread -> 0..MaxLength]
  BY Parts DEF CallTypes

LEMMA RingTypes ==
    IInv => pipe \in [Pipe -> Ring] /\ waiting_lock \in [Thread -> Pipe \cup {None}]
  BY Parts DEF PipeTypes

LEMMA PipeFailsStep ==
    ASSUME CountFacts, IInv, NEW t \in Thread, PipeFails(t)
    PROVE  IInv'
  <1>. DEFINE get == Nothing
              give == Each(held[t])
  <1>1. /\ pc[t] = "pipe" /\ Exchange(get, give, pipe, waiting_lock)
        /\ UNCHANGED <<tasks, desc, lost>> /\ len' = len
        /\ held' = [held EXCEPT ![t] = {}] /\ pc' = [pc EXCEPT ![t] = "user"]
        /\ cpu' \in Thread \cup {None}
    BY DEF PipeFails, Release
  <1>2. /\ get \in Amounts /\ \A f \in File : get[f] = 0
        /\ give \in Amounts /\ \A f \in File : give[f] = In(f, held[t])
    BY NothingAmount, EachAmount
  <1>. HIDE DEF get, give
  <1>3. waiting_lock[t] = None
    BY <1>1, Parts DEF Quiet, End
  <1>4. LeavesAsleep(t, pipe, waiting_lock)
    BY <1>3, NoneIsNothing DEF LeavesAsleep
  <1>5. Trades(t, {}, get, give)
    BY <1>2 DEF In, Trades
  <1>6. Known(get)
    BY <1>2 DEF File, Known
  <1>7. len' \in [Thread -> 0..MaxLength]
    BY <1>1, Parts DEF CallTypes
  <1>8. Goes(t, {}, "user")
    BY <1>1, <1>7 DEF Goes
  <1>. QED
    BY <1>1, <1>2, <1>4, <1>5, <1>6, <1>8, RingTypes, CallStep

LEMMA ReadWriteCallStep ==
    ASSUME CountFacts, IInv, NEW t \in Thread, NEW d \in Fd, NEW n \in Lengths,
           ReadWriteCall(t, d, n)
    PROVE  IInv'
  <1>0. PICK o : o = desc[proc[t]][d]
    OBVIOUS
  <1>. DEFINE get == Each({o})
              give == Nothing
  <1>1. /\ User(t) /\ Exchange(get, give, pipe, waiting_lock)
        /\ UNCHANGED <<tasks, desc, lost>> /\ len' = [len EXCEPT ![t] = n]
        /\ held' = [held EXCEPT ![t] = {o}] /\ pc' = [pc EXCEPT ![t] = o[2]]
        /\ cpu' \in Thread \cup {None} /\ o \in Pipe \X End
    BY Zenon, <1>0 DEF ReadWriteCall, Calls, Object, Retain
  <1>2. /\ get \in Amounts /\ \A f \in File : get[f] = In(f, {o})
        /\ give \in Amounts /\ \A f \in File : give[f] = 0
    BY NothingAmount, EachAmount
  <1>. HIDE DEF get, give
  <1>3. waiting_lock[t] = None /\ held[t] = {}
    BY Zenon, <1>1, Caller
  <1>4. LeavesAsleep(t, pipe, waiting_lock)
    BY Zenon, <1>3, NoneIsNothing DEF LeavesAsleep
  <1>5. Trades(t, {o}, get, give)
    BY <1>2, <1>3 DEF In, Trades
  <1>6. Known(get)
    <2>1. \A f \in Regular : f \in File /\ f # o
      BY Zenon, <1>1, FilesAssumption DEF File
    <2>2. \A f \in Regular : get[f] = 0
      BY Zenon, <1>2, <2>1 DEF In
    <2>. QED
      BY <2>2 DEF Known
  <1>7. n \in 0..MaxLength
    BY FilesAssumption DEF Lengths
  <1>8. o[2] \in End /\ o[2] # "user" /\ o \in File
    BY <1>1 DEF End, File
  <1>9. len' \in [Thread -> 0..MaxLength]
    BY <1>1, <1>7, LenTypes
  <1>10. Goes(t, {o}, o[2])
    BY <1>1, <1>9 DEF Goes
  <1>. QED
    BY Zenon, <1>1, <1>2, <1>4, <1>5, <1>6, <1>8, <1>10, RingTypes, CallStep

\* The threads that w leaves asleep sleep on a pipe that ring leaves alone.
Undisturbed(ring, w) ==
    /\ ring \in [Pipe -> Ring] /\ w \in [Thread -> Pipe \cup {None}]
    /\ \A u \in Thread, x \in Pipe : w[u] = x => waiting_lock[u] = x /\ ring[x] = pipe[x]

LEMMA ReturnsStep ==
    ASSUME CountFacts, IInv, NEW t \in Thread, NEW e \in End, NEW q \in Pipe, Loop(t, e, q),
           NEW ring, NEW w, Returns(t, <<q, e>>, ring, w), Undisturbed(ring, w)
    PROVE  IInv'
  <1>. ring \in [Pipe -> Ring] /\ w \in [Thread -> Pipe \cup {None}]
    BY Zenon DEF Undisturbed
  <1>0. PICK o : o = <<q, e>>
    OBVIOUS
  <1>. DEFINE get == Nothing
              give == Each({o})
  <1>1. /\ Exchange(get, give, ring, w)
        /\ UNCHANGED <<tasks, desc, lost>> /\ len' = [len EXCEPT ![t] = 0]
        /\ held' = [held EXCEPT ![t] = {}] /\ pc' = [pc EXCEPT ![t] = "user"]
        /\ cpu' \in Thread \cup {None}
    BY Zenon, <1>0 DEF Returns
  <1>2. /\ get \in Amounts /\ \A f \in File : get[f] = 0
        /\ give \in Amounts /\ \A f \in File : give[f] = In(f, {o})
    BY Zenon, NothingAmount, EachAmount
  <1>. HIDE DEF get, give
  <1>3. waiting_lock[t] = None /\ held[t] = {o}
    BY <1>0 DEF Loop
  <1>4. LeavesAsleep(t, ring, w)
    BY Zenon, <1>3, NoneIsNothing DEF LeavesAsleep, Undisturbed
  <1>5. Trades(t, {}, get, give)
    BY <1>2, <1>3 DEF In, Trades
  <1>6. Known(get)
    BY <1>2 DEF File, Known
  <1>7. len' \in [Thread -> 0..MaxLength]
    <2>1. 0 \in 0..MaxLength
      BY FilesAssumption
    <2>. QED
      BY <1>1, <2>1, LenTypes
  <1>8. Goes(t, {}, "user")
    BY <1>1, <1>7 DEF Goes
  <1>. QED
    BY Zenon, <1>1, <1>2, <1>4, <1>5, <1>6, <1>8, CallStep

-----------------------------------------------------------------------------
(* The ring                                                                *)

\* n places further in a ring of c.
Turn(h, n, c) == (h + n) % c

InOrder(r) ==
    /\ r.tail = Turn(r.head, r.count, Capacity)
    /\ r.sent = Turn(r.taken, r.count, Wrap)
    /\ \A i \in 0..(r.count - 1) : r.data[Turn(r.head, i, Capacity)] = Turn(r.taken, i, Wrap)

LEMMA BytesAre == BytesInOrder <=> \A q \in Pipe : InOrder(pipe[q])
  BY DEF BytesInOrder, InOrder, Turn

\* For what is less than twice the modulus the remainder is a subtraction.
LEMMA TurnIs ==
    ASSUME NEW c \in Nat \ {0}, NEW h \in 0..c-1, NEW n \in 0..c
    PROVE  /\ Turn(h, n, c) = IF h + n < c THEN h + n ELSE h + n - c
           /\ Turn(h, n, c) \in 0..c-1
  <1>1. Turn(h, n, c) = IF h + n < c THEN h + n ELSE h + n - c
    BY DEF Turn
  <1>. QED
    BY <1>1

\* Two moves round a ring are one.
LEMMA MoveOn ==
    ASSUME NEW c \in Nat \ {0}, NEW h \in 0..c-1, NEW n \in Nat, NEW i \in Nat, n + i <= c
    PROVE  Turn(Turn(h, n, c), i, c) = Turn(h, n + i, c)
  <1>0. n \in 0..c /\ i \in 0..c /\ n + i \in 0..c
    OBVIOUS
  <1>1. /\ Turn(h, n, c) = IF h + n < c THEN h + n ELSE h + n - c
        /\ Turn(h, n, c) \in 0..c-1
    BY <1>0, TurnIs
  <1>2. PICK x \in 0..c-1 : x = Turn(h, n, c)
    BY <1>1
  <1>3. Turn(x, i, c) = IF x + i < c THEN x + i ELSE x + i - c
    BY <1>0, TurnIs
  <1>4. Turn(h, n + i, c) = IF h + (n + i) < c THEN h + (n + i) ELSE h + (n + i) - c
    BY Zenon, <1>0, TurnIs
  <1>5. Turn(x, i, c) = Turn(h, n + i, c)
    BY <1>1, <1>2, <1>3, <1>4
  <1>. QED
    BY <1>2, <1>5

\* Where PutBytes stores, seen from the tail.
Place(t, i) == (i - t + Capacity) % Capacity

LEMMA PlaceIs ==
    ASSUME NEW t \in 0..Capacity-1, NEW i \in 0..Capacity-1
    PROVE  /\ Place(t, i) = IF i < t THEN i - t + Capacity ELSE i - t
           /\ Place(t, i) \in 0..Capacity-1
  <1>0. Capacity \in Nat \ {0}
    BY FilesAssumption
  <1>1. PICK x \in Nat : x = i - t + Capacity
    BY <1>0
  <1>2. x % Capacity = IF x < Capacity THEN x ELSE x - Capacity
    BY <1>0, <1>1
  <1>3. Place(t, i) = x % Capacity
    BY <1>1 DEF Place
  <1>. QED
    BY <1>0, <1>1, <1>2, <1>3

\* The place of byte j, when m bytes are in the ring.
Distance(j, m) == IF j < m THEN j + Capacity - m ELSE j - m

LEMMA FromTail ==
    ASSUME NEW h \in 0..Capacity-1, NEW m \in 0..Capacity, NEW j \in 0..Capacity-1,
           NEW t, t = Turn(h, m, Capacity), NEW x, x = Turn(h, j, Capacity)
    PROVE  Place(t, x) = Distance(j, m) /\ x \in 0..Capacity-1
  <1>0. Capacity \in Nat \ {0} /\ j \in 0..Capacity
    BY FilesAssumption
  <1>1. x = (IF h + j < Capacity THEN h + j ELSE h + j - Capacity) /\ x \in 0..Capacity-1
    BY Zenon, <1>0, TurnIs
  <1>2. t = (IF h + m < Capacity THEN h + m ELSE h + m - Capacity) /\ t \in 0..Capacity-1
    BY Zenon, <1>0, TurnIs
  <1>3. Place(t, x) = IF x < t THEN x - t + Capacity ELSE x - t
    BY Zenon, <1>1, <1>2, PlaceIs
  <1>. QED
    BY <1>0, <1>1, <1>2, <1>3 DEF Distance

LEMMA RingFields ==
    ASSUME NEW r \in Ring
    PROVE  /\ r.head \in 0..Capacity-1 /\ r.tail \in 0..Capacity-1 /\ r.count \in 0..Capacity
           /\ r.sent \in 0..Wrap-1 /\ r.taken \in 0..Wrap-1
           /\ r.data \in [0..Capacity-1 -> 0..Wrap-1]
  BY DEF Ring

LEMMA RingCount == ASSUME NEW r \in Ring PROVE r.count \in Nat
  <1>1. r.count \in 0..Capacity
    BY Zenon, RingFields
  <1>. QED
    BY <1>1

LEMMA Sizes == Capacity \in Nat \ {0} /\ Wrap \in Nat \ {0} /\ Capacity < Wrap
  BY FilesAssumption

LEMMA TakeFields ==
    ASSUME NEW r \in Ring, NEW n, NEW s, s = TakeBytes(r, n)
    PROVE  /\ s = [data |-> r.data, head |-> Turn(r.head, n, Capacity), tail |-> r.tail,
                   count |-> r.count - n, sent |-> r.sent, taken |-> Turn(r.taken, n, Wrap)]
           /\ s.data = r.data /\ s.tail = r.tail /\ s.sent = r.sent
           /\ s.head = Turn(r.head, n, Capacity) /\ s.count = r.count - n
           /\ s.taken = Turn(r.taken, n, Wrap)
  BY Zenon DEF TakeBytes, Ring, Turn

LEMMA TakeInOrder ==
    ASSUME NEW r \in Ring, NEW n \in Nat, n <= r.count, NEW s, s = TakeBytes(r, n)
    PROVE  s \in Ring /\ (InOrder(r) => InOrder(s))
  <1>0. PICK h, t, m, k : h = r.head /\ t = r.tail /\ m = r.count /\ k = r.taken
    OBVIOUS
  <1>1. /\ h \in 0..Capacity-1 /\ t \in 0..Capacity-1 /\ m \in 0..Capacity
        /\ k \in 0..Wrap-1 /\ r.sent \in 0..Wrap-1
        /\ r.data \in [0..Capacity-1 -> 0..Wrap-1] /\ n <= m
    BY <1>0, RingFields
  <1>2. /\ s = [data |-> r.data, head |-> Turn(h, n, Capacity), tail |-> t,
                count |-> m - n, sent |-> r.sent, taken |-> Turn(k, n, Wrap)]
        /\ s.data = r.data /\ s.tail = t /\ s.sent = r.sent
        /\ s.head = Turn(h, n, Capacity) /\ s.count = m - n /\ s.taken = Turn(k, n, Wrap)
    BY <1>0, TakeFields
  <1>3. /\ m - n \in Nat /\ n + (m - n) = m /\ m <= Capacity /\ m <= Wrap
        /\ m - n \in 0..Capacity /\ n \in 0..Capacity /\ n \in 0..Wrap
    BY <1>1, Sizes
  <1>4. /\ Turn(Turn(h, n, Capacity), m - n, Capacity) = Turn(h, m, Capacity)
        /\ Turn(h, n, Capacity) \in 0..Capacity-1
    <2>1. Turn(h, n, Capacity) \in 0..Capacity-1
      BY Zenon, <1>1, <1>3, Sizes, TurnIs
    <2>2. Turn(Turn(h, n, Capacity), m - n, Capacity) = Turn(h, n + (m - n), Capacity)
      BY <1>1, <1>3, Sizes, MoveOn
    <2>. QED
      BY <1>3, <2>1, <2>2
  <1>5. /\ Turn(Turn(k, n, Wrap), m - n, Wrap) = Turn(k, m, Wrap)
        /\ Turn(k, n, Wrap) \in 0..Wrap-1
    <2>1. Turn(k, n, Wrap) \in 0..Wrap-1
      BY Zenon, <1>1, <1>3, Sizes, TurnIs
    <2>2. Turn(Turn(k, n, Wrap), m - n, Wrap) = Turn(k, n + (m - n), Wrap)
      BY <1>1, <1>3, Sizes, MoveOn
    <2>. QED
      BY <1>3, <2>1, <2>2
  <1>6. s \in Ring
    BY <1>1, <1>2, <1>3, <1>4, <1>5 DEF Ring
  <1>7. ASSUME InOrder(r) PROVE InOrder(s)
    <2>1. /\ t = Turn(h, m, Capacity) /\ r.sent = Turn(k, m, Wrap)
          /\ \A i \in 0..(m - 1) : r.data[Turn(h, i, Capacity)] = Turn(k, i, Wrap)
      BY <1>0, <1>7 DEF InOrder
    <2>2. ASSUME NEW i \in 0..(m - n - 1)
          PROVE  r.data[Turn(Turn(h, n, Capacity), i, Capacity)] = Turn(Turn(k, n, Wrap), i, Wrap)
      <3>1. i \in Nat /\ n + i \in 0..(m - 1) /\ n + i <= Capacity /\ n + i <= Wrap
        BY <1>1, Sizes
      <3>2. r.data[Turn(h, n + i, Capacity)] = Turn(k, n + i, Wrap)
        BY <2>1, <3>1
      <3>3. Turn(Turn(h, n, Capacity), i, Capacity) = Turn(h, n + i, Capacity)
        BY <1>1, <3>1, Sizes, MoveOn
      <3>4. Turn(Turn(k, n, Wrap), i, Wrap) = Turn(k, n + i, Wrap)
        BY <1>1, <3>1, Sizes, MoveOn
      <3>. QED
        BY <3>2, <3>3, <3>4
    <2>. QED
      BY Zenon, <1>2, <1>4, <1>5, <2>1, <2>2 DEF InOrder
  <1>. QED
    BY <1>6, <1>7

\* What PutBytes stores.
Stored(r, n) ==
    [i \in 0..Capacity-1 |->
       IF Place(r.tail, i) < n THEN Turn(r.sent, Place(r.tail, i), Wrap) ELSE r.data[i]]

LEMMA PutFields ==
    ASSUME NEW r \in Ring, NEW n, NEW s, s = PutBytes(r, n)
    PROVE  /\ s = [data |-> Stored(r, n), head |-> r.head, tail |-> Turn(r.tail, n, Capacity),
                   count |-> r.count + n, sent |-> Turn(r.sent, n, Wrap), taken |-> r.taken]
           /\ s.data = Stored(r, n) /\ s.head = r.head /\ s.taken = r.taken
           /\ s.tail = Turn(r.tail, n, Capacity) /\ s.count = r.count + n
           /\ s.sent = Turn(r.sent, n, Wrap)
  BY Zenon DEF PutBytes, Ring, Place, Stored, Turn

LEMMA PutInOrder ==
    ASSUME NEW r \in Ring, NEW n \in Nat, r.count + n <= Capacity, NEW s, s = PutBytes(r, n)
    PROVE  s \in Ring /\ (InOrder(r) => InOrder(s))
  <1>0. PICK h, t, m, k, z, d : /\ h = r.head /\ t = r.tail /\ m = r.count
                                /\ k = r.taken /\ z = r.sent /\ d = Stored(r, n)
    OBVIOUS
  <1>1. /\ h \in 0..Capacity-1 /\ t \in 0..Capacity-1 /\ m \in 0..Capacity
        /\ k \in 0..Wrap-1 /\ z \in 0..Wrap-1
        /\ r.data \in [0..Capacity-1 -> 0..Wrap-1] /\ m + n <= Capacity
    BY <1>0, RingFields
  <1>2. /\ s = [data |-> d, head |-> h, tail |-> Turn(t, n, Capacity),
                count |-> m + n, sent |-> Turn(z, n, Wrap), taken |-> k]
        /\ s.data = d /\ s.head = h /\ s.taken = k
        /\ s.tail = Turn(t, n, Capacity) /\ s.count = m + n /\ s.sent = Turn(z, n, Wrap)
    BY <1>0, PutFields
  <1>3. /\ d = [i \in 0..Capacity-1 |->
                  IF Place(t, i) < n THEN Turn(z, Place(t, i), Wrap) ELSE r.data[i]]
    BY <1>0 DEF Stored
  <1>4. ASSUME NEW i \in 0..Capacity-1 PROVE Place(t, i) \in 0..Capacity-1
    BY <1>1, PlaceIs
  <1>5. ASSUME NEW x \in 0..Capacity-1 PROVE Turn(z, x, Wrap) \in 0..Wrap-1
    <2>1. x \in 0..Wrap
      BY <1>1, Sizes
    <2>. QED
      BY Zenon, <1>1, <2>1, Sizes, TurnIs
  <1>6. d \in [0..Capacity-1 -> 0..Wrap-1]
    BY Zenon, <1>1, <1>3, <1>4, <1>5
  <1>7. s \in Ring
    <2>1. m + n \in 0..Capacity /\ n \in 0..Capacity /\ n \in 0..Wrap
      BY <1>1, Sizes
    <2>2. Turn(t, n, Capacity) \in 0..Capacity-1
      BY Zenon, <1>1, <2>1, Sizes, TurnIs
    <2>3. Turn(z, n, Wrap) \in 0..Wrap-1
      BY Zenon, <1>1, <2>1, Sizes, TurnIs
    <2>. QED
      BY <1>1, <1>2, <1>6, <2>1, <2>2, <2>3 DEF Ring
  <1>8. ASSUME InOrder(r) PROVE InOrder(s)
    <2>1. /\ t = Turn(h, m, Capacity) /\ z = Turn(k, m, Wrap)
          /\ \A i \in 0..(m - 1) : r.data[Turn(h, i, Capacity)] = Turn(k, i, Wrap)
      BY <1>0, <1>8 DEF InOrder
    <2>2. m \in Nat /\ m + n <= Capacity /\ m + n <= Wrap
      BY <1>1, Sizes
    <2>3. Turn(t, n, Capacity) = Turn(h, m + n, Capacity)
      BY <1>1, <2>1, <2>2, Sizes, MoveOn
    <2>4. Turn(z, n, Wrap) = Turn(k, m + n, Wrap)
      BY <1>1, <2>1, <2>2, Sizes, MoveOn
    <2>5. ASSUME NEW j \in 0..((m + n) - 1)
          PROVE  d[Turn(h, j, Capacity)] = Turn(k, j, Wrap)
      <3>0. j \in 0..Capacity-1 /\ j \in Nat /\ j < m + n
        BY <1>1, <2>2, Sizes
      <3>1. PICK x : x = Turn(h, j, Capacity)
        OBVIOUS
      <3>2. Place(t, x) = Distance(j, m) /\ x \in 0..Capacity-1
        <4>1. h \in 0..Capacity-1 /\ m \in 0..Capacity /\ t = Turn(h, m, Capacity)
          BY <1>1, <2>1
        <4>. QED
          BY <3>0, <3>1, <4>1, FromTail
      <3>3. d[x] = IF Place(t, x) < n THEN Turn(z, Place(t, x), Wrap) ELSE r.data[x]
        BY <1>3, <3>2
      <3>4. CASE j < m
        <4>1. ~(Place(t, x) < n) /\ j \in 0..(m - 1)
          BY <1>1, <3>0, <3>2, <3>4, Sizes DEF Distance
        <4>. QED
          BY <2>1, <3>1, <3>3, <4>1
      <3>5. CASE ~(j < m)
        <4>1. /\ Place(t, x) = j - m /\ j - m < n /\ j - m \in Nat
              /\ m + (j - m) = j /\ m + (j - m) <= Wrap
          BY <1>1, <3>0, <3>2, <3>5, Sizes DEF Distance
        <4>2. Turn(z, j - m, Wrap) = Turn(k, m + (j - m), Wrap)
          BY <1>1, <2>1, <2>2, <4>1, Sizes, MoveOn
        <4>. QED
          BY <3>1, <3>3, <4>1, <4>2
      <3>. QED
        BY <3>4, <3>5
    <2>. QED
      BY Zenon, <1>2, <2>3, <2>4, <2>5 DEF InOrder
  <1>. QED
    BY <1>7, <1>8

-----------------------------------------------------------------------------
(* pipe_read and pipe_write                                                *)

LEMMA SmallerIs ==
    ASSUME NEW a \in Nat, NEW b \in Nat
    PROVE  Smaller(a, b) \in Nat /\ Smaller(a, b) <= b
  BY DEF Smaller

\* Those who wait for q are woken; the others wait for a pipe that is left alone.
WithRing(q, s) == [pipe EXCEPT ![q] = s]

LEMMA WokenAt ==
    ASSUME IInv, NEW q \in Pipe, NEW s \in Ring,
           NEW ring, ring = WithRing(q, s), NEW w, w = Woken(waiting_lock, {q})
    PROVE  Undisturbed(ring, w)
  <1>0. pipe \in [Pipe -> Ring] /\ waiting_lock \in [Thread -> Pipe \cup {None}]
    BY RingTypes
  <1>1. ring \in [Pipe -> Ring] /\ \A x \in Pipe : x # q => ring[x] = pipe[x]
    BY <1>0 DEF WithRing
  <1>2. w = [u \in Thread |-> IF waiting_lock[u] = q THEN None ELSE waiting_lock[u]]
    BY DEF Woken
  <1>3. w \in [Thread -> Pipe \cup {None}]
    BY <1>0, <1>2
  <1>4. \A u \in Thread, x \in Pipe : w[u] = x => waiting_lock[u] = x /\ x # q
    BY <1>2, NoneIsNothing
  <1>. QED
    BY <1>1, <1>3, <1>4 DEF Undisturbed

LEMMA PipeReadStep ==
    ASSUME CountFacts, IInv, NEW t \in Thread, NEW q \in Pipe, PipeRead(t, q)
    PROVE  IInv'
  <1>0. PICK n, s : n = Smaller(len[t], pipe[q].count) /\ s = TakeBytes(pipe[q], n)
    OBVIOUS
  <1>1. pipe[q] \in Ring /\ len[t] \in Nat
    BY RingTypes, Parts, FilesAssumption DEF CallTypes
  <1>2. pipe[q].count \in Nat
    BY Zenon, <1>1, RingCount
  <1>3. n \in Nat /\ n <= pipe[q].count
    BY Zenon, <1>0, <1>1, <1>2, SmallerIs
  <1>4. s \in Ring
    BY Zenon, <1>0, <1>1, <1>3, TakeInOrder
  <1>5. PICK ring, w : ring = WithRing(q, s) /\ w = Woken(waiting_lock, {q})
    OBVIOUS
  <1>6. Loop(t, "read", q) /\ Returns(t, <<q, "read">>, ring, w)
    BY <1>0, <1>5 DEF PipeRead, WithRing
  <1>7. Undisturbed(ring, w)
    BY <1>4, <1>5, WokenAt
  <1>8. "read" \in End
    BY DEF End
  <1>. QED
    BY Zenon, <1>6, <1>7, <1>8, ReturnsStep

LEMMA PipeWriteStep ==
    ASSUME CountFacts, IInv, NEW t \in Thread, NEW q \in Pipe, PipeWrite(t, q)
    PROVE  IInv'
  <1>0. PICK n, s : n = Smaller(len[t], Capacity - pipe[q].count) /\ s = PutBytes(pipe[q], n)
    OBVIOUS
  <1>1. pipe[q] \in Ring /\ len[t] \in Nat
    BY RingTypes, Parts, FilesAssumption DEF CallTypes
  <1>2. pipe[q].count \in Nat /\ Capacity - pipe[q].count \in Nat
    BY <1>1, RingFields, Sizes
  <1>3. n \in Nat /\ pipe[q].count + n <= Capacity
    <2>1. n \in Nat /\ n <= Capacity - pipe[q].count
      BY Zenon, <1>0, <1>1, <1>2, SmallerIs
    <2>. QED
      BY <1>2, <2>1, Sizes
  <1>4. s \in Ring
    BY <1>0, <1>1, <1>3, PutInOrder
  <1>5. PICK ring, w : ring = WithRing(q, s) /\ w = Woken(waiting_lock, {q})
    OBVIOUS
  <1>6. Loop(t, "write", q) /\ Returns(t, <<q, "write">>, ring, w)
    BY <1>0, <1>5 DEF PipeWrite, WithRing
  <1>7. Undisturbed(ring, w)
    BY <1>4, <1>5, WokenAt
  <1>8. "write" \in End
    BY DEF End
  <1>. QED
    BY Zenon, <1>6, <1>7, <1>8, ReturnsStep

LEMMA PipeEndStep ==
    ASSUME CountFacts, IInv, NEW t \in Thread, NEW q \in Pipe,
           PipeReadEnd(t, q) \/ PipeWriteBroken(t, q)
    PROVE  IInv'
  <1>1. PICK e \in End : Loop(t, e, q) /\ Returns(t, <<q, e>>, pipe, waiting_lock)
    BY DEF PipeReadEnd, PipeWriteBroken, End
  <1>2. Undisturbed(pipe, waiting_lock)
    BY Zenon, RingTypes DEF Undisturbed
  <1>. QED
    BY Zenon, <1>1, <1>2, ReturnsStep

\* A step that leaves the objects alone, the counts and the sleepers too.
LEMMA BlocksStep ==
    ASSUME IInv, NEW t \in Thread, NEW q \in Pipe, NEW e \in End, Loop(t, e, q), Blocks(t, q),
           \/ e = "read" /\ pipe[q].count = 0 /\ writers[q] # 0
           \/ e = "write" /\ pipe[q].count = Capacity /\ readers[q] # 0
    PROVE  IInv'
  <1>0. /\ TaskTypes /\ CallTypes /\ CountTypes /\ PipeTypes
        /\ Quiet /\ Unused /\ Counted /\ Ends /\ Inodes /\ SleepJustified
    BY Parts
  <1>1. /\ calls' = calls /\ proc' = proc /\ parent' = parent
        /\ main_thread' = main_thread /\ used' = used /\ exit_requested' = exit_requested
        /\ pc' = pc /\ len' = len /\ held' = held /\ desc' = desc /\ lost' = lost
        /\ refs' = refs /\ readers' = readers /\ writers' = writers /\ opens' = opens
        /\ pipe' = pipe /\ cpu' = None
        /\ waiting_lock' = [waiting_lock EXCEPT ![t] = q]
    BY Zenon DEF Blocks, tasks, objects
  <1>2. TaskTypes' /\ CallTypes' /\ CountTypes'
    BY Zenon, <1>0, <1>1 DEF TaskTypes, CallTypes, CountTypes
  <1>3. /\ waiting_lock'[t] = q /\ \A u \in Thread \ {t} : waiting_lock'[u] = waiting_lock[u]
        /\ waiting_lock' \in [Thread -> Pipe \cup {None}]
    BY <1>0, <1>1 DEF PipeTypes
  <1>4. PipeTypes'
    BY <1>0, <1>1, <1>3 DEF PipeTypes
  <1>5. Quiet'
    BY <1>0, <1>1, <1>3 DEF Quiet, Loop
  <1>6. Unused' /\ Counted' /\ Ends' /\ Inodes'
    BY Zenon, <1>0, <1>1 DEF Unused, Counted, Ends, Inodes, InUse
  <1>7. SleepJustified'
    <2>1. readers[q] \in Nat /\ writers[q] \in Nat
      BY <1>0 DEF CountTypes
    <2>2. \/ held[t] = {<<q, "read">>} /\ pipe[q].count = 0 /\ writers[q] > 0
          \/ held[t] = {<<q, "write">>} /\ pipe[q].count = Capacity /\ readers[q] > 0
      BY <2>1 DEF Loop
    <2>. QED
      BY Zenon, <1>0, <1>1, <1>3, <2>2 DEF SleepJustified
  <1>. QED
    BY Zenon, <1>2, <1>4, <1>5, <1>6, <1>7, PartsNext

LEMMA LoopSteps ==
    ASSUME CountFacts, IInv, NEW t \in Thread, LoopStep(t)
    PROVE  IInv'
  <1>1. PICK q \in Pipe : \/ PipeRead(t, q) \/ PipeReadEnd(t, q) \/ PipeReadBlocks(t, q)
                          \/ PipeWrite(t, q) \/ PipeWriteBroken(t, q) \/ PipeWriteBlocks(t, q)
    BY DEF LoopStep
  <1>2. CASE PipeReadBlocks(t, q)
    BY <1>2, BlocksStep DEF PipeReadBlocks, End
  <1>3. CASE PipeWriteBlocks(t, q)
    BY <1>3, BlocksStep DEF PipeWriteBlocks, End
  <1>. QED
    BY <1>1, <1>2, <1>3, PipeReadStep, PipeWriteStep, PipeEndStep

=============================================================================
