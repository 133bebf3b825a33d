---------------------------- MODULE FilesProofs ----------------------------
(***************************************************************************)
(* Theorems about file objects and pipes (Files), for any number of        *)
(* threads, processes, descriptors, pipes and regular files, and any       *)
(* capacity: reference counts are exact, every sleep on a pipe is          *)
(* justified, and bytes come out in the order they went in.                *)
(*                                                                         *)
(* The invariant of FilesSteps is completed by Belongs: a thread inside a  *)
(* call belongs to a process, in whose table sys_pipe installs.            *)
(***************************************************************************)
EXTENDS FilesSteps, TLAPS


-----------------------------------------------------------------------------
(* Steps that make or install objects                                      *)

LEMMA OpenStep ==
    ASSUME CountFacts, IInv, NEW t \in Thread, Open(t)
    PROVE  IInv'
  <1>0. /\ TaskTypes /\ CallTypes /\ CountTypes /\ PipeTypes
        /\ Quiet /\ Unused /\ Counted /\ Ends /\ Inodes /\ SleepJustified
    BY Parts
  <1>1. PICK p : p = proc[t]
    OBVIOUS
  <1>2. PICK g \in Regular : /\ refs[g] = 0 /\ refs' = [refs EXCEPT ![g] = 1]
                             /\ desc' = [desc EXCEPT ![p] = Install(p, g)]
    BY Zenon, <1>1 DEF Open
  <1>3. /\ User(t) /\ FreeSlots(p) # {} /\ opens' = opens + 1
        /\ calls' = calls /\ proc' = proc /\ parent' = parent
        /\ main_thread' = main_thread /\ used' = used /\ exit_requested' = exit_requested
        /\ cpu' = cpu /\ pc' = pc /\ len' = len /\ held' = held
        /\ waiting_lock' = waiting_lock /\ readers' = readers /\ writers' = writers
        /\ pipe' = pipe /\ lost' = lost
    BY Zenon, <1>1 DEF Open, Calls, tasks
  <1>4. p \in Process /\ p \in used
    BY <1>1, <1>3, Caller
  <1>5. g \in File
    BY DEF File
  <1>6. /\ desc' \in Tables /\ \A x \in Process \ {p} : desc'[x] = desc[x]
        /\ \A f \in File : Uses(desc', f) = Uses(desc, f) + Same(f, g)
    BY Zenon, <1>2, <1>3, <1>4, <1>5, InstallOne
  <1>7. /\ refs' \in [File -> Nat] /\ refs'[g] = 1
        /\ \A f \in File : f # g => refs'[f] = refs[f]
    BY <1>0, <1>2, <1>5 DEF CountTypes
  <1>8. TaskTypes' /\ CallTypes' /\ PipeTypes'
    BY <1>0, <1>3, <1>6 DEF TaskTypes, CallTypes, PipeTypes
  <1>9. Quiet' /\ SleepJustified'
    BY Zenon, <1>0, <1>3 DEF Quiet, SleepJustified
  <1>10. Unused'
    BY Zenon, <1>0, <1>3, <1>4, <1>6 DEF Unused
  <1>11. Counted'
    <2>1. ASSUME NEW f \in File
          PROVE  refs'[f] = Uses(desc', f) + Held(held', f) + lost'[f]
      <3>1. refs[f] = Uses(desc, f) + Held(held, f) + lost[f]
        BY Zenon, <1>0 DEF Counted
      <3>2. Uses(desc, f) \in Nat /\ Held(held, f) \in Nat /\ lost[f] \in Nat
        BY SumTypes
      <3>3. /\ Held(held', f) = Held(held, f) /\ lost'[f] = lost[f]
            /\ Uses(desc', f) = Uses(desc, f) + Same(f, g)
        BY <1>3, <1>6
      <3>4. refs'[f] = refs[f] + Same(f, g)
        BY <1>2, <1>7, <1>0 DEF Same, CountTypes
      <3>5. Same(f, g) \in {0, 1}
        BY SameType
      <3>. QED
        BY SMTT(30), <3>1, <3>2, <3>3, <3>4, <3>5
    <2>. QED
      BY Zenon, <2>1 DEF Counted
  <1>12. Ends'
    BY Zenon, <1>0, <1>3, <1>7, EndsAreFiles DEF Ends
  <1>13. Inodes' /\ opens' \in Nat
    <2>1. \A f \in Regular \ {g} : refs'[f] = refs[f]
      BY <1>7 DEF File
    <2>2. Shift(Cardinality(InUse(refs)), Cardinality(InUse(refs')), 1, 0)
      <3>1. refs \in [File -> Nat] /\ refs'[g] > 0
        BY <1>0, <1>7 DEF CountTypes
      <3>2. InUseFacts
        BY DEF CountFacts
      <3>. QED
        BY Zenon, <1>2, <1>7, <2>1, <3>1, <3>2 DEF InUseFacts
    <2>3. opens = Cardinality(InUse(refs)) /\ opens \in Nat
      BY <1>0 DEF Inodes, CountTypes
    <2>. QED
      BY <1>3, <2>2, <2>3 DEF Inodes, InUse, Shift
  <1>14. CountTypes'
    BY <1>0, <1>3, <1>7, <1>13 DEF CountTypes
  <1>. QED
    BY <1>8, <1>9, <1>10, <1>11, <1>12, <1>13, <1>14, PartsNext

LEMMA PipeCreateStep ==
    ASSUME CountFacts, IInv, NEW t \in Thread, PipeCreate(t)
    PROVE  IInv'
  <1>0. /\ TaskTypes /\ CallTypes /\ CountTypes /\ PipeTypes
        /\ Quiet /\ Unused /\ Counted /\ Ends /\ Inodes /\ SleepJustified
    BY Parts
  <1>1. PICK q \in Pipe :
          /\ readers[q] = 0 /\ writers[q] = 0
          /\ readers' = [readers EXCEPT ![q] = 1]
          /\ writers' = [writers EXCEPT ![q] = 1]
          /\ refs' = [f \in File |-> IF f \in {q} \X End THEN 1 ELSE refs[f]]
          /\ held' = [held EXCEPT ![t] = {q} \X End]
    BY Zenon DEF PipeCreate
  <1>2. /\ User(t) /\ cpu' = t /\ pc' = [pc EXCEPT ![t] = "pipe"]
        /\ calls' = calls /\ proc' = proc /\ parent' = parent
        /\ main_thread' = main_thread /\ used' = used /\ exit_requested' = exit_requested
        /\ len' = len /\ waiting_lock' = waiting_lock /\ desc' = desc
        /\ opens' = opens /\ pipe' = pipe /\ lost' = lost
    BY DEF PipeCreate, Calls, tasks
  <1>3. PICK b \in SUBSET File : b = {q} \X End
    BY Zenon DEF File
  <1>4. b = {<<q, "read">>, <<q, "write">>}
    BY <1>3 DEF End
  <1>5. \A f \in b : refs[f] = 0 /\ f \notin Regular
    BY <1>0, <1>1, <1>4, EndsAreFiles DEF Ends
  <1>6. /\ \A f \in File : refs'[f] = IF f \in b THEN 1 ELSE refs[f]
        /\ refs' \in [File -> Nat]
    BY <1>0, <1>1, <1>3 DEF CountTypes
  <1>7. /\ readers' \in [Pipe -> Nat] /\ writers' \in [Pipe -> Nat]
        /\ readers'[q] = 1 /\ writers'[q] = 1
        /\ \A x \in Pipe : x # q => readers'[x] = readers[x] /\ writers'[x] = writers[x]
    BY <1>0, <1>1 DEF CountTypes
  <1>8. /\ held' \in Holdings /\ held'[t] = b
        /\ \A u \in Thread \ {t} : held'[u] = held[u]
    BY <1>0, <1>1, <1>3 DEF CallTypes, Holdings
  <1>9. /\ pc' \in [Thread -> {"user", "pipe"} \cup End] /\ pc'[t] = "pipe"
        /\ \A u \in Thread \ {t} : pc'[u] = pc[u]
    BY <1>0, <1>2 DEF CallTypes
  <1>10. TaskTypes' /\ CallTypes' /\ CountTypes' /\ PipeTypes'
    BY Zenon, <1>0, <1>2, <1>6, <1>7, <1>8, <1>9 DEF TaskTypes, CallTypes, CountTypes, PipeTypes
  <1>11. held[t] = {} /\ waiting_lock[t] = None
    BY Zenon, <1>2, Caller
  <1>12. Quiet'
    BY <1>0, <1>2, <1>8, <1>9, <1>11 DEF Quiet
  <1>13. Unused'
    BY Zenon, <1>0, <1>2 DEF Unused
  <1>14. Counted'
    <2>1. ASSUME NEW f \in File
          PROVE  refs'[f] = Uses(desc', f) + Held(held', f) + lost'[f]
      <3>1. refs[f] = Uses(desc, f) + Held(held, f) + lost[f]
        BY Zenon, <1>0 DEF Counted
      <3>2. Uses(desc, f) \in Nat /\ Held(held, f) \in Nat /\ lost[f] \in Nat
        BY SumTypes
      <3>3. Shift(Held(held, f), Held(held', f), In(f, held'[t]), In(f, held[t]))
        BY Zenon, <1>0, <1>8 DEF CountFacts, HeldFacts, CallTypes
      <3>4. In(f, held'[t]) \in {0, 1} /\ In(f, held[t]) = 0
        BY Zenon, <1>11 DEF In
      <3>5. Uses(desc', f) = Uses(desc, f) /\ lost'[f] = lost[f]
        BY <1>2
      <3>6. refs'[f] = refs[f] + In(f, held'[t])
        BY <1>0, <1>5, <1>6, <1>8 DEF In, CountTypes
      <3>7. Held(held', f) = Held(held, f) + In(f, held'[t])
        BY SMTT(30), <3>2, <3>3, <3>4 DEF Shift
      <3>. QED
        BY SMTT(30), <3>1, <3>2, <3>4, <3>5, <3>6, <3>7
    <2>. QED
      BY <2>1 DEF Counted
  <1>15. Ends'
    <2>1. ASSUME NEW x \in Pipe
          PROVE  readers'[x] = refs'[<<x, "read">>] /\ writers'[x] = refs'[<<x, "write">>]
      <3>1. <<x, "read">> \in File /\ <<x, "write">> \in File
        BY EndsAreFiles
      <3>2. readers[x] = refs[<<x, "read">>] /\ writers[x] = refs[<<x, "write">>]
        BY <1>0 DEF Ends
      <3>3. (<<x, "read">> \in b <=> x = q) /\ (<<x, "write">> \in b <=> x = q)
        BY <1>4
      <3>. QED
        BY <1>6, <1>7, <3>1, <3>2, <3>3
    <2>. QED
      BY Zenon, <2>1 DEF Ends
  <1>16. Inodes'
    <2>1. \A f \in Regular : refs'[f] = refs[f]
      BY <1>5, <1>6 DEF File
    <2>. QED
      BY Zenon, <1>0, <1>2, <2>1 DEF Inodes, InUse
  <1>17. SleepJustified'
    <2>1. ASSUME NEW u \in Thread, NEW x \in Pipe, waiting_lock'[u] = x
          PROVE  \/ held'[u] = {<<x, "read">>} /\ pipe'[x].count = 0 /\ writers'[x] > 0
                 \/ held'[u] = {<<x, "write">>} /\ pipe'[x].count = Capacity /\ readers'[x] > 0
      <3>1. waiting_lock[u] = x /\ u # t
        BY Zenon, <1>2, <1>11, <2>1, NoneIsNothing
      <3>2. \/ held[u] = {<<x, "read">>} /\ pipe[x].count = 0 /\ writers[x] > 0
            \/ held[u] = {<<x, "write">>} /\ pipe[x].count = Capacity /\ readers[x] > 0
        BY Zenon, <1>0, <3>1 DEF SleepJustified
      <3>3. (writers[x] > 0 => writers'[x] > 0) /\ (readers[x] > 0 => readers'[x] > 0)
        BY <1>7
      <3>. QED
        BY <1>2, <1>8, <3>1, <3>2, <3>3
    <2>. QED
      BY <2>1 DEF SleepJustified
  <1>. QED
    BY <1>10, <1>12, <1>13, <1>14, <1>15, <1>16, <1>17, PartsNext

LEMMA TwoSlots ==
    ASSUME CountFacts, NEW p, Cardinality(FreeSlots(p)) >= 2,
           NEW a, a = Lowest(FreeSlots(p)), NEW b, b = Lowest(FreeSlots(p) \ {a})
    PROVE  /\ a \in Fd /\ b \in Fd /\ a # b
           /\ desc[p][a] = None /\ desc[p][b] = None
  <1>1. SlotFacts
    BY DEF CountFacts
  <1>2. PICK S \in SUBSET Slot : S = FreeSlots(p)
    BY DEF FreeSlots
  <1>3. a \in S /\ S \ {a} # {} /\ S \ {a} \in SUBSET Slot
    BY <1>1, <1>2 DEF SlotFacts
  <1>4. b \in S \ {a}
    BY <1>1, <1>2, <1>3 DEF SlotFacts
  <1>. QED
    BY <1>2, <1>3, <1>4 DEF FreeSlots, Fd

LEMMA PipeInstallStep ==
    ASSUME CountFacts, IInv, NEW t \in Thread, PipeInstall(t), proc[t] # None
    PROVE  IInv'
  <1>0. /\ TaskTypes /\ CallTypes /\ CountTypes /\ PipeTypes
        /\ Quiet /\ Unused /\ Counted /\ Ends /\ Inodes /\ SleepJustified
    BY Parts
  <1>1. PICK p, a, b : /\ p = proc[t] /\ a = Lowest(FreeSlots(p))
                       /\ b = Lowest(FreeSlots(p) \ {a})
    BY Zenon
  <1>2. PICK q \in Pipe : /\ held[t] = {q} \X End
                          /\ desc' = [desc EXCEPT ![p][a] = <<q, "read">>,
                                                  ![p][b] = <<q, "write">>]
    BY Zenon, <1>1 DEF PipeInstall
  <1>3. /\ pc[t] = "pipe" /\ Cardinality(FreeSlots(p)) >= 2
        /\ calls' = calls /\ proc' = proc /\ parent' = parent
        /\ main_thread' = main_thread /\ used' = used /\ exit_requested' = exit_requested
        /\ len' = len /\ waiting_lock' = waiting_lock /\ refs' = refs /\ readers' = readers
        /\ writers' = writers /\ opens' = opens /\ pipe' = pipe /\ lost' = lost
        /\ held' = [held EXCEPT ![t] = {}] /\ cpu' = None /\ pc' = [pc EXCEPT ![t] = "user"]
    BY <1>1 DEF PipeInstall, tasks, objects
  <1>4. p \in Process /\ p \in used
    BY <1>0, <1>1 DEF TaskTypes, Unused
  <1>5. /\ a \in Fd /\ b \in Fd /\ a # b
        /\ desc[p][a] = None /\ desc[p][b] = None
    BY Zenon, <1>1, <1>3, TwoSlots
  <1>6. PICK v, w : v = <<q, "read">> /\ w = <<q, "write">>
    BY Zenon
  <1>7. v \in File /\ w \in File /\ v # w
    BY <1>6, EndsAreFiles
  <1>8. PICK es : es = SetAt(desc, p, a, v)
    OBVIOUS
  <1>9. WasSet(desc, es, p, a, v)
    BY Zenon, <1>4, <1>5, <1>7, <1>8, SetOne, DescTypes
  <1>10. es \in Tables /\ es[p] = [desc[p] EXCEPT ![a] = v]
         /\ \A x \in Process \ {p} : es[x] = desc[x]
    BY Zenon, <1>9 DEF WasSet
  <1>11. es[p][b] = None
    BY <1>4, <1>5, <1>10, DescTypes DEF Tables
  <1>12. desc' = SetAt(es, p, b, w)
    <2>1. desc' = [[desc EXCEPT ![p] = [desc[p] EXCEPT ![a] = v]]
                     EXCEPT ![p] = [[desc EXCEPT ![p] = [desc[p] EXCEPT ![a] = v]][p]
                                      EXCEPT ![b] = w]]
      BY <1>2, <1>6
    <2>. QED
      BY <1>8, <2>1 DEF SetAt
  <1>13. WasSet(es, desc', p, b, w)
    BY Zenon, <1>4, <1>5, <1>7, <1>10, <1>12, SetOne
  <1>14. desc' \in Tables /\ \A x \in Process \ {p} : desc'[x] = desc[x]
    BY Zenon, <1>10, <1>13 DEF WasSet
  <1>15. /\ held' \in Holdings /\ held'[t] = {}
         /\ \A u \in Thread \ {t} : held'[u] = held[u]
    BY <1>0, <1>3 DEF CallTypes, Holdings
  <1>16. /\ pc' \in [Thread -> {"user", "pipe"} \cup End] /\ pc'[t] = "user"
         /\ \A u \in Thread \ {t} : pc'[u] = pc[u]
    BY <1>0, <1>3 DEF CallTypes
  <1>17. TaskTypes' /\ CallTypes' /\ CountTypes' /\ PipeTypes'
    BY <1>0, <1>3, <1>14, <1>15, <1>16 DEF TaskTypes, CallTypes, CountTypes, PipeTypes
  <1>18. waiting_lock[t] = None
    BY Zenon, <1>0, <1>3 DEF Quiet, End
  <1>19. Quiet'
    BY Zenon, <1>0, <1>3, <1>15, <1>16, <1>18 DEF Quiet
  <1>20. Unused'
    BY Zenon, <1>0, <1>3, <1>4, <1>14 DEF Unused
  <1>21. Counted'
    <2>1. ASSUME NEW f \in File
          PROVE  refs'[f] = Uses(desc', f) + Held(held', f) + lost'[f]
      <3>1. refs[f] = Uses(desc, f) + Held(held, f) + lost[f]
        BY Zenon, <1>0 DEF Counted
      <3>2. Uses(desc, f) \in Nat /\ Held(held, f) \in Nat /\ lost[f] \in Nat
        BY SumTypes
      <3>3. Shift(Held(held, f), Held(held', f), In(f, held'[t]), In(f, held[t]))
        BY Zenon, <1>0, <1>15 DEF CountFacts, HeldFacts, CallTypes
      <3>4. Shift(Uses(desc, f), Uses(es, f), Same(f, v), Same(f, None))
        BY Zenon, <1>5, <1>9 DEF WasSet
      <3>5. Shift(Uses(es, f), Uses(desc', f), Same(f, w), Same(f, None))
        BY Zenon, <1>11, <1>13 DEF WasSet
      <3>6. Same(f, None) = 0 /\ Same(f, v) \in {0, 1} /\ Same(f, w) \in {0, 1}
        BY NoneIsNothing DEF Same
      <3>7. In(f, held'[t]) = 0 /\ In(f, held[t]) = Same(f, v) + Same(f, w)
        <4>1. held[t] = {v, w}
          BY <1>2, <1>6 DEF End
        <4>2. In(f, held'[t]) = 0
          BY Zenon, <1>15 DEF In
        <4>3. CASE f = v
          <5>1. f # w /\ f \in held[t]
            BY Zenon, <1>7, <4>1, <4>3
          <5>2. In(f, held[t]) = 1 /\ Same(f, v) = 1 /\ Same(f, w) = 0
            BY Zenon, <4>3, <5>1 DEF In, Same
          <5>. QED
            BY <4>2, <5>2
        <4>4. CASE f = w
          <5>1. f # v /\ f \in held[t]
            BY Zenon, <1>7, <4>1, <4>4
          <5>2. In(f, held[t]) = 1 /\ Same(f, v) = 0 /\ Same(f, w) = 1
            BY Zenon, <4>4, <5>1 DEF In, Same
          <5>. QED
            BY <4>2, <5>2
        <4>5. CASE f # v /\ f # w
          <5>1. In(f, held[t]) = 0 /\ Same(f, v) = 0 /\ Same(f, w) = 0
            BY Zenon, <4>1, <4>5 DEF In, Same
          <5>. QED
            BY <4>2, <5>1
        <4>. QED
          BY Zenon, <4>3, <4>4, <4>5
      <3>8. refs'[f] = refs[f] /\ lost'[f] = lost[f]
        BY <1>3
      <3>9. Uses(desc', f) = Uses(desc, f) + Same(f, v) + Same(f, w)
        BY SMTT(30), <3>2, <3>4, <3>5, <3>6 DEF Shift
      <3>10. Held(held', f) = Held(held, f) - (Same(f, v) + Same(f, w))
        BY SMTT(30), <3>2, <3>3, <3>6, <3>7 DEF Shift
      <3>. QED
        BY SMTT(30), <3>1, <3>2, <3>6, <3>8, <3>9, <3>10
    <2>. QED
      BY Zenon, <2>1 DEF Counted
  <1>22. Ends' /\ Inodes'
    BY Zenon, <1>0, <1>3 DEF Ends, Inodes, InUse
  <1>23. SleepJustified'
    <2>1. \A u \in Thread, x \in Pipe : waiting_lock'[u] = x => u # t /\ waiting_lock[u] = x
      BY Zenon, <1>3, <1>18, NoneIsNothing
    <2>. QED
      BY Zenon, <1>0, <1>3, <1>15, <2>1 DEF SleepJustified
  <1>. QED
    BY <1>17, <1>19, <1>20, <1>21, <1>22, <1>23, PartsNext

-----------------------------------------------------------------------------
(* Threads and processes                                                   *)

LEMMA ThreadCreateStep ==
    ASSUME IInv, NEW t \in Thread, NEW u \in Thread, ThreadCreate(t, u)
    PROVE  IInv'
  <1>0. /\ TaskTypes /\ CallTypes /\ CountTypes /\ PipeTypes
        /\ Quiet /\ Unused /\ Counted /\ Ends /\ Inodes /\ SleepJustified
    BY Parts
  <1>1. /\ User(t) /\ proc' = [proc EXCEPT ![u] = proc[t]]
        /\ calls' = calls /\ parent' = parent
        /\ main_thread' = main_thread /\ used' = used /\ exit_requested' = exit_requested
        /\ cpu' = cpu /\ pc' = pc /\ len' = len /\ held' = held /\ desc' = desc
        /\ waiting_lock' = waiting_lock /\ refs' = refs /\ readers' = readers
        /\ writers' = writers /\ opens' = opens /\ pipe' = pipe /\ lost' = lost
    BY DEF ThreadCreate, Calls, objects
  <1>2. proc[t] \in Process /\ proc[t] \in used
    BY <1>1, Caller
  <1>3. TaskTypes'
    BY <1>0, <1>1, <1>2 DEF TaskTypes
  <1>4. CallTypes' /\ CountTypes' /\ PipeTypes'
    BY <1>0, <1>1 DEF CallTypes, CountTypes, PipeTypes
  <1>5. Unused'
    <2>1. \A x \in Thread : proc'[x] = proc[x] \/ proc'[x] = proc[t]
      BY <1>0, <1>1 DEF TaskTypes
    <2>. QED
      BY <1>0, <1>1, <1>2, <2>1 DEF Unused
  <1>6. Quiet' /\ Counted' /\ Ends' /\ Inodes' /\ SleepJustified'
    BY <1>0, <1>1 DEF Quiet, Counted, Ends, Inodes, InUse, SleepJustified
  <1>. QED
    BY <1>3, <1>4, <1>5, <1>6, PartsNext

LEMMA KillStep ==
    ASSUME IInv, NEW p \in Process, Kill(p)
    PROVE  IInv'
  <1>0. /\ TaskTypes /\ CallTypes /\ CountTypes /\ PipeTypes
        /\ Quiet /\ Unused /\ Counted /\ Ends /\ Inodes /\ SleepJustified
    BY Parts
  <1>1. /\ exit_requested' = [exit_requested EXCEPT ![p] = TRUE]
        /\ waiting_lock' = [t \in Thread |-> IF proc[t] = p THEN None ELSE waiting_lock[t]]
        /\ calls' = calls /\ proc' = proc /\ parent' = parent
        /\ main_thread' = main_thread /\ used' = used
        /\ cpu' = cpu /\ pc' = pc /\ len' = len /\ held' = held /\ desc' = desc
        /\ refs' = refs /\ readers' = readers
        /\ writers' = writers /\ opens' = opens /\ pipe' = pipe /\ lost' = lost
    BY Zenon DEF Kill, objects
  <1>2. exit_requested' \in [Process -> BOOLEAN]
    BY <1>0, <1>1, Zenon DEF TaskTypes
  <1>3. TaskTypes'
    BY Zenon, <1>0, <1>1, <1>2 DEF TaskTypes
  <1>4. CallTypes' /\ CountTypes' /\ PipeTypes'
    BY <1>0, <1>1 DEF CallTypes, CountTypes, PipeTypes
  <1>5. Unused' /\ Counted' /\ Ends' /\ Inodes'
    BY Zenon, <1>0, <1>1 DEF Unused, Counted, Ends, Inodes, InUse
  <1>6. \A t \in Thread : waiting_lock'[t] = None \/ waiting_lock'[t] = waiting_lock[t]
    BY Zenon, <1>1
  <1>7. Quiet'
    BY Zenon, <1>0, <1>1, <1>6 DEF Quiet
  <1>8. SleepJustified'
    BY Zenon, <1>0, <1>1, <1>6, NoneIsNothing DEF SleepJustified
  <1>. QED
    BY <1>3, <1>4, <1>5, <1>7, <1>8, PartsNext

LEMMA ForkStep ==
    ASSUME CountFacts, IInv, NEW t \in Thread, NEW u \in Thread, NEW c \in Process, Fork(t, u, c)
    PROVE  IInv'
  <1>0. TaskTypes /\ CallTypes /\ CountTypes /\ PipeTypes /\ Quiet /\ Unused
    BY Parts
  <1>1. PICK p : p = proc[t]
    OBVIOUS
  <1>. DEFINE get == Table(p)
              give == Nothing
  <1>2. /\ User(t) /\ Exchange(get, give, pipe, waiting_lock) /\ c \notin used
        /\ desc' = [desc EXCEPT ![c] = desc[p]]
        /\ proc' = [proc EXCEPT ![u] = c] /\ used' = used \cup {c}
        /\ parent' = [parent EXCEPT ![c] = p]
        /\ main_thread' = [main_thread EXCEPT ![c] = u]
        /\ calls' = calls /\ exit_requested' = exit_requested
        /\ cpu' = cpu /\ pc' = pc /\ len' = len /\ held' = held /\ lost' = lost
    BY <1>1 DEF Fork, Calls, Retain
  <1>3. p \in Process /\ p \in used
    BY <1>1, <1>2, Caller
  <1>4. /\ get \in Amounts /\ \A f \in File : get[f] = InTable(desc, p, f)
        /\ give \in Amounts /\ \A f \in File : give[f] = 0
    BY <1>0, <1>3, TableAmounts, NothingAmount
  <1>. HIDE DEF get, give
  <1>5. /\ desc' \in Tables /\ desc'[c] = desc[p]
        /\ \A x \in Process \ {c} : desc'[x] = desc[x]
    BY <1>0, <1>2, <1>3 DEF CallTypes, Tables
  <1>6. TaskTypes'
    BY <1>0, <1>2, <1>3 DEF TaskTypes
  <1>7. CallTypes'
    BY <1>0, <1>2, <1>5 DEF CallTypes
  <1>8. Unused'
    <2>1. \A x \in Thread : proc'[x] = proc[x] \/ proc'[x] = c
      BY <1>0, <1>2 DEF TaskTypes
    <2>. QED
      BY <1>0, <1>2, <1>5, <2>1 DEF Unused
  <1>9. \A x \in Thread : pc'[x] = "user" => held'[x] = {}
    BY <1>0, <1>2 DEF Quiet
  <1>10. KeptAsleep(pipe, waiting_lock)
    BY <1>2 DEF KeptAsleep
  <1>11. Booked(get, give)
    <2>1. EmptyIn(desc', desc, c)
      BY <1>0, <1>2, <1>5 DEF EmptyIn, Unused
    <2>2. ASSUME NEW f \in File
          PROVE  Uses(desc', f) + Held(held', f) + lost'[f]
                   = Uses(desc, f) + Held(held, f) + lost[f] + get[f] - give[f]
      <3>1. Shift(Uses(desc, f), Uses(desc', f), InTable(desc', c, f), 0)
        <4>1. ClearFacts
          BY DEF CountFacts
        <4>. QED
          BY <1>5, <2>1, <4>1, DescTypes DEF ClearFacts
      <3>2. InTable(desc', c, f) = InTable(desc, p, f)
        BY <1>5 DEF InTable
      <3>3. Uses(desc, f) \in Nat /\ Held(held, f) \in Nat /\ lost[f] \in Nat
        BY SumTypes
      <3>4. get[f] \in Nat /\ get[f] = InTable(desc, p, f) /\ give[f] = 0
        BY <1>4 DEF Amounts
      <3>5. Held(held', f) = Held(held, f) /\ lost'[f] = lost[f]
        BY <1>2
      <3>6. Changes(Uses(desc', f), Held(held', f), lost'[f],
                   Uses(desc, f), Held(held, f), lost[f], get[f], give[f])
        BY Zenon, <3>1, <3>2, <3>3, <3>4, <3>5, FillSum
      <3>. QED
        BY Zenon, <3>6 DEF Changes
    <2>. QED
      BY <2>2 DEF Booked
  <1>12. \A f \in Regular : get[f] > 0 => refs[f] > 0
    BY <1>3, <1>4, Referenced DEF File
  <1>. QED
    BY <1>2, <1>4, <1>6, <1>7, <1>8, <1>9, <1>10, <1>11, <1>12, RingTypes, ExchangeStep

LEMMA ProcessExitStep ==
    ASSUME CountFacts, IInv, NEW t \in Thread, ProcessExit(t)
    PROVE  IInv'
  <1>0. TaskTypes /\ CallTypes /\ CountTypes /\ PipeTypes /\ Quiet /\ Unused
    BY Parts
  <1>1. PICK p, gone : p = proc[t] /\ gone = Threads(p)
    OBVIOUS
  <1>2. PICK woken : woken = gone \cup {u \in Thread : parent[p] # None /\ u = main_thread[parent[p]]}
    BY Zenon
  <1>3. PICK w : w = [u \in Thread |-> IF u \in woken THEN None ELSE waiting_lock[u]]
    BY Zenon
  <1>. DEFINE get == Nothing
              give == Table(p)
  <1>4. /\ User(t) /\ Exchange(get, give, pipe, w)
        /\ lost' = [f \in File |-> lost[f] + Cardinality({u \in gone : f \in held[u]})]
        /\ held' = [u \in Thread |-> IF u \in gone THEN {} ELSE held[u]]
        /\ len' = [u \in Thread |-> IF u \in gone THEN 0 ELSE len[u]]
        /\ pc' = [u \in Thread |-> IF u \in gone THEN "user" ELSE pc[u]]
        /\ proc' = [u \in Thread |-> IF u \in gone THEN None ELSE proc[u]]
        /\ desc' = [desc EXCEPT ![p] = [d \in Fd |-> None]]
        /\ parent' = [c \in Process |-> IF c = p \/ parent[c] = p THEN None ELSE parent[c]]
        /\ main_thread' = [main_thread EXCEPT ![p] = None]
        /\ calls' = calls /\ used' = used /\ exit_requested' = exit_requested /\ cpu' = cpu
    BY Zenon, <1>1, <1>2, <1>3 DEF ProcessExit
  <1>5. p \in Process /\ gone \in SUBSET Thread /\ gone \subseteq woken
    BY Zenon, <1>1, <1>2, <1>4, Caller DEF Threads
  <1>6. /\ give \in Amounts /\ \A f \in File : give[f] = InTable(desc, p, f)
        /\ get \in Amounts /\ \A f \in File : get[f] = 0
    BY <1>0, <1>5, TableAmounts, NothingAmount
  <1>. HIDE DEF get, give
  <1>7. /\ desc' \in Tables /\ \A d \in Fd : desc'[p][d] = None
        /\ \A x \in Process \ {p} : desc'[x] = desc[x]
    BY Zenon, <1>0, <1>4, <1>5 DEF CallTypes, Tables
  <1>8. TaskTypes'
    BY Zenon, <1>0, <1>4 DEF TaskTypes
  <1>9. held' \in Holdings /\ held' = Without(held, gone)
    BY Zenon, <1>0, <1>4 DEF CallTypes, Holdings, Without
  <1>10. \A f \in File : lost'[f] = lost[f] + Among(held, gone, f)
    BY Zenon, <1>4 DEF Among
  <1>11. \A f \in File : /\ Among(held, gone, f) \in Nat
                         /\ Shift(Held(held, f), Held(held', f), 0, Among(held, gone, f))
    BY Zenon, <1>5, <1>9, DescTypes DEF CountFacts, HeldFacts
  <1>12. lost' \in [File -> Nat]
    <2>1. \A a, b \in Nat : a + b \in Nat
      OBVIOUS
    <2>2. \A f \in File : lost'[f] \in Nat
      BY Zenon, <1>10, <1>11, <2>1, SumTypes
    <2>3. lost' = [f \in File |-> lost'[f]]
      BY Zenon, <1>4
    <2>. QED
      BY Zenon, <2>2, <2>3
  <1>13. CallTypes'
    <2>1. len' \in [Thread -> 0..MaxLength] /\ pc' \in [Thread -> {"user", "pipe"} \cup End]
      <3>1. 0 \in 0..MaxLength
        BY FilesAssumption
      <3>. QED
        BY Zenon, <1>0, <1>4, <3>1 DEF CallTypes
    <2>. QED
      BY Zenon, <1>0, <1>4, <1>7, <1>9, <1>12, <2>1 DEF CallTypes
  <1>14. Unused'
    <2>1. \A x \in Thread : proc'[x] = None \/ proc'[x] = proc[x]
      BY Zenon, <1>4
    <2>2. used' = used /\ Unused
      BY Zenon, <1>0, <1>4
    <2>3. \A x \in Process \ used' : \A d \in Fd : desc'[x][d] = None
      BY Zenon, <1>7, <2>2 DEF Unused
    <2>4. \A x \in Thread : proc'[x] # None => proc'[x] \in used'
      BY Zenon, <2>1, <2>2 DEF Unused
    <2>. QED
      BY Zenon, <2>3, <2>4 DEF Unused
  <1>15. \A x \in Thread : pc'[x] = "user" => held'[x] = {}
    BY Zenon, <1>0, <1>4 DEF Quiet
  <1>16. KeptAsleep(pipe, w)
    <2>1. ASSUME NEW x \in Thread, NEW q \in Pipe, w[x] = q
          PROVE  waiting_lock[x] = q /\ x \notin gone
      BY <1>3, <1>5, <2>1, NoneIsNothing
    <2>. QED
      BY Zenon, <1>4, <2>1 DEF KeptAsleep
  <1>17. Booked(get, give)
    <2>1. EmptyIn(desc, desc', p)
      BY <1>7 DEF EmptyIn
    <2>2. ASSUME NEW f \in File
          PROVE  Uses(desc', f) + Held(held', f) + lost'[f]
                   = Uses(desc, f) + Held(held, f) + lost[f] + get[f] - give[f]
      <3>1. Shift(Uses(desc', f), Uses(desc, f), InTable(desc, p, f), 0)
        <4>1. ClearFacts
          BY DEF CountFacts
        <4>. QED
          BY <1>5, <1>7, <2>1, <4>1, DescTypes DEF ClearFacts
      <3>2. Uses(desc, f) \in Nat /\ Held(held, f) \in Nat /\ lost[f] \in Nat
        BY SumTypes
      <3>3. Uses(desc', f) \in Nat
        BY <1>7 DEF CountFacts, UseFacts
      <3>4. give[f] \in Nat /\ give[f] = InTable(desc, p, f) /\ get[f] = 0
        BY <1>6 DEF Amounts
      <3>5. /\ Among(held, gone, f) \in Nat /\ lost'[f] = lost[f] + Among(held, gone, f)
            /\ Shift(Held(held, f), Held(held', f), 0, Among(held, gone, f))
        BY Zenon, <1>10, <1>11
      <3>6. Changes(Uses(desc', f), Held(held', f), lost'[f],
                   Uses(desc, f), Held(held, f), lost[f], get[f], give[f])
        BY Zenon, <3>1, <3>2, <3>3, <3>4, <3>5, DropSum
      <3>. QED
        BY Zenon, <3>6 DEF Changes
    <2>. QED
      BY <2>2 DEF Booked
  <1>18. \A f \in Regular : get[f] > 0 => refs[f] > 0
    BY <1>6 DEF File
  <1>19. w \in [Thread -> Pipe \cup {None}]
    BY <1>3, RingTypes
  <1>. QED
    BY Zenon, <1>4, <1>6, <1>8, <1>13, <1>14, <1>15, <1>16, <1>17, <1>18, <1>19, RingTypes, ExchangeStep

-----------------------------------------------------------------------------
(* The bytes                                                               *)

LEMMA EmptyInOrder == InOrder(EmptyPipe)
  <1>1. Capacity \in Nat \ {0} /\ Wrap \in Nat \ {0} /\ 0 \in 0..Capacity-1 /\ 0 \in 0..Wrap-1
        /\ 0 \in 0..Capacity /\ 0 \in 0..Wrap
    BY Sizes
  <1>2. Turn(0, 0, Capacity) = 0 /\ Turn(0, 0, Wrap) = 0
    BY <1>1, TurnIs
  <1>3. 0..(0 - 1) = {}
    OBVIOUS
  <1>4. EmptyPipe.tail = 0 /\ EmptyPipe.head = 0 /\ EmptyPipe.count = 0
        /\ EmptyPipe.sent = 0 /\ EmptyPipe.taken = 0
    BY DEF EmptyPipe
  <1>. QED
    BY <1>2, <1>3, <1>4 DEF InOrder

\* An exchange leaves the bytes as ring has them, or clears the pipe.
LEMMA ExchangeBytes ==
    ASSUME NEW get, NEW give, NEW ring, NEW w, Exchange(get, give, ring, w),
           \A q \in Pipe : InOrder(ring[q])
    PROVE  BytesInOrder'
  <1>1. \A q \in Pipe : pipe'[q] = EmptyPipe \/ pipe'[q] = ring[q]
    BY Zenon DEF Exchange
  <1>2. \A q \in Pipe : InOrder(pipe'[q])
    BY Zenon, <1>1, EmptyInOrder
  <1>. QED
    BY Zenon, <1>2 DEF BytesInOrder, InOrder, Turn

\* One ring changes.
LEMMA OneRing ==
    ASSUME IInv, BytesInOrder, NEW q \in Pipe, NEW s, InOrder(s), NEW ring, ring = WithRing(q, s)
    PROVE  \A x \in Pipe : InOrder(ring[x])
  <1>1. \A x \in Pipe : ring[x] = IF x = q THEN s ELSE pipe[x]
    BY RingTypes DEF WithRing
  <1>. QED
    BY <1>1, BytesAre

LEMMA BytesStep ==
    ASSUME IInv, BytesInOrder, [Next]_vars
    PROVE  BytesInOrder'
  <1>0. \A q \in Pipe : InOrder(pipe[q])
    BY BytesAre
  <1>1. ASSUME NEW get, NEW give, NEW w, Exchange(get, give, pipe, w) PROVE BytesInOrder'
    BY <1>0, <1>1, ExchangeBytes
  <1>2. ASSUME UNCHANGED pipe PROVE BytesInOrder'
    BY <1>2 DEF BytesInOrder
  <1>3. ASSUME NEW t \in Thread, NEW q \in Pipe, PipeRead(t, q) PROVE BytesInOrder'
    <2>0. PICK n, s : n = Smaller(len[t], pipe[q].count) /\ s = TakeBytes(pipe[q], n)
      OBVIOUS
    <2>1. pipe[q] \in Ring /\ len[t] \in Nat
      BY RingTypes, Parts, FilesAssumption DEF CallTypes
    <2>2. pipe[q].count \in Nat
      BY <2>1, RingFields
    <2>3. n \in Nat /\ n <= pipe[q].count
      BY Zenon, <2>0, <2>1, <2>2, SmallerIs
    <2>4. InOrder(s)
      BY <1>0, <2>0, <2>1, <2>3, TakeInOrder
    <2>5. PICK ring, w : ring = WithRing(q, s) /\ w = Woken(waiting_lock, {q})
      OBVIOUS
    <2>6. Exchange(Nothing, Each({<<q, "read">>}), ring, w)
      BY <1>3, <2>0, <2>5 DEF PipeRead, WithRing, Returns
    <2>7. \A x \in Pipe : InOrder(ring[x])
      BY <2>4, <2>5, OneRing
    <2>. QED
      BY <2>6, <2>7, ExchangeBytes
  <1>4. ASSUME NEW t \in Thread, NEW q \in Pipe, PipeWrite(t, q) PROVE BytesInOrder'
    <2>0. PICK n, s : n = Smaller(len[t], Capacity - pipe[q].count) /\ s = PutBytes(pipe[q], n)
      OBVIOUS
    <2>1. pipe[q] \in Ring /\ len[t] \in Nat
      BY RingTypes, Parts, FilesAssumption DEF CallTypes
    <2>2. pipe[q].count \in Nat /\ Capacity - pipe[q].count \in Nat
      BY <2>1, RingFields, Sizes
    <2>3. n \in Nat /\ n <= Capacity - pipe[q].count
      BY Zenon, <2>0, <2>1, <2>2, SmallerIs
    <2>4. pipe[q].count + n <= Capacity
      BY <2>2, <2>3, Sizes
    <2>5. InOrder(s)
      BY <1>0, <2>0, <2>1, <2>3, <2>4, PutInOrder
    <2>6. PICK ring, w : ring = WithRing(q, s) /\ w = Woken(waiting_lock, {q})
      OBVIOUS
    <2>7. Exchange(Nothing, Each({<<q, "write">>}), ring, w)
      BY <1>4, <2>0, <2>6 DEF PipeWrite, WithRing, Returns
    <2>8. \A x \in Pipe : InOrder(ring[x])
      BY <2>5, <2>6, OneRing
    <2>. QED
      BY <2>7, <2>8, ExchangeBytes
  <1>5. ASSUME NEW t \in Thread, LoopStep(t) PROVE BytesInOrder'
    <2>1. PICK q \in Pipe : \/ PipeRead(t, q) \/ PipeReadEnd(t, q) \/ PipeReadBlocks(t, q)
                            \/ PipeWrite(t, q) \/ PipeWriteBroken(t, q) \/ PipeWriteBlocks(t, q)
      BY <1>5 DEF LoopStep
    <2>2. CASE PipeReadBlocks(t, q) \/ PipeWriteBlocks(t, q)
      BY <1>2, <2>2 DEF PipeReadBlocks, PipeWriteBlocks, Blocks
    <2>3. CASE PipeReadEnd(t, q)
      BY Zenon, <1>1, <2>3 DEF PipeReadEnd, Returns
    <2>4. CASE PipeWriteBroken(t, q)
      BY <1>1, <2>4 DEF PipeWriteBroken, Returns
    <2>. QED
      BY <1>3, <1>4, <2>1, <2>2, <2>3, <2>4
  <1>6. ASSUME NEW t \in Thread, Open(t) \/ PipeCreate(t) \/ PipeInstall(t)
        PROVE  BytesInOrder'
    BY Zenon, <1>2, <1>6 DEF Open, PipeCreate, PipeInstall
  <1>7. ASSUME NEW t \in Thread, PipeFails(t) \/ ForkFails(t) PROVE BytesInOrder'
    BY Zenon, <1>1, <1>7 DEF PipeFails, ForkFails, Release
  <1>8. ASSUME NEW t \in Thread, ProcessExit(t) PROVE BytesInOrder'
    BY Zenon, <1>1, <1>8 DEF ProcessExit
  <1>9. ASSUME NEW t \in Thread, NEW d \in Fd,
               Close(t, d) \/ Dup(t, d) \/ Touch(t, d) \/ ReadNoMemory(t, d)
        PROVE  BytesInOrder'
    BY <1>1, <1>9 DEF Close, Dup, Touch, ReadNoMemory, Release, Retain
  <1>10. ASSUME NEW t \in Thread, NEW d \in Fd, NEW e \in Fd, Dup2(t, d, e) PROVE BytesInOrder'
    BY <1>1, <1>10 DEF Dup2
  <1>11. ASSUME NEW t \in Thread, NEW d \in Fd, NEW n \in Lengths, ReadWriteCall(t, d, n)
         PROVE  BytesInOrder'
    BY <1>1, <1>11 DEF ReadWriteCall, Retain
  <1>12. ASSUME NEW t \in Thread, NEW u \in Thread, NEW c \in Process, Fork(t, u, c)
         PROVE  BytesInOrder'
    BY <1>1, <1>12 DEF Fork, Retain
  <1>13. ASSUME NEW t \in Thread, NEW u \in Thread, ThreadCreate(t, u) PROVE BytesInOrder'
    BY <1>2, <1>13 DEF ThreadCreate
  <1>14. ASSUME NEW p \in Process, Kill(p) PROVE BytesInOrder'
    BY Zenon, <1>2, <1>14 DEF Kill
  <1>15. CASE UNCHANGED vars
    BY <1>2, <1>15 DEF vars
  <1>. QED
    BY <1>5, <1>6, <1>7, <1>8, <1>9, <1>10, <1>11, <1>12, <1>13, <1>14, <1>15 DEF Next, PipeEnds

-----------------------------------------------------------------------------
(* Who is inside a call belongs to a process                               *)

Belongs == \A t \in Thread : pc[t] # "user" => proc[t] # None

LEMMA BelongsStep ==
    ASSUME IInv, Belongs, [Next]_vars
    PROVE  Belongs'
  <1>0. TaskTypes /\ CallTypes
    BY Parts
  <1>1. ASSUME proc' = proc, NEW t \in Thread, NEW s, pc' = [pc EXCEPT ![t] = s],
               s = "user" \/ proc[t] # None
        PROVE  Belongs'
    BY <1>0, <1>1 DEF Belongs, CallTypes
  <1>2. ASSUME pc' = pc, NEW u \in Thread, NEW p \in Process, proc' = [proc EXCEPT ![u] = p]
        PROVE  Belongs'
    BY <1>0, <1>2, NoneIsNothing DEF Belongs, TaskTypes
  <1>3. ASSUME UNCHANGED <<proc, pc>> PROVE Belongs'
    BY <1>3 DEF Belongs
  <1>4. ASSUME NEW t \in Thread, LoopStep(t) PROVE Belongs'
    <2>1. PICK q \in Pipe : \/ PipeRead(t, q) \/ PipeReadEnd(t, q) \/ PipeReadBlocks(t, q)
                            \/ PipeWrite(t, q) \/ PipeWriteBroken(t, q) \/ PipeWriteBlocks(t, q)
      BY <1>4 DEF LoopStep
    <2>2. CASE PipeReadBlocks(t, q) \/ PipeWriteBlocks(t, q)
      BY <1>3, <2>2 DEF PipeReadBlocks, PipeWriteBlocks, Blocks, tasks
    <2>3. CASE PipeRead(t, q) \/ PipeWrite(t, q) \/ PipeReadEnd(t, q) \/ PipeWriteBroken(t, q)
      <3>1. proc' = proc /\ pc' = [pc EXCEPT ![t] = "user"]
        BY Zenon, <2>3 DEF PipeRead, PipeWrite, PipeReadEnd, PipeWriteBroken, Returns, tasks
      <3>. QED
        BY Zenon, <1>1, <3>1
    <2>. QED
      BY <2>1, <2>2, <2>3
  <1>5. ASSUME NEW t \in Thread, Open(t) \/ ForkFails(t) PROVE Belongs'
    BY <1>3, <1>5 DEF Open, ForkFails, tasks
  <1>6. ASSUME NEW t \in Thread, PipeCreate(t) PROVE Belongs'
    BY Zenon, <1>1, <1>6 DEF PipeCreate, Calls, User, tasks
  <1>7. ASSUME NEW t \in Thread, PipeEnds(t) PROVE Belongs'
    BY <1>1, <1>7 DEF PipeEnds, PipeInstall, PipeFails, tasks
  <1>8. ASSUME NEW t \in Thread, ProcessExit(t) PROVE Belongs'
    BY Zenon, <1>0, <1>8 DEF ProcessExit, Belongs
  <1>9. ASSUME NEW t \in Thread, NEW d \in Fd,
               Close(t, d) \/ Dup(t, d) \/ Touch(t, d) \/ ReadNoMemory(t, d)
        PROVE  Belongs'
    BY <1>3, <1>9 DEF Close, Dup, Touch, ReadNoMemory, tasks
  <1>10. ASSUME NEW t \in Thread, NEW d \in Fd, NEW e \in Fd, Dup2(t, d, e) PROVE Belongs'
    BY <1>3, <1>10 DEF Dup2, tasks
  <1>11. ASSUME NEW t \in Thread, NEW d \in Fd, NEW n \in Lengths, ReadWriteCall(t, d, n)
         PROVE  Belongs'
    BY Zenon, <1>1, <1>11 DEF ReadWriteCall, Calls, User, tasks
  <1>12. ASSUME NEW t \in Thread, NEW u \in Thread, ThreadCreate(t, u) PROVE Belongs'
    <2>1. User(t) /\ pc' = pc /\ proc' = [proc EXCEPT ![u] = proc[t]]
      BY <1>12 DEF ThreadCreate, Calls
    <2>. QED
      BY Zenon, <1>2, <2>1, Caller
  <1>13. ASSUME NEW t \in Thread, NEW u \in Thread, NEW c \in Process, Fork(t, u, c)
         PROVE  Belongs'
    BY Zenon, <1>2, <1>13 DEF Fork
  <1>14. ASSUME NEW p \in Process, Kill(p) PROVE Belongs'
    BY <1>3, <1>14 DEF Kill
  <1>15. CASE UNCHANGED vars
    BY <1>3, <1>15 DEF vars, tasks
  <1>. QED
    BY <1>4, <1>5, <1>6, <1>7, <1>8, <1>9, <1>10, <1>11, <1>12, <1>13, <1>14, <1>15 DEF Next

-----------------------------------------------------------------------------
(* The facts about counting                                                *)

INSTANCE FiniteSetTheorems
INSTANCE WellFoundedInduction

\* Two sets that agree except on x.
LEMMA DifferByOne ==
    ASSUME NEW U, IsFiniteSet(U), NEW A \in SUBSET U, NEW B \in SUBSET U, NEW x,
           A \ {x} = B \ {x}
    PROVE  Shift(Cardinality(A), Cardinality(B), In(x, B), In(x, A))
  <1>1. IsFiniteSet(A) /\ IsFiniteSet(B)
    BY FS_Subset
  <1>2. Cardinality(A) \in Nat /\ Cardinality(B) \in Nat
    BY <1>1, FS_CardinalityType
  <1>3. Cardinality(A \ {x}) = IF x \in A THEN Cardinality(A) - 1 ELSE Cardinality(A)
    BY Zenon, <1>1, FS_RemoveElement
  <1>4. Cardinality(B \ {x}) = IF x \in B THEN Cardinality(B) - 1 ELSE Cardinality(B)
    BY <1>1, FS_RemoveElement
  <1>. QED
    BY <1>2, <1>3, <1>4 DEF In, Shift

\* A set and a part of it.
LEMMA SplitsOff ==
    ASSUME NEW A, IsFiniteSet(A), NEW B, NEW C, A = B \cup C, B \cap C = {}
    PROVE  /\ Cardinality(A) \in Nat /\ Cardinality(B) \in Nat /\ Cardinality(C) \in Nat
           /\ Shift(Cardinality(B), Cardinality(A), Cardinality(C), 0)
  <1>1. IsFiniteSet(B) /\ IsFiniteSet(C)
    BY FS_Subset
  <1>2. Cardinality(A) \in Nat /\ Cardinality(B) \in Nat /\ Cardinality(C) \in Nat
    BY <1>1, FS_CardinalityType
  <1>3. Cardinality(A) = Cardinality(B) + Cardinality(C) - Cardinality(B \cap C)
    BY <1>1, FS_Union
  <1>4. Cardinality(B \cap C) = 0
    BY FS_EmptySet
  <1>. QED
    BY <1>2, <1>3, <1>4 DEF Shift

Places(ds, f) == {x \in Process \X Fd : ds[x[1]][x[2]] = f}

LEMMA PlacesFinite ==
    ASSUME NEW ds, NEW f
    PROVE  /\ IsFiniteSet(Process \X Fd) /\ Places(ds, f) \in SUBSET (Process \X Fd)
           /\ IsFiniteSet(Places(ds, f)) /\ Uses(ds, f) = Cardinality(Places(ds, f))
           /\ Uses(ds, f) \in Nat
  <1>1. IsFiniteSet(Process \X Fd)
    BY FilesAssumption, FS_Product
  <1>2. Places(ds, f) \in SUBSET (Process \X Fd)
    BY DEF Places
  <1>3. IsFiniteSet(Places(ds, f))
    BY <1>1, <1>2, FS_Subset
  <1>4. Uses(ds, f) = Cardinality(Places(ds, f))
    BY DEF Uses, Places
  <1>. QED
    BY <1>1, <1>2, <1>3, <1>4, FS_CardinalityType

\* The descriptors of p that refer to f, as places.
LEMMA TablePlaces ==
    ASSUME NEW ds, NEW f, NEW p \in Process
    PROVE  LET C == {p} \X {d \in Fd : ds[p][d] = f}
           IN  /\ C \subseteq Places(ds, f) /\ Cardinality(C) = InTable(ds, p, f)
               /\ InTable(ds, p, f) \in Nat
  <1>. DEFINE D == {d \in Fd : ds[p][d] = f}
  <1>1. IsFiniteSet(D)
    BY FilesAssumption, FS_Subset
  <1>2. InTable(ds, p, f) = Cardinality(D) /\ Cardinality(D) \in Nat
    BY <1>1, FS_CardinalityType DEF InTable
  <1>3. {p} \X D \subseteq Places(ds, f)
    BY DEF Places
  <1>. HIDE DEF D
  <1>4. IsFiniteSet({p}) /\ Cardinality({p}) = 1
    BY FS_Singleton
  <1>5. Cardinality({p} \X D) = 1 * Cardinality(D)
    BY <1>1, <1>4, FS_Product
  <1>6. Cardinality({p} \X D) = Cardinality(D)
    BY <1>2, <1>5
  <1>. QED
    BY <1>2, <1>3, <1>6 DEF D

LEMMA UseFactsHold == UseFacts
  <1>1. ASSUME NEW ds \in Tables, NEW f \in File, NEW p \in Process
        PROVE  InTable(ds, p, f) \in Nat /\ InTable(ds, p, f) <= Uses(ds, f)
    <2>1. PICK C : C = {p} \X {d \in Fd : ds[p][d] = f}
      BY Zenon
    <2>2. C \subseteq Places(ds, f) /\ Cardinality(C) = InTable(ds, p, f)
          /\ InTable(ds, p, f) \in Nat
      BY <2>1, TablePlaces
    <2>3. Cardinality(C) <= Cardinality(Places(ds, f))
      BY <2>2, PlacesFinite, FS_Subset
    <2>. QED
      BY <2>2, <2>3, PlacesFinite
  <1>2. ASSUME NEW ds \in Tables, NEW f \in File, NEW p \in Process, NEW d \in Fd, ds[p][d] = f
        PROVE  Uses(ds, f) > 0
    <2>1. <<p, d>> \in Places(ds, f)
      BY <1>2 DEF Places
    <2>2. Cardinality(Places(ds, f)) # 0
      BY <2>1, PlacesFinite, FS_EmptySet
    <2>. QED
      BY <2>2, PlacesFinite
  <1>. QED
    BY Zenon, <1>1, <1>2, PlacesFinite DEF UseFacts

LEMMA SetFactsHold == SetFacts
  <1>1. ASSUME NEW ds \in Tables, NEW es \in Tables, NEW f \in File,
               NEW p \in Process, NEW d \in Fd, DiffersAt(ds, es, p, d)
        PROVE  Shift(Uses(ds, f), Uses(es, f), Same(f, es[p][d]), Same(f, ds[p][d]))
    <2>1. Places(ds, f) \ {<<p, d>>} = Places(es, f) \ {<<p, d>>}
      BY <1>1 DEF Places, DiffersAt
    <2>2. Shift(Cardinality(Places(ds, f)), Cardinality(Places(es, f)),
                In(<<p, d>>, Places(es, f)), In(<<p, d>>, Places(ds, f)))
      BY Zenon, <2>1, PlacesFinite, DifferByOne
    <2>3. In(<<p, d>>, Places(es, f)) = Same(f, es[p][d])
      BY DEF In, Places, Same
    <2>4. In(<<p, d>>, Places(ds, f)) = Same(f, ds[p][d])
      BY DEF In, Places, Same
    <2>. QED
      BY Zenon, <2>2, <2>3, <2>4, PlacesFinite
  <1>. QED
    BY <1>1 DEF SetFacts

LEMMA ClearFactsHold == ClearFacts
  <1>1. ASSUME NEW ds \in Tables, NEW es \in Tables, NEW f \in File, NEW p \in Process,
               EmptyIn(ds, es, p)
        PROVE  Shift(Uses(es, f), Uses(ds, f), InTable(ds, p, f), 0)
    <2>1. PICK C : C = {p} \X {d \in Fd : ds[p][d] = f}
      BY Zenon
    <2>2. C \subseteq Places(ds, f) /\ Cardinality(C) = InTable(ds, p, f)
      BY <2>1, TablePlaces
    <2>3. \A x \in Process \X Fd : x \in Places(es, f) <=> x \in Places(ds, f) /\ x[1] # p
      BY <1>1, NoneIsNothing DEF Places, EmptyIn
    <2>4. \A x \in Places(ds, f) : x \in C <=> x[1] = p
      BY <2>1 DEF Places
    <2>5. Places(ds, f) = Places(es, f) \cup C /\ Places(es, f) \cap C = {}
      BY <2>2, <2>3, <2>4, PlacesFinite
    <2>6. Shift(Cardinality(Places(es, f)), Cardinality(Places(ds, f)), Cardinality(C), 0)
      BY Zenon, <2>5, PlacesFinite, SplitsOff
    <2>. QED
      BY Zenon, <2>2, <2>6, PlacesFinite
  <1>. QED
    BY <1>1 DEF ClearFacts

HolderSet(h, f) == {t \in Thread : f \in h[t]}

LEMMA HoldersFinite ==
    ASSUME NEW h, NEW f
    PROVE  /\ IsFiniteSet(Thread) /\ HolderSet(h, f) \in SUBSET Thread
           /\ IsFiniteSet(HolderSet(h, f)) /\ Held(h, f) = Cardinality(HolderSet(h, f))
           /\ Held(h, f) \in Nat
  <1>1. IsFiniteSet(Thread)
    BY FilesAssumption
  <1>2. HolderSet(h, f) \in SUBSET Thread
    BY DEF HolderSet
  <1>3. IsFiniteSet(HolderSet(h, f))
    BY <1>1, <1>2, FS_Subset
  <1>4. Held(h, f) = Cardinality(HolderSet(h, f))
    BY DEF Held, HolderSet
  <1>. QED
    BY <1>1, <1>2, <1>3, <1>4, FS_CardinalityType

LEMMA HeldFactsHold == HeldFacts
  <1>1. ASSUME NEW h \in Holdings, NEW f \in File, NEW t \in Thread, f \in h[t]
        PROVE  Held(h, f) > 0
    <2>1. t \in HolderSet(h, f)
      BY <1>1 DEF HolderSet
    <2>2. Cardinality(HolderSet(h, f)) # 0
      BY <2>1, HoldersFinite, FS_EmptySet
    <2>. QED
      BY <2>2, HoldersFinite
  <1>2. ASSUME NEW h \in Holdings, NEW g \in Holdings, NEW t \in Thread, NEW f \in File,
               \A u \in Thread \ {t} : g[u] = h[u]
        PROVE  Shift(Held(h, f), Held(g, f), In(f, g[t]), In(f, h[t]))
    <2>1. HolderSet(h, f) \ {t} = HolderSet(g, f) \ {t}
      BY <1>2 DEF HolderSet
    <2>2. Shift(Cardinality(HolderSet(h, f)), Cardinality(HolderSet(g, f)),
                In(t, HolderSet(g, f)), In(t, HolderSet(h, f)))
      BY <2>1, HoldersFinite, DifferByOne
    <2>3. In(t, HolderSet(g, f)) = In(f, g[t]) /\ In(t, HolderSet(h, f)) = In(f, h[t])
      BY DEF In, HolderSet
    <2>. QED
      BY <2>2, <2>3, HoldersFinite
  <1>3. ASSUME NEW h \in Holdings, NEW G \in SUBSET Thread, NEW f \in File
        PROVE  /\ Among(h, G, f) \in Nat
               /\ Shift(Held(h, f), Held(Without(h, G), f), 0, Among(h, G, f))
    <2>1. PICK C : C = {u \in G : f \in h[u]}
      BY Zenon
    <2>2. PICK g : g = Without(h, G)
      OBVIOUS
    <2>3. \A u \in Thread : g[u] = IF u \in G THEN {} ELSE h[u]
      BY <2>2 DEF Without
    <2>4. HolderSet(h, f) = HolderSet(g, f) \cup C /\ HolderSet(g, f) \cap C = {}
      BY <2>1, <2>3 DEF HolderSet
    <2>5. /\ Shift(Cardinality(HolderSet(g, f)), Cardinality(HolderSet(h, f)), Cardinality(C), 0)
          /\ Cardinality(C) \in Nat
          /\ Cardinality(HolderSet(g, f)) \in Nat /\ Cardinality(HolderSet(h, f)) \in Nat
      BY Zenon, <2>4, HoldersFinite, SplitsOff
    <2>6. Shift(Cardinality(HolderSet(h, f)), Cardinality(HolderSet(g, f)), 0, Cardinality(C))
      BY <2>5 DEF Shift
    <2>7. Among(h, G, f) = Cardinality(C)
      BY <2>1 DEF Among
    <2>. QED
      BY <2>2, <2>5, <2>6, <2>7, HoldersFinite
  <1>. QED
    BY Zenon, <1>1, <1>2, <1>3, HoldersFinite DEF HeldFacts

LEMMA InUseFactsHold == InUseFacts
  <1>0. ASSUME NEW r PROVE /\ InUse(r) \in SUBSET Regular /\ IsFiniteSet(InUse(r))
                           /\ Cardinality(InUse(r)) \in Nat /\ IsFiniteSet(Regular)
    <2>1. InUse(r) \in SUBSET Regular
      BY DEF InUse
    <2>. QED
      BY <2>1, FilesAssumption, FS_Subset, FS_CardinalityType
  <1>1. ASSUME NEW r \in [File -> Nat], NEW s \in [File -> Nat],
               \A f \in Regular : s[f] > 0 => r[f] > 0
        PROVE  Cardinality(InUse(s)) =
                 Cardinality(InUse(r)) - Cardinality({f \in Regular : r[f] > 0 /\ s[f] = 0})
    <2>1. PICK C : C = {f \in Regular : r[f] > 0 /\ s[f] = 0}
      BY Zenon
    <2>2. \A f \in Regular : s[f] \in Nat
      BY DEF File
    <2>3. InUse(r) = InUse(s) \cup C /\ InUse(s) \cap C = {}
      BY <1>1, <2>1, <2>2 DEF InUse
    <2>4. /\ Shift(Cardinality(InUse(s)), Cardinality(InUse(r)), Cardinality(C), 0)
          /\ Cardinality(C) \in Nat
      BY <1>0, <2>3, SplitsOff
    <2>5. Cardinality(InUse(s)) = Cardinality(InUse(r)) - Cardinality(C)
      BY <1>0, <2>4 DEF Shift
    <2>. QED
      BY <2>1, <2>5
  <1>2. ASSUME NEW r \in [File -> Nat], NEW s \in [File -> Nat], NEW g \in Regular,
               r[g] = 0, s[g] > 0, \A f \in Regular \ {g} : s[f] = r[f]
        PROVE  Shift(Cardinality(InUse(r)), Cardinality(InUse(s)), 1, 0)
    <2>1. InUse(r) \ {g} = InUse(s) \ {g}
      BY <1>2 DEF InUse
    <2>2. Shift(Cardinality(InUse(r)), Cardinality(InUse(s)), In(g, InUse(s)), In(g, InUse(r)))
      BY <1>0, <2>1, DifferByOne
    <2>3. In(g, InUse(s)) = 1 /\ In(g, InUse(r)) = 0
      BY <1>2 DEF In, InUse
    <2>. QED
      BY <2>2, <2>3
  <1>. QED
    BY Zenon, <1>0, <1>1, <1>2 DEF InUseFacts

\* A set of descriptors has a lowest one.
LEMMA LowestIn ==
    ASSUME NEW S \in SUBSET Nat, S # {}
    PROVE  Lowest(S) \in S
  <1>. DEFINE R == OpToRel(<, Nat)
  <1>1. IsWellFoundedOn(R, Nat)
    BY Zenon, NatLessThanWellFounded
  <1>2. \A x, y \in Nat : <<x, y>> \in R <=> x < y
    BY DEF OpToRel
  <1>. HIDE DEF R
  <1>3. PICK x \in S : \A y \in S : ~(<<y, x>> \in R)
    BY Zenon, <1>1, WFMin
  <1>4. ASSUME NEW y \in S PROVE x <= y
    <2>1. x \in Nat /\ y \in Nat
      OBVIOUS
    <2>2. ~(y < x)
      BY Zenon, <1>2, <1>3, <2>1
    <2>. QED
      BY <2>1, <2>2
  <1>. QED
    BY Zenon, <1>3, <1>4 DEF Lowest

LEMMA SlotFactsHold == SlotFacts
  <1>1. ASSUME NEW S \in SUBSET Slot, S # {} PROVE Lowest(S) \in S
    BY <1>1, LowestIn, FilesAssumption
  <1>2. ASSUME NEW S \in SUBSET Slot, NEW x, Cardinality(S) >= 2 PROVE S # {} /\ S \ {x} # {}
    <2>1. S # {}
      BY <1>2, FS_EmptySet
    <2>2. S # {x}
      BY <1>2, FS_Singleton
    <2>. QED
      BY <2>1, <2>2
  <1>. QED
    BY <1>1, <1>2 DEF SlotFacts

LEMMA Counting == CountFacts
  BY UseFactsHold, SetFactsHold, ClearFactsHold, HeldFactsHold, InUseFactsHold, SlotFactsHold
     DEF CountFacts

-----------------------------------------------------------------------------
(* Theorems                                                                *)

LEMMA InitIInv == Init => IInv /\ Belongs /\ BytesInOrder
  <1>. SUFFICES ASSUME Init PROVE IInv /\ Belongs /\ BytesInOrder
    OBVIOUS
  <1>0. /\ 0 \in 0..MaxLength /\ Boot \in Thread /\ Shell \in Process
        /\ \A q \in Pipe : pipe[q] = EmptyPipe
    <2>1. MaxLength \in Nat /\ Boot \in Thread /\ Shell \in Process
      BY Zenon, FilesAssumption
    <2>2. 0 \in 0..MaxLength
      BY <2>1
    <2>3. \A q \in Pipe : pipe[q] = EmptyPipe
      BY Zenon DEF Init
    <2>. QED
      BY <2>1, <2>2, <2>3
  <1>1. TypeOK
    <2>1. TaskTypes
      <3>1. exit_requested \in [Process -> BOOLEAN]
        BY Zenon DEF Init
      <3>. QED
        BY <1>0, <3>1 DEF Init, TaskTypes
    <2>2. CallTypes
      BY <1>0 DEF Init, CallTypes, Holdings, Tables
    <2>3. CountTypes
      BY DEF Init, CountTypes
    <2>4. PipeTypes
      BY EmptyPipeType DEF Init, PipeTypes
    <2>. QED
      BY <2>1, <2>2, <2>3, <2>4, TypeParts
  <1>2. Quiet /\ Unused
    BY DEF Init, Quiet, Unused
  <1>3. Counted
    <2>1. ASSUME NEW f \in File PROVE Uses(desc, f) = 0 /\ Held(held, f) = 0
      <3>1. Places(desc, f) = {}
        BY NoneIsNothing DEF Init, Places
      <3>2. HolderSet(held, f) = {}
        BY DEF Init, HolderSet
      <3>. QED
        BY <3>1, <3>2, PlacesFinite, HoldersFinite, FS_EmptySet
    <2>2. \A f \in File : refs[f] = 0 /\ lost[f] = 0
      BY DEF Init
    <2>3. ASSUME NEW f \in File PROVE refs[f] = Uses(desc, f) + Held(held, f) + lost[f]
      <3>1. Uses(desc, f) = 0 /\ Held(held, f) = 0 /\ refs[f] = 0 /\ lost[f] = 0
        BY <2>1, <2>2
      <3>. QED
        BY <3>1
    <2>. QED
      BY <2>3 DEF Counted
  <1>4. Ends
    BY Zenon, EndsAreFiles DEF Init, Ends
  <1>5. Inodes
    <2>1. InUse(refs) = {}
      BY DEF Init, InUse, File
    <2>. QED
      BY Zenon, <2>1, FS_EmptySet DEF Init, Inodes
  <1>6. SleepJustified
    BY NoneIsNothing DEF Init, SleepJustified
  <1>7. Belongs
    BY DEF Init, Belongs
  <1>8. BytesInOrder
    BY <1>0, EmptyInOrder, BytesAre
  <1>. QED
    BY <1>1, <1>2, <1>3, <1>4, <1>5, <1>6, <1>7, <1>8 DEF IInv

LEMMA NextIInv ==
    ASSUME IInv, Belongs, [Next]_vars
    PROVE  IInv'
  <1>0. CountFacts
    BY Counting
  <1>1. CASE Next
    <2>1. ASSUME NEW t \in Thread, PipeEnds(t) PROVE IInv'
      <3>1. CASE PipeInstall(t)
        <4>1. proc[t] # None
          BY <3>1 DEF Belongs, PipeInstall
        <4>. QED
          BY <1>0, <3>1, <4>1, PipeInstallStep
      <3>. QED
        BY <1>0, <2>1, <3>1, PipeFailsStep DEF PipeEnds
    <2>2. ASSUME NEW t \in Thread, Open(t) \/ PipeCreate(t) \/ LoopStep(t)
                                   \/ ForkFails(t) \/ ProcessExit(t)
          PROVE  IInv'
      BY <1>0, <2>2, OpenStep, PipeCreateStep, LoopSteps, ForkFailsStep, ProcessExitStep
    <2>3. ASSUME NEW t \in Thread, NEW d \in Fd,
                 Close(t, d) \/ Dup(t, d) \/ Touch(t, d) \/ ReadNoMemory(t, d)
          PROVE  IInv'
      BY <1>0, <2>3, CloseStep, DupStep, TouchStep, ReadNoMemoryStep
    <2>4. ASSUME NEW t \in Thread, NEW d \in Fd, NEW e \in Fd, Dup2(t, d, e) PROVE IInv'
      BY <1>0, <2>4, Dup2Step
    <2>5. ASSUME NEW t \in Thread, NEW d \in Fd, NEW n \in Lengths, ReadWriteCall(t, d, n)
          PROVE  IInv'
      BY <1>0, <2>5, ReadWriteCallStep
    <2>6. ASSUME NEW t \in Thread, NEW u \in Thread, ThreadCreate(t, u) PROVE IInv'
      BY <2>6, ThreadCreateStep
    <2>7. ASSUME NEW t \in Thread, NEW u \in Thread, NEW c \in Process, Fork(t, u, c) PROVE IInv'
      BY <1>0, <2>7, ForkStep
    <2>8. ASSUME NEW p \in Process, Kill(p) PROVE IInv'
      BY <2>8, KillStep
    <2>. QED
      BY <1>1, <2>1, <2>2, <2>3, <2>4, <2>5, <2>6, <2>7, <2>8 DEF Next
  <1>2. CASE UNCHANGED vars
    <2>1. UNCHANGED <<TaskTypes, CallTypes, CountTypes, PipeTypes>>
      BY <1>2 DEF vars, tasks, objects, TaskTypes, CallTypes, CountTypes, PipeTypes
    <2>2. UNCHANGED <<Quiet, Unused, Counted, Ends, Inodes, SleepJustified>>
      BY Zenon, <1>2 DEF vars, tasks, objects, Quiet, Unused, Counted, Ends, Inodes, InUse,
                  SleepJustified
    <2>. QED
      BY <2>1, <2>2, Parts, PartsNext
  <1>. QED
    BY <1>1, <1>2

LEMMA Invariant == Spec => [](IInv /\ Belongs /\ BytesInOrder)
  <1>1. Init => IInv /\ Belongs /\ BytesInOrder
    BY InitIInv
  <1>2. IInv /\ Belongs /\ BytesInOrder /\ [Next]_vars => (IInv /\ Belongs /\ BytesInOrder)'
    BY NextIInv, BelongsStep, BytesStep
  <1>. QED
    BY <1>1, <1>2, PTL DEF Spec

\* In every reachable state refs of a file object is exactly the number of
\* descriptors and calls that use it, plus the references lost with their
\* holder; readers and writers of a pipe agree with it, and each regular object
\* in use keeps its inode open once, however open, dup2, close, fork, exit and
\* kill interleave.
THEOREM ReferencesExact == Spec => []RefsExact
  <1>1. IInv => RefsExact
    BY Zenon DEF IInv, RefsExact, Counted, Ends, Inodes, Uses, Held, InUse, Descriptors, Holders
  <1>. QED
    BY <1>1, Invariant, PTL

\* No thread sleeps in pipe_read or pipe_write without a reason: closing an end,
\* exit and kill never leave one behind that nobody will wake.
THEOREM SleepersJustified == Spec => []SleepJustified
  <1>1. IInv => SleepJustified
    BY DEF IInv
  <1>. QED
    BY <1>1, Invariant, PTL

\* What pipe_read takes out is what pipe_write put in, in that order, for any
\* capacity and any lengths of the reads and writes.
THEOREM PipeKeepsOrder == Spec => []BytesInOrder
  BY Invariant, PTL
=============================================================================
