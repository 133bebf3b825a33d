-------------------------- MODULE BlockCacheProofs --------------------------
(***************************************************************************)
(* Theorems about BlockCache, for any number of blocks, entries, sectors,  *)
(* attempts and calls: types, the kept pointer, the durability of a sync,  *)
(* and that the cache implements BlockStore.                               *)
(*                                                                         *)
(* The pointer that inode_data_block keeps survives because its entry is   *)
(* recent: every call that could evict it makes at most one other entry    *)
(* more recent, fewer calls are made than there are entries, and the       *)
(* victim is an entry that no valid entry is older than.                   *)
(***************************************************************************)
EXTENDS BlockCache, TLAPS

\* The facts about counting entries that the kept pointer needs.  The lemmas
\* about steps assume them; CountFactsHold gets them from the library.
CountFacts ==
    /\ Cardinality({}) = 0
    /\ \A e \in Entry : Cardinality(Entry \ {e}) = Entries - 1
    /\ \A S \in SUBSET Entry : Cardinality(S) \in Nat
    /\ \A S, T \in SUBSET Entry, e \in Entry :
          T \subseteq S \cup {e} => Cardinality(T) <= Cardinality(S) + 1

-----------------------------------------------------------------------------
(* The inductive invariant                                                 *)

\* A block is in one entry, and no two entries were used at one time.
EntriesDiffer ==
    /\ \A e, f \in Entry :
          valid[e] /\ valid[f] /\ e # f =>
              block[e] # block[f] /\ age[e] # age[f]
    /\ \A e \in Entry : valid[e] => age[e] <= cache_age

\* Where the call in progress is.
Getting == pc = "read" \/ (pc = "write" /\ job = "get")
Syncing == pc = "sync" \/ (pc = "write" /\ job = "sync")

CallExact ==
    /\ pc \in {"write", "read", "got"} => ent \in Entry
    /\ Syncing => ent \in 1 .. (Entries + 1)
    /\ pc = "sync" => job = "sync"
    /\ pc \in {"idle", "got", "sync"} => sec = 0 /\ try = 1
    /\ Getting => cache_age < MaxAge /\ job = "get"
                    /\ \A i \in Entry : ~Hit(blk, i)
    /\ pc = "write" =>
          /\ valid[ent] /\ dirty[ent]
          /\ \A s \in Sector : s < sec =>
                disk[block[ent]][s] = data[ent][s]
    /\ pc = "read" =>
          /\ valid[ent] => ~dirty[ent]
          /\ \A s \in Sector : s < sec => data[ent][s] = disk[blk][s]
    /\ pc = "got" => Hit(blk, ent) /\ age[ent] = cache_age
                       /\ (wr => dirty[ent])
    /\ Syncing => \A e \in Entry :
                     e < ent /\ valid[e] => ~dirty[e]

\* A clean entry is what the disk holds.
CleanIsOnDisk ==
    \A e \in Entry :
        /\ valid[e] /\ ~dirty[e]
        /\ ~(pc = "read" /\ e = ent)
        /\ block[e] \notin damaged
        => data[e] = disk[block[e]]

\* The entry of the kept pointer is in place, and the entries used since
\* are at most the calls made.
Newer(e) == {i \in Entry : valid[i] /\ age[i] > age[e]}

Underway == IF pc \in {"write", "read"} THEN 1 ELSE 0

HeldIsRecent ==
    held # None =>
        /\ held \in Entry
        /\ Hit(index, held) /\ dirty[held]
        /\ ~Syncing
        /\ pc \in {"write", "read"} => ent # held
        /\ Cardinality(Newer(held)) + left + Underway <= Between

IInv == TypeOK /\ EntriesDiffer /\ CallExact /\ CleanIsOnDisk /\ HeldIsRecent

-----------------------------------------------------------------------------
(* Types                                                                   *)

LEMMA TypeInit == Init => TypeOK
  <1> SUFFICES ASSUME Init PROVE TypeOK
    OBVIOUS
  <1> USE CacheAssumption
  <1>1. disk \in [Block -> [Sector -> Value]]
    BY DEF Init, Nothing, NoData, None, Entry
  <1>2. block \in [Entry -> Block] /\ age \in [Entry -> Nat]
    BY DEF Init, Nothing, NoData, None, Entry
  <1>3. valid \in [Entry -> BOOLEAN] /\ dirty \in [Entry -> BOOLEAN]
    BY DEF Init, Nothing, NoData, None, Entry
  <1>4. data \in [Entry -> [Sector -> Value]]
    BY DEF Init, Nothing, NoData, None, Entry
  <1>5. wr \in BOOLEAN
    BY Zenon DEF Init, Nothing, NoData, None, Entry
  <1>6. /\ blk \in Block /\ index \in Block
        /\ ent \in 0 .. (Entries + 1) /\ held \in 0..Entries
        /\ sec \in 0..Sectors /\ try \in 1..Tries
        /\ left \in 0..Between /\ cache_age \in 0..MaxAge
    BY DEF Init, Nothing, NoData, None, Entry
  <1>7. /\ pc \in {"idle", "write", "read", "got", "sync"}
        /\ job \in {"get", "sync"} /\ damaged \subseteq Block
    BY DEF Init, Nothing, NoData, None, Entry
  <1> QED
    BY <1>1, <1>2, <1>3, <1>4, <1>5, <1>6, <1>7 DEF TypeOK

LEMMA TypeNext == ASSUME TypeOK, CallExact, HeldIsRecent, [Next]_vars
                  PROVE  TypeOK'
  <1> USE CacheAssumption
  <1> DEFINE disktype == disk \in [Block -> [Sector -> Value]]
             datatype == data \in [Entry -> [Sector -> Value]]
             rest == /\ block \in [Entry -> Block] /\ age \in [Entry -> Nat]
                     /\ cache_age \in 0..MaxAge
                     /\ pc \in {"idle", "write", "read", "got", "sync"}
                     /\ job \in {"get", "sync"}
                     /\ blk \in Block
                     /\ ent \in 0 .. (Entries + 1)
                     /\ sec \in 0..Sectors /\ try \in 1..Tries
                     /\ held \in 0..Entries /\ index \in Block
                     /\ left \in 0..Between
                     /\ damaged \subseteq Block
  <1>1. disktype'
    <2>1. CASE WriteSector
      <3>1. ent \in Entry /\ sec \in Sector
        BY <2>1 DEF WriteSector, CallExact, Sector, TypeOK, None, Entry,
          Return, cache
      <3>2. block[ent] \in Block /\ data[ent][sec] \in Value
        BY <3>1 DEF TypeOK, None, Entry, Return, cache
      <3> QED
        BY Zenon, <2>1, <3>1, <3>2 DEF WriteSector, TypeOK, None, Entry, Return,
          cache
    <2>2. CASE UNCHANGED disk
      BY <2>2 DEF TypeOK, None, Entry, Return, cache
    <2> QED
      BY Zenon, <2>1, <2>2 DEF Next, vars, GetHit, GetMiss, ReadSector, Retry, GiveUp,
        Flushed, GetRead, Modify, Release, Hold, StoreHeld, DropHeld, SyncCall,
        SyncEntry, SyncReturns, Restart
  <1>2. datatype'
    <2>1. CASE ReadSector
      <3>1. ent \in Entry /\ sec \in Sector /\ disk[blk][sec] \in Value
        BY <2>1 DEF ReadSector, CallExact, Sector, TypeOK, None, Entry,
          Return, cache
      <3> QED
        BY <2>1, <3>1 DEF ReadSector, TypeOK, None, Entry, Return, cache
    <2>2. ASSUME NEW s \in Sector, NEW v \in Value, Modify(s, v)
          PROVE  datatype'
      BY Zenon, <2>2 DEF Modify, TypeOK, None, Entry, Return, cache
    <2>3. ASSUME NEW s \in Sector, NEW v \in Value, StoreHeld(s, v)
          PROVE  datatype'
      BY <2>3 DEF StoreHeld, TypeOK, None, Entry, Return, cache
    <2>4. CASE Restart
      BY <2>4 DEF Restart, Nothing, NoData
    <2>5. CASE UNCHANGED data
      BY <2>5 DEF TypeOK, None, Entry, Return, cache
    <2> QED
      BY <2>1, <2>2, <2>3, <2>4, <2>5 DEF Next, vars, GetHit, GetMiss,
        WriteSector, Retry, GiveUp, Flushed, GetRead, Release, Hold,
        DropHeld, SyncCall, SyncEntry, SyncReturns, None, Entry, Return,
        cache
  <1>3. dirty' \in [Entry -> BOOLEAN]
    <2>1. ASSUME NEW b \in Block, NEW w \in BOOLEAN, GetHit(b, w)
          PROVE  dirty' \in [Entry -> BOOLEAN]
      <3> PICK e \in Entry : dirty' = [dirty EXCEPT ![e] = @ \/ w]
        BY Zenon, <2>1 DEF GetHit
      <3>1. (dirty[e] \/ w) \in BOOLEAN
        OBVIOUS
      <3> QED
        BY <3>1 DEF TypeOK, None, Entry, Return, cache
    <2>2. CASE Flushed
      BY Zenon, <2>2 DEF Flushed, TypeOK, None, Entry, Return, cache
    <2>3. CASE GetRead
      BY Zenon, <2>3 DEF GetRead, TypeOK, None, Entry, Return, cache
    <2>4. CASE Restart
      BY <2>4 DEF Restart, Nothing
    <2>5. CASE UNCHANGED dirty
      BY <2>5 DEF TypeOK, None, Entry, Return, cache
    <2> QED
      BY <2>1, <2>2, <2>3, <2>4, <2>5 DEF Next, vars, GetMiss, ReadSector,
        WriteSector, Retry, GiveUp, Modify, Release, Hold, StoreHeld,
        DropHeld, SyncCall, SyncEntry, SyncReturns, None, Entry, Return,
        cache
  <1>4. rest'
    <2>1. ASSUME NEW b \in Block, NEW w \in BOOLEAN, GetHit(b, w)
          PROVE  rest'
      BY <2>1 DEF GetHit, MayCall, Spent, Entry, TypeOK, None, Return, cache
    <2>2. ASSUME NEW b \in Block, NEW w \in BOOLEAN, GetMiss(b, w)
          PROVE  rest'
      <3>1. pc' \in {"write", "read"} /\ job' = "get" /\ blk' = b
        BY <2>2 DEF GetMiss
      <3>2. ent' \in Entry /\ sec' = 0 /\ try' = 1 /\ damaged' \subseteq Block
        BY Zenon, <2>2 DEF GetMiss, TypeOK, None, Entry, Return, cache
      <3>3. left' \in 0..Between
        BY <2>2 DEF GetMiss, MayCall, Spent, TypeOK, None, Entry, Return,
          cache
      <3>4. UNCHANGED <<block, age, cache_age, held, index>>
        BY <2>2 DEF GetMiss, None, Entry, Return, cache
      <3> QED
        BY <3>1, <3>2, <3>3, <3>4 DEF TypeOK, None, Entry, Return, cache
    <2>3. CASE WriteSector
      BY <2>3 DEF WriteSector, TypeOK, None, Entry, Return, cache
    <2>4. CASE ReadSector
      BY <2>4 DEF ReadSector, TypeOK, None, Entry, Return, cache
    <2>5. CASE Retry
      BY <2>5 DEF Retry, TypeOK, None, Entry, Return, cache
    <2>6. CASE GiveUp
      <3>1. Damage \subseteq Block
        BY <2>6 DEF GiveUp, Damage, CallExact, TypeOK, None, Entry, Return,
          cache
      <3> QED
        BY <2>6, <3>1 DEF GiveUp, TypeOK, None, Entry, Return, cache
    <2>7. CASE Flushed
      <3>1. ent \in Entry
        BY <2>7 DEF Flushed, CallExact
      <3> QED
        BY <2>7, <3>1 DEF Flushed, Entry, TypeOK, None, Return, cache
    <2>8. CASE GetRead
      <3>1. ent \in Entry /\ cache_age < MaxAge
        BY <2>8 DEF GetRead, CallExact, Getting
      <3> QED
        BY <2>8, <3>1 DEF GetRead, TypeOK, None, Entry, Return, cache
    <2>9. ASSUME NEW s \in Sector, NEW v \in Value, Modify(s, v)
          PROVE  rest'
      BY <2>9 DEF Modify, TypeOK, None, Entry, Return, cache
    <2>10. ASSUME NEW s \in Sector, NEW v \in Value, StoreHeld(s, v)
           PROVE  rest'
      BY <2>10 DEF StoreHeld, TypeOK, None, Entry, Return, cache
    <2>11. CASE Release
      BY <2>11 DEF Release, TypeOK, None, Entry, Return, cache
    <2>12. CASE Hold
      BY <2>12 DEF Hold, CallExact, TypeOK, None, Entry, Return, cache
    <2>13. CASE DropHeld
      BY <2>13 DEF DropHeld, TypeOK, None, Entry, Return, cache
    <2>14. CASE SyncCall
      BY <2>14 DEF SyncCall, TypeOK, None, Entry, Return, cache
    <2>15. CASE SyncEntry
      BY <2>15 DEF SyncEntry, Entry, TypeOK, None, Return, cache
    <2>16. CASE SyncReturns
      BY <2>16 DEF SyncReturns, TypeOK, None, Entry, Return, cache
    <2>17. CASE Restart
      BY <2>17 DEF Restart, Nothing, None, Entry, Return, cache
    <2>18. CASE UNCHANGED vars
      BY <2>18 DEF vars, TypeOK, None, Entry, Return, cache
    <2> QED
      BY Zenon, <2>1, <2>2, <2>3, <2>4, <2>5, <2>6, <2>7, <2>8, <2>9, <2>10, <2>11,
         <2>12, <2>13, <2>14, <2>15, <2>16, <2>17, <2>18 DEF Next
  <1>5. wr' \in BOOLEAN
    BY Zenon DEF Next, vars, GetHit, GetMiss, ReadSector, WriteSector, Retry,
      GiveUp, Flushed, GetRead, Modify, Release, Hold, StoreHeld, DropHeld,
      SyncCall, SyncEntry, SyncReturns, Restart, TypeOK, None, Entry, Return,
      cache
  <1>6. valid' \in [Entry -> BOOLEAN]
    <2>1. CASE GetRead
      BY Zenon, <2>1 DEF GetRead, TypeOK, None, Entry, Return, cache
    <2>2. CASE Restart
      BY <2>2 DEF Restart, Nothing
    <2>3. CASE UNCHANGED valid
      BY <2>3 DEF TypeOK, None, Entry, Return, cache
    <2> QED
      BY <2>1, <2>2, <2>3 DEF Next, vars, GetHit, GetMiss, ReadSector,
        WriteSector, Retry, GiveUp, Flushed, Modify, Release, Hold,
        StoreHeld, DropHeld, SyncCall, SyncEntry, SyncReturns, TypeOK, None,
        Entry, Return, cache
  <1> QED
    BY Zenon, <1>1, <1>2, <1>3, <1>4, <1>5, <1>6 DEF TypeOK, None, Entry, Return,
      cache

-----------------------------------------------------------------------------
(* The parts of the invariant                                              *)

LEMMA DifferNext == ASSUME IInv, [Next]_vars
                    PROVE  EntriesDiffer'
  <1> USE CacheAssumption
  <1>1. ASSUME NEW b \in Block, NEW w \in BOOLEAN, GetHit(b, w)
        PROVE  EntriesDiffer'
    <2> PICK e \in Entry : /\ age' = [age EXCEPT ![e] = cache_age + 1]
                           /\ cache_age' = cache_age + 1
                           /\ UNCHANGED <<block, valid>>
      BY Zenon, <1>1 DEF GetHit
    <2> QED
      BY DEF IInv, TypeOK, EntriesDiffer
  <1>2. CASE GetRead
    <2>1. ent \in Entry /\ \A i \in Entry : ~(valid[i] /\ block[i] = blk)
      BY <1>2 DEF GetRead, CallExact, Getting, Hit, IInv, EntriesDiffer
    <2> QED
      BY <1>2, <2>1 DEF GetRead, IInv, TypeOK, EntriesDiffer
  <1>3. CASE Restart
    BY <1>3 DEF Restart, Nothing, EntriesDiffer
  <1>4. CASE UNCHANGED <<block, age, valid, cache_age>>
    BY <1>4 DEF IInv, EntriesDiffer
  <1> QED
    BY <1>1, <1>2, <1>3, <1>4 DEF Next, vars, cache, GetMiss, ReadSector,
      WriteSector, Retry, GiveUp, Flushed, Modify, Release, Hold, StoreHeld,
      DropHeld, SyncCall, SyncEntry, SyncReturns

\* The victim of cache_get is not the entry of the kept pointer: if it were,
\* all other entries would have been used since.
LEMMA VictimNotHeld == ASSUME CountFacts, IInv, NEW e \in Entry, Victim(e),
                              held # None, left > 0
                       PROVE  e # held
  <1> USE CacheAssumption
  <1> SUFFICES ASSUME e = held PROVE FALSE
    OBVIOUS
  <1>1. valid[held]
    BY DEF HeldIsRecent, Hit, IInv
  <1>2. \A i \in Entry : valid[i] /\ age[held] <= age[i]
    BY <1>1 DEF Victim
  <1>3. Newer(held) = Entry \ {held}
    <2>1. held \in Entry /\ \A i \in Entry : age[i] \in Nat
      BY DEF IInv, TypeOK
    <2>2. \A i \in Entry : i # held => age[held] # age[i]
      BY <1>2, <2>1 DEF EntriesDiffer, IInv
    <2>3. \A i \in Entry : i # held <=> age[i] > age[held]
      BY <1>2, <2>1, <2>2
    <2> QED
      BY <1>2, <2>3 DEF Newer
  <1>4. held \in Entry
    OBVIOUS
  <1>5. Cardinality(Newer(held)) = Entries - 1
    BY <1>3, <1>4 DEF CountFacts
  <1>6. Cardinality(Newer(held)) + left + Underway <= Between
    BY DEF HeldIsRecent, IInv
  <1> QED
    BY <1>5, <1>6 DEF Underway, IInv, TypeOK

\* A step that makes entry e the most recent adds at most e to the entries
\* used since.
LEMMA OneNewer == ASSUME CountFacts, IInv, held # None, NEW e \in Entry,
                         \A i \in Entry \ {e} : age'[i] = age[i]
                                                  /\ valid'[i] = valid[i],
                         UNCHANGED held, age'[e] = cache_age + 1
                  PROVE  Cardinality(Newer(held)') <= Cardinality(Newer(held)) + 1
  <1> USE CacheAssumption
  <1> DEFINE N == Newer(held)
  <1>1. N \in SUBSET Entry /\ Newer(held)' \in SUBSET Entry
    BY DEF Newer
  <1>3. age[held] <= cache_age
    BY DEF HeldIsRecent, Hit, EntriesDiffer, IInv
  <1>4. Newer(held)' \subseteq N \cup {e}
    <2> SUFFICES ASSUME NEW i \in Entry, i # e, valid'[i], age'[i] > age'[held]
                 PROVE  valid[i] /\ age[i] > age[held]
      BY DEF Newer
    <2>1. valid[i] /\ age[i] > age'[held]
      OBVIOUS
    <2>2. held \in Entry /\ age[held] \in Nat /\ age[i] \in Nat
      BY DEF HeldIsRecent, IInv, TypeOK
    <2>3. age'[held] = age[held] \/ age'[held] = cache_age + 1
      BY <2>2
    <2> QED
      BY <1>3, <2>1, <2>2, <2>3 DEF IInv, TypeOK
  <1> HIDE DEF N
  <1>5. Cardinality(Newer(held)') <= Cardinality(N) + 1
    BY <1>1, <1>4 DEF CountFacts
  <1> QED
    BY <1>5 DEF N

LEMMA CallNext == ASSUME IInv, [Next]_vars
                  PROVE  CallExact'
  <1> USE CacheAssumption
  <1>1. ASSUME NEW b \in Block, NEW w \in BOOLEAN, GetHit(b, w)
        PROVE  CallExact'
    BY <1>1 DEF GetHit, MayCall, CallExact, IInv, TypeOK, Entry, Sector, Hit,
      Getting, Syncing
  <1>2. ASSUME NEW b \in Block, NEW w \in BOOLEAN, GetMiss(b, w)
        PROVE  CallExact'
    BY <1>2 DEF GetMiss, MayCall, CallExact, cache, Entry, Sector, Hit,
      Getting, Syncing
  <1>3. CASE WriteSector
    <2>1. ent \in Entry /\ sec \in Sector /\ block[ent] \in Block
      BY <1>3 DEF WriteSector, CallExact, IInv, TypeOK, Entry, Sector, Hit,
        Getting, Syncing
    <2>2. \A t \in Sector : t < sec + 1 =>
            disk'[block[ent]][t] = data[ent][t]
      <3>1. \A t \in Sector : t < sec => disk[block[ent]][t] = data[ent][t]
        BY <1>3 DEF WriteSector, CallExact, IInv, TypeOK, Entry, Sector, Hit,
          Getting, Syncing
      <3>2. disk'[block[ent]] = [disk[block[ent]] EXCEPT ![sec] = data[ent][sec]]
        BY <1>3, <2>1 DEF WriteSector, IInv, TypeOK, Entry, Sector, Hit,
          Getting, Syncing
      <3>3. disk[block[ent]] \in [Sector -> Value]
        BY Zenon, <2>1 DEF IInv, TypeOK, Entry, Sector, Hit, Getting, Syncing
      <3> QED
        BY <2>1, <3>1, <3>2, <3>3 DEF Entry, Sector, Hit, Getting, Syncing
    <2> QED
      BY <1>3, <2>1, <2>2 DEF WriteSector, CallExact, cache, IInv, Entry,
        Sector, Hit, Getting, Syncing
  <1>4. CASE ReadSector
    BY <1>4 DEF ReadSector, CallExact, IInv, TypeOK, Entry, Sector, Hit,
      Getting, Syncing
  <1>5. CASE Retry
    BY <1>5 DEF Retry, CallExact, cache, IInv, Entry, Sector, Hit, Getting,
      Syncing
  <1>6. CASE GiveUp
    BY <1>6 DEF GiveUp, CallExact, cache, Entry, Sector, Hit, Getting,
      Syncing
  <1>7. CASE Flushed
    BY <1>7 DEF Flushed, CallExact, IInv, TypeOK, Entry, Sector, Hit,
      Getting, Syncing
  <1>8. CASE GetRead
    BY <1>8 DEF GetRead, CallExact, IInv, TypeOK, Entry, Sector, Hit,
      Getting, Syncing
  <1>9. ASSUME NEW s \in Sector, NEW v \in Value, Modify(s, v)
        PROVE  CallExact'
    BY <1>9 DEF Modify, Return, CallExact, IInv, Entry, Sector, Hit, Getting,
      Syncing
  <1>10. ASSUME NEW s \in Sector, NEW v \in Value, StoreHeld(s, v)
         PROVE  CallExact'
    BY <1>10 DEF StoreHeld, CallExact, IInv, Entry, Sector, Hit, Getting,
      Syncing
  <1>11. CASE Release
    BY <1>11 DEF Release, Return, CallExact, cache, IInv, Entry, Sector, Hit,
      Getting, Syncing
  <1>12. CASE Hold
    BY <1>12 DEF Hold, Return, CallExact, cache, IInv, Entry, Sector, Hit,
      Getting, Syncing
  <1>13. CASE DropHeld
    BY <1>13 DEF DropHeld, CallExact, cache, IInv, Entry, Sector, Hit,
      Getting, Syncing
  <1>14. CASE SyncCall
    BY <1>14 DEF SyncCall, CallExact, cache, IInv, Entry, Sector, Hit,
      Getting, Syncing
  <1>15. CASE SyncEntry
    <2>1. CASE valid[ent] /\ dirty[ent]
      BY <1>15, <2>1 DEF SyncEntry, CallExact, cache, IInv, Entry, Sector,
        Hit, Getting, Syncing
    <2>2. CASE ~(valid[ent] /\ dirty[ent])
      <3>1. /\ ent \in Entry /\ ent' = ent + 1 /\ UNCHANGED <<valid, dirty, pc, job, sec, try>>
        BY <1>15, <2>2 DEF SyncEntry, cache
      <3>2. pc' = "sync" /\ job' = "sync" /\ sec' = 0 /\ try' = 1
        BY <1>15, <3>1 DEF SyncEntry, CallExact, IInv, Entry, Sector, Hit,
          Getting, Syncing
      <3>3. \A e \in Entry : e < ent' /\ valid'[e] => ~dirty'[e]
        BY <1>15, <2>2, <3>1 DEF SyncEntry, CallExact, IInv, Entry, Sector,
          Hit, Getting, Syncing
      <3> QED
        BY <3>1, <3>2, <3>3 DEF CallExact, Entry, Sector, Hit, Getting,
          Syncing
    <2> QED
      BY <2>1, <2>2
  <1>16. CASE SyncReturns
    BY <1>16 DEF SyncReturns, Return, CallExact, cache, IInv, Entry, Sector,
      Hit, Getting, Syncing
  <1>17. CASE Restart
    BY <1>17 DEF Restart, Nothing, CallExact, Entry, Sector, Hit, Getting,
      Syncing
  <1>18. CASE UNCHANGED vars
    BY <1>18 DEF vars, CallExact, cache, IInv, Entry, Sector, Hit, Getting,
      Syncing
  <1> QED
    BY <1>1, <1>2, <1>3, <1>4, <1>5, <1>6, <1>7, <1>8, <1>9, <1>10, <1>11,
       <1>12, <1>13, <1>14, <1>15, <1>16, <1>17, <1>18 DEF Next

LEMMA CleanNext == ASSUME IInv, [Next]_vars
                   PROVE  CleanIsOnDisk'
  <1> USE CacheAssumption
  <1>1. ASSUME NEW b \in Block, NEW w \in BOOLEAN, GetHit(b, w)
        PROVE  CleanIsOnDisk'
    BY <1>1 DEF GetHit, MayCall, Hit, EntriesDiffer, IInv, TypeOK,
      CleanIsOnDisk
  <1>2. ASSUME NEW b \in Block, NEW w \in BOOLEAN, GetMiss(b, w)
        PROVE  CleanIsOnDisk'
    BY <1>2 DEF GetMiss, MayCall, Leaves, EntriesDiffer, cache, IInv,
      CleanIsOnDisk
  <1>3. CASE WriteSector
    BY <1>3 DEF WriteSector, CallExact, EntriesDiffer, cache, IInv,
      CleanIsOnDisk
  <1>4. CASE ReadSector
    BY <1>4 DEF ReadSector, CallExact, IInv, CleanIsOnDisk
  <1>5. CASE Retry
    BY <1>5 DEF Retry, cache, IInv, CleanIsOnDisk
  <1>6. CASE GiveUp
    BY <1>6 DEF GiveUp, Damage, cache, IInv, CleanIsOnDisk
  <1>7. CASE Flushed
    <2>1. ent \in Entry /\ data[ent] = disk[block[ent]]
      <3>1. ent \in Entry /\ \A t \in Sector : t < sec
        BY <1>7 DEF Flushed, CallExact, Sector, IInv, CleanIsOnDisk
      <3>2. \A t \in Sector : disk[block[ent]][t] = data[ent][t]
        BY <1>7, <3>1 DEF Flushed, CallExact, IInv, CleanIsOnDisk
      <3>3. data[ent] \in [Sector -> Value]
              /\ disk[block[ent]] \in [Sector -> Value]
        BY Zenon, <3>1 DEF IInv, TypeOK, CleanIsOnDisk
      <3> QED
        BY <3>1, <3>2, <3>3
    <2> QED
      BY <1>7, <2>1 DEF Flushed, IInv, CleanIsOnDisk
  <1>8. CASE GetRead
    <2>1. ent \in Entry /\ data[ent] = disk[blk]
      BY <1>8 DEF GetRead, CallExact, Sector, IInv, TypeOK, CleanIsOnDisk
    <2> QED
      BY <1>8, <2>1 DEF GetRead, IInv, TypeOK, CleanIsOnDisk
  <1>9. ASSUME NEW s \in Sector, NEW v \in Value, Modify(s, v)
        PROVE  CleanIsOnDisk'
    BY <1>9 DEF Modify, Return, CallExact, IInv, CleanIsOnDisk
  <1>10. ASSUME NEW s \in Sector, NEW v \in Value, StoreHeld(s, v)
         PROVE  CleanIsOnDisk'
    BY <1>10 DEF StoreHeld, HeldIsRecent, IInv, CleanIsOnDisk
  <1>11. CASE Restart
    BY <1>11 DEF Restart, Nothing, CleanIsOnDisk
  <1>12. CASE UNCHANGED <<disk, cache, damaged>> /\ (pc' = "read" => pc = "read")
                /\ (pc = "read" => UNCHANGED <<pc, ent>>)
    BY <1>12 DEF cache, IInv, CleanIsOnDisk
  <1>13. CASE \/ Release \/ Hold \/ DropHeld \/ SyncCall \/ SyncEntry
              \/ SyncReturns \/ UNCHANGED vars
    BY <1>12, <1>13 DEF vars, Release, Hold, DropHeld, SyncCall, SyncEntry,
      SyncReturns, Return
  <1> QED
    BY <1>1, <1>2, <1>3, <1>4, <1>5, <1>6, <1>7, <1>8, <1>9, <1>10, <1>11,
       <1>13 DEF Next

LEMMA HeldNext == ASSUME CountFacts, IInv, [Next]_vars
                  PROVE  HeldIsRecent'
  <1> USE CacheAssumption
  <1> DEFINE N == Cardinality(Newer(held))
  <1>0. N \in Nat /\ N' \in Nat
    <2>1. Newer(held) \in SUBSET Entry /\ Newer(held)' \in SUBSET Entry
      BY DEF Newer
    <2> QED
      BY <2>1 DEF CountFacts, N
  <1> HIDE DEF N
  <1>1. ASSUME UNCHANGED <<block, age, valid, dirty, held, index, left>>,
               \/ UNCHANGED <<pc, job, ent>>
               \/ pc' = "idle"
        PROVE  HeldIsRecent'
    <2>1. N' = N
      BY <1>1 DEF Newer, N
    <2>2. Underway' <= Underway
      BY <1>1 DEF Underway
    <2>3. Underway \in {0, 1} /\ Underway' \in {0, 1}
      BY DEF Underway
    <2>4. held # None => N' + left' + Underway' <= Between
      BY <1>0, <1>1, <2>1, <2>2, <2>3 DEF HeldIsRecent, N, IInv, TypeOK, Hit
    <2>5. held # None => ~Syncing' /\ (pc' \in {"write", "read"} => ent' # held)
      BY <1>1 DEF HeldIsRecent, Syncing, IInv, Hit
    <2> QED
      BY <1>1, <2>4, <2>5 DEF HeldIsRecent, N, IInv, Hit
  <1>2. ASSUME NEW b \in Block, NEW w \in BOOLEAN, GetHit(b, w), held # None
        PROVE  HeldIsRecent'
    <2> PICK e \in Entry :
          /\ Hit(b, e)
          /\ age' = [age EXCEPT ![e] = cache_age + 1]
          /\ dirty' = [dirty EXCEPT ![e] = @ \/ w]
      BY Zenon, <1>2 DEF GetHit
    <2>1. UNCHANGED <<block, valid, held, index>> /\ left' = left - 1
            /\ pc = "idle" /\ pc' = "got"
      BY <1>2 DEF GetHit, Spent, MayCall
    <2>2. N' <= N + 1
      BY <1>2, <2>1, OneNewer DEF N, IInv, TypeOK, Hit
    <2>3. N + left <= Between
      <3>1. N + left + Underway <= Between
        BY <1>2 DEF HeldIsRecent, N, IInv, Hit
      <3>2. Underway = 0
        BY <2>1 DEF Underway
      <3> QED
        BY <1>0, <3>1, <3>2 DEF IInv, TypeOK, Hit
    <2>4. N' + left' + Underway' <= Between
      <3>1. Underway' = 0
        BY <2>1 DEF Underway
      <3>2. N' + left' + 0 <= Between
        BY <1>0, <2>1, <2>2, <2>3 DEF N, IInv, TypeOK, Hit
      <3> QED
        BY <3>1, <3>2
    <2>5. held \in Entry /\ Hit(index, held)' /\ dirty'[held]
      BY <1>2, <2>1 DEF HeldIsRecent, IInv, TypeOK, Hit
    <2> QED
      BY <2>1, <2>4, <2>5 DEF HeldIsRecent, Syncing, N
  <1>3. ASSUME NEW b \in Block, NEW w \in BOOLEAN, GetMiss(b, w), held # None
        PROVE  HeldIsRecent'
    <2> PICK e \in Entry : Victim(e) /\ ent' = e
      BY <1>3 DEF GetMiss
    <2>1. UNCHANGED <<block, age, valid, dirty, held, index>> /\ left' = left - 1
            /\ pc = "idle" /\ job' = "get" /\ pc' \in {"write", "read"}
      BY <1>3 DEF GetMiss, Spent, MayCall, cache
    <2>2. e # held
      BY <1>3, VictimNotHeld DEF GetMiss, MayCall
    <2>3. N' = N
      BY <2>1 DEF Newer, N
    <2>4. N + left <= Between
      <3>1. N + left + Underway <= Between
        BY <1>3 DEF HeldIsRecent, N, IInv, Hit
      <3>2. Underway = 0
        BY <2>1 DEF Underway
      <3> QED
        BY <1>0, <3>1, <3>2 DEF IInv, TypeOK, Hit
    <2>5. N' + left' + Underway' <= Between
      BY <1>0, <2>1, <2>3, <2>4 DEF Underway, IInv, TypeOK, Hit
    <2>6. held \in Entry /\ Hit(index, held)' /\ dirty'[held]
      BY <1>3, <2>1 DEF HeldIsRecent, IInv, Hit
    <2> QED
      BY <2>1, <2>2, <2>5, <2>6 DEF HeldIsRecent, Syncing, N
  <1>4. CASE Flushed
    <2>1. CASE held # None
      <3>1. UNCHANGED <<block, age, valid, held, index, left, ent>>
              /\ dirty' = [dirty EXCEPT ![ent] = FALSE]
              /\ pc = "write" /\ pc' = "read" /\ ent # held
        BY <1>4, <2>1 DEF Flushed, HeldIsRecent, Syncing, IInv, TypeOK, Hit
      <3>2. N' = N
        BY <3>1 DEF Newer, N
      <3> QED
        BY <2>1, <3>1, <3>2 DEF HeldIsRecent, Syncing, Underway, N, IInv, Hit
    <2>2. CASE held = None
      BY <1>4, <2>2 DEF Flushed, HeldIsRecent
    <2> QED
      BY <2>1, <2>2
  <1>5. ASSUME GetRead, held # None
        PROVE  HeldIsRecent'
    <2>1. ent \in Entry /\ ent # held
            /\ age' = [age EXCEPT ![ent] = cache_age + 1]
            /\ valid' = [valid EXCEPT ![ent] = TRUE]
            /\ dirty' = [dirty EXCEPT ![ent] = wr]
            /\ block' = [block EXCEPT ![ent] = blk]
            /\ UNCHANGED <<held, index, left, ent>>
            /\ pc = "read" /\ pc' = "got"
      BY <1>5 DEF GetRead, CallExact, HeldIsRecent, IInv, Hit
    <2>2. N' <= N + 1
      BY Zenon, <1>5, <2>1, OneNewer DEF N, IInv, TypeOK, Hit
    <2>3. N + left + 1 <= Between
      BY <1>5, <2>1 DEF HeldIsRecent, Underway, N, IInv, Hit
    <2>4. N' + left' + Underway' <= Between
      <3>1. Underway' = 0
        BY <2>1 DEF Underway
      <3>2. N' + left' + 0 <= Between
        BY <1>0, <2>1, <2>2, <2>3 DEF N, IInv, TypeOK, Hit
      <3> QED
        BY <3>1, <3>2
    <2>5. held \in Entry /\ Hit(index, held)' /\ dirty'[held]
      BY <1>5, <2>1 DEF HeldIsRecent, IInv, Hit
    <2> QED
      BY <2>1, <2>4, <2>5 DEF HeldIsRecent, Syncing, N
  <1>6. CASE Hold
    <2>1. ent \in Entry /\ UNCHANGED <<block, age, valid, dirty>>
            /\ held' = ent /\ index' = blk /\ left' = Between /\ pc' = "idle"
            /\ Hit(blk, ent) /\ dirty[ent] /\ age[ent] = cache_age
      BY <1>6 DEF Hold, Return, CallExact, cache, IInv, Hit
    <2>2. \A i \in Entry : valid[i] => ~(age[i] > age[ent])
      BY <2>1 DEF EntriesDiffer, IInv, TypeOK, Hit
    <2>3. Newer(held)' = {}
      BY Zenon, <2>1, <2>2 DEF Newer
    <2>4. Cardinality(Newer(held)') = 0
      BY <2>3 DEF CountFacts
    <2> QED
      BY <2>1, <2>4 DEF HeldIsRecent, Syncing, Underway, Hit
  <1>7. CASE held' = None
    BY <1>7 DEF HeldIsRecent
  <1>8. CASE held = None
    BY Zenon, <1>6, <1>7, <1>8 DEF Next, vars, GetHit, GetMiss, GetRead, Flushed,
      ReadSector, WriteSector, Retry, GiveUp, Modify, Release, StoreHeld,
      DropHeld, SyncCall, SyncEntry, SyncReturns, Restart
  <1>9. CASE WriteSector \/ ReadSector \/ Retry
    BY <1>1, <1>9 DEF WriteSector, ReadSector, Retry, cache
  <1>10. ASSUME NEW s \in Sector, NEW v \in Value, Modify(s, v)
         PROVE  HeldIsRecent'
    BY <1>1, <1>10 DEF Modify, Return
  <1>11. CASE GiveUp \/ Release
    BY <1>1, <1>11 DEF GiveUp, Release, Return, cache
  <1>12. CASE UNCHANGED vars
    BY <1>1, <1>12 DEF vars, cache
  <1>13. ASSUME held # None
         PROVE  ~SyncEntry /\ ~SyncReturns /\ ~SyncCall
    BY <1>13 DEF HeldIsRecent, Syncing, SyncEntry, SyncReturns, SyncCall,
      IInv, Hit
  <1>14. ASSUME NEW s \in Sector, NEW v \in Value,
                StoreHeld(s, v) \/ DropHeld \/ Restart
         PROVE  held' = None
    BY Zenon, <1>14 DEF StoreHeld, DropHeld, Restart
  <1>15. DropHeld \/ Restart => held' = None
    BY Zenon DEF DropHeld, Restart
  <1> QED
    BY <1>2, <1>3, <1>4, <1>5, <1>6, <1>7, <1>8, <1>9, <1>10, <1>11, <1>12,
       <1>13, <1>14, <1>15 DEF Next

LEMMA InvInit == Init => IInv
  <1> SUFFICES ASSUME Init PROVE IInv
    OBVIOUS
  <1>1. \A e \in Entry : ~valid[e]
    BY DEF Init, Nothing
  <1>2. EntriesDiffer /\ CleanIsOnDisk
    BY <1>1 DEF EntriesDiffer, CleanIsOnDisk
  <1>3. CallExact
    BY DEF Init, CallExact, Getting, Syncing
  <1>4. HeldIsRecent
    BY DEF Init, HeldIsRecent
  <1> QED
    BY <1>2, <1>3, <1>4, TypeInit DEF IInv

LEMMA InvNext == CountFacts /\ IInv /\ [Next]_vars => IInv'
  BY TypeNext, DifferNext, CallNext, CleanNext, HeldNext DEF IInv

-----------------------------------------------------------------------------
(* What a read finds                                                       *)

\* What a reader of a cached block finds, before and after a step.
LEMMA FoundInCache ==
    ASSUME EntriesDiffer, NEW b, NEW e \in Entry, Cached(b, e)
    PROVE  Contents(b) = data[e]
  <1>1. \A i \in Entry : Cached(b, i) => i = e
    BY DEF EntriesDiffer, Cached, Hit
  <1>2. (CHOOSE i \in Entry : Cached(b, i)) = e
    BY <1>1
  <1> QED
    BY Zenon, <1>2 DEF Contents

LEMMA FoundOnDisk == ASSUME NEW b, \A e \in Entry : ~Cached(b, e)
                     PROVE  Contents(b) = disk[b]
  BY DEF Contents

LEMMA FoundInCacheNext ==
    ASSUME EntriesDiffer', NEW b, NEW e \in Entry, Cached(b, e)'
    PROVE  Contents(b)' = data'[e]
  <1>1. \A i \in Entry : Cached(b, i)' => i = e
    BY DEF EntriesDiffer, Cached, Hit
  <1>2. (CHOOSE i \in Entry : Cached(b, i)') = e
    BY <1>1
  <1> QED
    BY Zenon, <1>2 DEF Contents

LEMMA FoundOnDiskNext == ASSUME NEW b, \A e \in Entry : ~Cached(b, e)'
                         PROVE  Contents(b)' = disk'[b]
  BY DEF Contents

\* Once the sync has passed the last entry, no cached block differs from
\* the disk.
LEMMA SyncedIsOnDisk == IInv => SyncIsDurable
  <1> SUFFICES ASSUME IInv, pc = "sync", ent = Entries + 1,
                      NEW b \in Block \ damaged
               PROVE  Contents(b) = disk[b]
    BY DEF SyncIsDurable
  <1>1. ASSUME NEW e \in Entry, Cached(b, e)
        PROVE  Contents(b) = disk[b]
    <2>1. valid[e] /\ block[e] = b /\ e < ent
      BY <1>1, CacheAssumption DEF Cached, Hit, Entry
    <2>2. ~dirty[e]
      BY <2>1 DEF IInv, CallExact, Syncing
    <2>3. data[e] = disk[b]
      BY <2>1, <2>2 DEF IInv, CleanIsOnDisk
    <2>4. Contents(b) = data[e]
      BY <1>1, FoundInCache DEF IInv
    <2> QED
      BY <2>3, <2>4
  <1> QED
    BY <1>1, FoundOnDisk

-----------------------------------------------------------------------------
(* The cache implements BlockStore                                         *)

\* A block reads the same after a step that leaves its copies alone.
LEMMA Elsewhere ==
    ASSUME EntriesDiffer, EntriesDiffer', NEW b \in Block, disk'[b] = disk[b],
           \A e \in Entry : Cached(b, e)' <=> Cached(b, e),
           \A e \in Entry : Cached(b, e) => data'[e] = data[e]
    PROVE  Contents(b)' = Contents(b)
  <1>1. CASE \E e \in Entry : Cached(b, e)
    <2> PICK e \in Entry : Cached(b, e)
      BY <1>1
    <2>1. Contents(b) = data[e] /\ Contents(b)' = data'[e]
      BY FoundInCache, FoundInCacheNext
    <2> QED
      BY <2>1
  <1>2. CASE \A e \in Entry : ~Cached(b, e)
    <2>1. Contents(b) = disk[b] /\ Contents(b)' = disk'[b]
      BY <1>2, FoundOnDisk, FoundOnDiskNext
    <2> QED
      BY <2>1
  <1> QED
    BY <1>1, <1>2

LEMMA MemSame == ASSUME \A b \in Block : Contents(b)' = Contents(b)
                 PROVE  Mem' = Mem
  BY DEF Mem

LEMMA MemExcept ==
    ASSUME NEW c \in Block, NEW x, Contents(c)' = x,
           \A b \in Block \ {c} : Contents(b)' = Contents(b)
    PROVE  Mem' = [Mem EXCEPT ![c] = x]
  BY Zenon DEF Mem

\* No step but those on the data changes what is found, as long as the same
\* entry is being overwritten.
LEMMA MemQuiet ==
    ASSUME EntriesDiffer, EntriesDiffer', UNCHANGED <<disk, block, valid, data>>,
           \A e \in Entry : (pc' = "read" /\ e = ent') <=> (pc = "read" /\ e = ent)
    PROVE  Mem' = Mem
  <1>1. \A b \in Block, e \in Entry : Cached(b, e)' <=> Cached(b, e)
    BY DEF Cached, Hit
  <1>2. \A b \in Block : Contents(b)' = Contents(b)
    BY <1>1, Elsewhere
  <1> QED
    BY <1>2, MemSame

LEMMA RefineInit == Init => Store!Init
  <1> SUFFICES ASSUME Init PROVE Store!Init
    OBVIOUS
  <1>1. \A b \in Block, e \in Entry : ~Cached(b, e)
    BY DEF Init, Nothing, Cached, Hit
  <1>2. disk \in [Block -> [Sector -> Value]]
    BY CacheAssumption DEF Init
  <1>3. Mem = disk
    BY <1>1, <1>2, FoundOnDisk DEF Mem
  <1> QED
    BY <1>2, <1>3 DEF Init, Store!Init, Store!Contents

\* A write through a pointer into the cache, Modify's or StoreHeld's.
LEMMA RefineWrite ==
    ASSUME IInv, EntriesDiffer', NEW c \in Entry, NEW s \in Sector,
           NEW v \in Value, valid[c], pc # "read", pc' # "read",
           data' = [data EXCEPT ![c][s] = v],
           UNCHANGED <<disk, block, valid, damaged>>
    PROVE  Store!Write(block[c], s, v)
  <1>1. block[c] \in Block /\ data'[c] = [data[c] EXCEPT ![s] = v]
    BY DEF IInv, TypeOK, Cached, Hit
  <1>2. Contents(block[c]) = data[c] /\ Contents(block[c])' = data'[c]
    BY FoundInCache, FoundInCacheNext DEF IInv, Cached, Hit
  <1>3. \A b \in Block \ {block[c]} : Contents(b)' = Contents(b)
    <2> SUFFICES ASSUME NEW b \in Block, b # block[c]
                 PROVE  Contents(b)' = Contents(b)
      OBVIOUS
    <2>1. \A e \in Entry : Cached(b, e)' <=> Cached(b, e)
      BY DEF Cached, Hit
    <2>2. \A e \in Entry : Cached(b, e) => data'[e] = data[e]
      BY DEF Cached, Hit
    <2> QED
      BY <2>1, <2>2, Elsewhere DEF IInv, Cached, Hit
  <1>4. Mem' = [Mem EXCEPT ![block[c]] = data'[c]]
    BY <1>1, <1>2, <1>3, MemExcept
  <1>5. Mem[block[c]] = data[c]
    BY <1>1, <1>2 DEF Mem
  <1>6. Mem' = [Mem EXCEPT ![block[c]][s] = v]
    BY <1>1, <1>4, <1>5
  <1> QED
    BY <1>6 DEF Store!Write

LEMMA RefineMiss ==
    ASSUME IInv, EntriesDiffer', NEW b \in Block, NEW w \in BOOLEAN, GetMiss(b, w)
    PROVE  \/ Store!Next
           \/ UNCHANGED <<Mem, disk, damaged>>
  <1> PICK e \in Entry :
        /\ Victim(e) /\ ent' = e
        /\ pc' = IF valid[e] /\ dirty[e] THEN "write" ELSE "read"
        /\ damaged' = damaged \ Leaves(e)
    BY DEF GetMiss
  <1>1. pc = "idle" /\ UNCHANGED <<disk, block, age, valid, dirty, data>>
    BY DEF GetMiss, MayCall, cache
  <1>2. \A c \in Block : (~valid[e] \/ block[e] # c) => Contents(c)' = Contents(c)
    <2> SUFFICES ASSUME NEW c \in Block, ~valid[e] \/ block[e] # c
                 PROVE  Contents(c)' = Contents(c)
      OBVIOUS
    <2>1. \A i \in Entry : Cached(c, i)' <=> Cached(c, i)
      BY <1>1 DEF Cached, Hit
    <2> QED
      BY Zenon, <1>1, <2>1, Elsewhere DEF IInv
  <1>3. CASE ~valid[e]
    BY <1>1, <1>2, <1>3, MemSame DEF Leaves
  <1>4. CASE valid[e] /\ dirty[e]
    <2>1. Mem' = Mem
      BY <1>1, <1>4, MemQuiet DEF IInv
    <2>2. Store!Keep(block[e])
      BY <1>1, <1>4, <2>1 DEF Store!Keep, Leaves
    <2> QED
      BY <2>2 DEF Store!Next, IInv, TypeOK
  <1>5. CASE valid[e] /\ ~dirty[e]
    <2> PICK c \in Block : c = block[e]
      BY DEF IInv, TypeOK
    <2>1. c \in Block /\ Cached(c, e)
      BY <1>1, <1>5 DEF Cached, Hit
    <2>2. Contents(c) = data[e]
      BY Zenon, <2>1, FoundInCache DEF IInv
    <2>3. Contents(c)' = disk[c]
      <3>1. \A i \in Entry : ~Cached(c, i)'
        BY <1>1, <1>5 DEF Cached, Hit, EntriesDiffer
      <3> QED
        BY Zenon, <1>1, <3>1, <2>1, FoundOnDiskNext
    <2>4. Mem' = [Mem EXCEPT ![c] = disk[c]]
      BY <1>2, <2>1, <2>3, MemExcept
    <2>5. CASE c \in damaged
      <3>1. Store!Reread(c)
        BY <1>1, <1>5, <2>4, <2>5 DEF Store!Reread, Leaves
      <3> QED
        BY <2>1, <3>1 DEF Store!Next
    <2>6. CASE c \notin damaged
      <3>1. data[e] = disk[c]
        BY <1>1, <1>5, <2>6 DEF CleanIsOnDisk, IInv
      <3>2. Mem' = Mem
        BY <1>2, <2>2, <2>3, <3>1, MemSame
      <3> QED
        BY <1>1, <1>5, <2>6, <3>2 DEF Leaves
    <2> QED
      BY <2>5, <2>6
  <1> QED
    BY <1>3, <1>4, <1>5

LEMMA RefineGiveUp ==
    ASSUME IInv, EntriesDiffer', GiveUp
    PROVE  \/ Store!Next
           \/ UNCHANGED <<Mem, disk, damaged>>
  <1>1. ent \in Entry /\ pc' = "idle" /\ damaged' = damaged \cup Damage
          /\ UNCHANGED <<disk, block, valid, dirty, data>>
    BY Zenon DEF GiveUp, CallExact, cache, IInv
  <1>2. CASE pc = "write"
    <2>1. Mem' = Mem
      BY <1>1, <1>2, MemQuiet DEF IInv
    <2> QED
      BY <1>1, <1>2, <2>1 DEF Damage
  <1>3. CASE pc = "read"
    <2>1. \A c \in Block : (~valid[ent] \/ block[ent] # c) =>
             Contents(c)' = Contents(c)
      <3> SUFFICES ASSUME NEW c \in Block, ~valid[ent] \/ block[ent] # c
                   PROVE  Contents(c)' = Contents(c)
        OBVIOUS
      <3>1. \A i \in Entry : Cached(c, i)' <=> Cached(c, i)
        BY <1>1 DEF Cached, Hit
      <3> QED
        BY <1>1, <3>1, Elsewhere DEF IInv
    <2>2. CASE ~valid[ent]
      BY <1>1, <2>1, <2>2, MemSame DEF Damage
    <2>3. CASE valid[ent]
      <3> PICK c \in Block : c = block[ent]
        BY <1>1 DEF IInv, TypeOK
      <3>1. c \in Block /\ data[ent] \in [Sector -> Value]
        BY <1>1 DEF IInv, TypeOK
      <3>2. Contents(c) = disk[c]
        <4>1. \A i \in Entry : ~Cached(c, i)
          BY <1>1, <1>3, <2>3 DEF Cached, Hit, EntriesDiffer
        <4> QED
          BY <3>1, <4>1, FoundOnDisk
      <3>3. Contents(c)' = data[ent]
        <4>1. PICK i \in Entry : i = ent
          BY <1>1
        <4>2. Cached(c, i)'
          BY <1>1, <2>3, <4>1 DEF Cached, Hit
        <4>3. Contents(c)' = data'[i]
          BY <4>2, FoundInCacheNext
        <4> QED
          BY <1>1, <4>1, <4>3
      <3>4. CASE data[ent] = disk[c]
        <4>1. Mem' = Mem
          BY <2>1, <3>2, <3>3, <3>4, MemSame
        <4> QED
          BY <1>1, <3>4, <4>1 DEF Damage
      <3>5. CASE data[ent] # disk[c]
        <4>1. Mem[c] = disk[c]
          BY <3>1, <3>2 DEF Mem
        <4>2. Mem' = [Mem EXCEPT ![c] = data[ent]]
          BY <2>1, <3>1, <3>3, MemExcept
        <4>3. damaged' = damaged \cup {c}
          BY <1>1, <1>3, <2>3, <3>5 DEF Damage
        <4>4. Store!FailedRead(c)
          BY Zenon, <1>1, <3>1, <4>1, <4>2, <4>3 DEF Store!FailedRead
        <4> QED
          BY <3>1, <4>4 DEF Store!Next
      <3> QED
        BY <3>4, <3>5
    <2> QED
      BY <2>2, <2>3
  <1> QED
    BY <1>2, <1>3 DEF GiveUp

LEMMA RefineNext ==
    ASSUME IInv, IInv', [Next]_vars
    PROVE  Store!Next \/ UNCHANGED <<Mem, disk, damaged>>
  <1>1. ASSUME NEW b \in Block, NEW w \in BOOLEAN, GetHit(b, w)
        PROVE  Store!Next \/ UNCHANGED <<Mem, disk, damaged>>
    <2>1. UNCHANGED <<disk, block, valid, data>> /\ pc = "idle" /\ pc' = "got"
            /\ damaged' = IF w THEN damaged \ {b} ELSE damaged
      BY <1>1 DEF GetHit, MayCall
    <2>2. Mem' = Mem
      BY <2>1, MemQuiet DEF IInv
    <2>3. w => Store!Keep(b)
      BY <2>1, <2>2 DEF Store!Keep
    <2> QED
      BY <2>1, <2>2, <2>3 DEF Store!Next
  <1>2. ASSUME NEW b \in Block, NEW w \in BOOLEAN, GetMiss(b, w)
        PROVE  Store!Next \/ UNCHANGED <<Mem, disk, damaged>>
    BY <1>2, RefineMiss DEF IInv
  <1>3. CASE WriteSector
    <2>1. ent \in Entry /\ sec \in Sector /\ pc = "write" /\ valid[ent]
            /\ UNCHANGED <<block, valid, data, pc, ent, damaged>>
            /\ disk' = [disk EXCEPT ![block[ent]][sec] = data[ent][sec]]
      <3>1. ent \in Entry /\ pc = "write" /\ valid[ent]
        BY <1>3 DEF WriteSector, CallExact, IInv
      <3>2. sec \in Sector
        BY <1>3, CacheAssumption DEF WriteSector, Sector, IInv, TypeOK
      <3> QED
        BY <1>3, <3>1, <3>2 DEF WriteSector, cache
    <2> PICK c \in Block : c = block[ent]
      BY <2>1 DEF IInv, TypeOK
    <2>2. Cached(c, ent) /\ Cached(c, ent)'
      BY <2>1 DEF Cached, Hit
    <2>3. Contents(c) = data[ent]
      BY <2>1, <2>2, FoundInCache DEF IInv
    <2>4. \A b \in Block : Contents(b)' = Contents(b)
      <3> SUFFICES ASSUME NEW b \in Block PROVE Contents(b)' = Contents(b)
        OBVIOUS
      <3>1. CASE b = c
        <4>1. PICK i \in Entry : i = ent
          BY <2>1
        <4>2. Cached(c, i)'
          BY <2>1, <4>1 DEF Cached, Hit
        <4>3. Contents(c)' = data'[i]
          BY <4>2, FoundInCacheNext DEF IInv
        <4> QED
          BY <2>1, <2>3, <3>1, <4>1, <4>3
      <3>2. CASE b # c
        <4>1. \A i \in Entry : Cached(b, i)' <=> Cached(b, i)
          BY <2>1 DEF Cached, Hit
        <4>2. disk'[b] = disk[b]
          BY <2>1, <3>2
        <4> QED
          BY <2>1, <4>1, <4>2, Elsewhere DEF IInv
      <3> QED
        BY <3>1, <3>2
    <2>5. Mem' = Mem
      BY <2>4, MemSame
    <2>6. Mem[c][sec] = data[ent][sec]
      BY <2>3 DEF Mem
    <2>7. Store!WriteBack(c, sec)
      BY <2>1, <2>5, <2>6 DEF Store!WriteBack
    <2> QED
      BY <2>1, <2>7 DEF Store!Next
  <1>4. CASE ReadSector
    <2>1. ent \in Entry /\ pc = "read" /\ data' = [data EXCEPT ![ent][sec] = disk[blk][sec]]
            /\ UNCHANGED <<disk, block, valid, pc, ent, damaged>>
      BY <1>4 DEF ReadSector, CallExact, IInv
    <2>2. \A b \in Block : Contents(b)' = Contents(b)
      <3> SUFFICES ASSUME NEW b \in Block PROVE Contents(b)' = Contents(b)
        OBVIOUS
      <3>1. \A i \in Entry : Cached(b, i)' <=> Cached(b, i)
        BY <2>1 DEF Cached, Hit
      <3>2. \A i \in Entry : Cached(b, i) => data'[i] = data[i]
        BY <2>1 DEF Cached
      <3> QED
        BY <2>1, <3>1, <3>2, Elsewhere DEF IInv
    <2> QED
      BY <2>1, <2>2, MemSame
  <1>5. CASE GiveUp
    BY <1>5, RefineGiveUp DEF IInv
  <1>6. CASE Flushed
    <2>1. ent \in Entry /\ pc = "write" /\ valid[ent] /\ dirty[ent]
            /\ UNCHANGED <<disk, block, valid, data, damaged>>
      BY Zenon, <1>6 DEF Flushed, CallExact, IInv
    <2>2. CASE job = "get"
      <3>1. pc' = "read" /\ ent' = ent
        BY <1>6, <2>2 DEF Flushed
      <3>2. data[ent] = disk[block[ent]]
        <4>1. \A t \in Sector : t < sec
          BY <1>6, CacheAssumption DEF Flushed, Sector
        <4>2. \A t \in Sector : disk[block[ent]][t] = data[ent][t]
          BY Zenon, <2>1, <4>1 DEF CallExact, IInv
        <4>3. data[ent] \in [Sector -> Value]
                /\ disk[block[ent]] \in [Sector -> Value]
          BY <2>1 DEF IInv, TypeOK
        <4> QED
          BY <4>2, <4>3
      <3>3. \A b \in Block : Contents(b)' = Contents(b)
        <4> SUFFICES ASSUME NEW b \in Block PROVE Contents(b)' = Contents(b)
          OBVIOUS
        <4>1. CASE b = block[ent]
          <5>1. Contents(b) = data[ent]
            <6>1. Cached(b, ent)
              BY <2>1, <4>1 DEF Cached, Hit
            <6> QED
              BY Zenon, <2>1, <6>1, FoundInCache DEF IInv
          <5>2. \A i \in Entry : ~Cached(b, i)'
            BY <2>1, <3>1, <4>1 DEF Cached, Hit, EntriesDiffer, IInv
          <5>3. Contents(b)' = disk'[b]
            BY <5>2, FoundOnDiskNext
          <5> QED
            BY <2>1, <3>2, <4>1, <5>1, <5>3
        <4>2. CASE b # block[ent]
          <5>1. \A i \in Entry : Cached(b, i)' <=> Cached(b, i)
            BY <2>1, <3>1, <4>2 DEF Cached, Hit
          <5> QED
            BY <2>1, <5>1, Elsewhere DEF IInv
        <4> QED
          BY <4>1, <4>2
      <3> QED
        BY <2>1, <3>3, MemSame
    <2>3. CASE job = "sync"
      <3>1. pc' = "sync"
        BY <1>6, <2>3 DEF Flushed
      <3> QED
        BY <2>1, <3>1, MemQuiet DEF IInv
    <2> QED
      BY <2>2, <2>3 DEF IInv, TypeOK
  <1>7. CASE GetRead
    <2>1. ent \in Entry /\ pc = "read" /\ pc' = "got" /\ ent' = ent
            /\ UNCHANGED <<disk, data, damaged>>
            /\ block' = [block EXCEPT ![ent] = blk]
            /\ valid' = [valid EXCEPT ![ent] = TRUE]
            /\ \A i \in Entry : ~(valid[i] /\ block[i] = blk)
      BY Zenon, <1>7 DEF GetRead, CallExact, Getting, Hit, IInv
    <2>2. data[ent] = disk[blk]
      <3>1. \A t \in Sector : t < sec
        BY <1>7, CacheAssumption DEF GetRead, Sector
      <3>2. \A t \in Sector : data[ent][t] = disk[blk][t]
        BY Zenon, <2>1, <3>1 DEF CallExact, IInv
      <3>3. data[ent] \in [Sector -> Value] /\ disk[blk] \in [Sector -> Value]
        BY <2>1 DEF IInv, TypeOK
      <3> QED
        BY <3>2, <3>3
    <2>3. \A b \in Block : Contents(b)' = Contents(b)
      <3> SUFFICES ASSUME NEW b \in Block PROVE Contents(b)' = Contents(b)
        OBVIOUS
      <3>1. CASE b = blk
        <4>1. \A i \in Entry : ~Cached(b, i)
          BY <2>1, <3>1 DEF Cached, Hit
        <4>2. Contents(b) = disk[b]
          BY <4>1, FoundOnDisk
        <4>3. PICK i \in Entry : i = ent
          BY <2>1
        <4>4. Cached(b, i)'
          BY <2>1, <3>1, <4>3 DEF Cached, Hit, IInv, TypeOK
        <4>5. Contents(b)' = data'[i]
          BY <4>4, FoundInCacheNext DEF IInv
        <4> QED
          BY Zenon, <2>1, <2>2, <3>1, <4>2, <4>3, <4>5
      <3>2. CASE b # blk
        <4>1. \A i \in Entry : Cached(b, i)' <=> Cached(b, i)
          BY <2>1, <3>2 DEF Cached, Hit, IInv, TypeOK
        <4> QED
          BY <2>1, <4>1, Elsewhere DEF IInv
      <3> QED
        BY <3>1, <3>2
    <2> QED
      BY <2>1, <2>3, MemSame
  <1>8. ASSUME NEW s \in Sector, NEW v \in Value, Modify(s, v)
        PROVE  Store!Next
    <2>1. ent \in Entry /\ valid[ent] /\ pc # "read" /\ pc' # "read"
            /\ data' = [data EXCEPT ![ent][s] = v]
            /\ UNCHANGED <<disk, block, valid, damaged>>
      BY <1>8 DEF Modify, Return, CallExact, Hit, IInv
    <2>2. PICK c \in Entry : c = ent
      BY <2>1
    <2>3. Store!Write(block[c], s, v)
      BY Zenon, <2>1, <2>2, RefineWrite DEF IInv
    <2> QED
      BY <2>3 DEF Store!Next, IInv, TypeOK
  <1>9. ASSUME NEW s \in Sector, NEW v \in Value, StoreHeld(s, v)
        PROVE  Store!Next
    <2>1. held \in Entry /\ valid[held] /\ pc # "read" /\ pc' # "read"
            /\ data' = [data EXCEPT ![held][s] = v]
            /\ UNCHANGED <<disk, block, valid, damaged>>
      BY <1>9 DEF StoreHeld, HeldIsRecent, Hit, IInv
    <2>2. PICK c \in Entry : c = held
      BY <2>1
    <2>3. Store!Write(block[c], s, v)
      BY Zenon, <2>1, <2>2, RefineWrite DEF IInv
    <2> QED
      BY <2>3 DEF Store!Next, IInv, TypeOK
  <1>10. CASE Restart
    <2>1. \A b \in Block, e \in Entry : ~Cached(b, e)'
      BY <1>10 DEF Restart, Nothing, Cached, Hit
    <2>2. \A b \in Block : Contents(b)' = disk'[b]
      BY <2>1, FoundOnDiskNext
    <2>3. Mem' = disk
      BY <1>10, <2>2 DEF Restart, Mem, IInv, TypeOK
    <2> QED
      BY <1>10, <2>3 DEF Restart, Store!Restart, Store!Next
  <1>11. CASE \/ Retry \/ Release \/ Hold \/ DropHeld \/ SyncCall \/ SyncEntry
              \/ SyncReturns \/ UNCHANGED vars
    <2>1. /\ UNCHANGED <<disk, block, valid, data, damaged>>
          /\ \A e \in Entry : (pc' = "read" /\ e = ent') <=> (pc = "read" /\ e = ent)
      BY Zenon, <1>11 DEF Retry, Release, Hold, DropHeld, SyncCall, SyncEntry,
        SyncReturns, Return, vars, cache
    <2> QED
      BY <2>1, MemQuiet DEF IInv
  <1> QED
    BY <1>1, <1>2, <1>3, <1>4, <1>5, <1>6, <1>7, <1>8, <1>9, <1>10, <1>11
    DEF Next

-----------------------------------------------------------------------------
(* Theorems                                                                *)

INSTANCE FiniteSetTheorems

\* The library's facts about finite sets, in the form the steps use them.
LEMMA CountFactsHold == CountFacts
  <1>1. IsFiniteSet(Entry) /\ Cardinality(Entry) = Entries
    BY CacheAssumption, FS_Interval DEF Entry
  <1>2. ASSUME NEW S \in SUBSET Entry
        PROVE  IsFiniteSet(S) /\ Cardinality(S) \in Nat
    BY <1>1, FS_Subset, FS_CardinalityType
  <1>3. ASSUME NEW e \in Entry
        PROVE  Cardinality(Entry \ {e}) = Entries - 1
    BY <1>1, FS_RemoveElement
  <1>4. ASSUME NEW S \in SUBSET Entry, NEW T \in SUBSET Entry, NEW e \in Entry,
               T \subseteq S \cup {e}
        PROVE  Cardinality(T) <= Cardinality(S) + 1
    <2>1. IsFiniteSet(S \cup {e}) /\ S \cup {e} \in SUBSET Entry
      BY <1>2, FS_AddElement
    <2>2. Cardinality(S \cup {e}) =
            IF e \in S THEN Cardinality(S) ELSE Cardinality(S) + 1
      BY <1>2, FS_AddElement
    <2>3. Cardinality(T) <= Cardinality(S \cup {e})
      <3>1. T \in SUBSET (S \cup {e})
        BY <1>4
      <3> QED
        BY <2>1, <3>1, FS_Subset
    <2>4. Cardinality(S) \in Nat /\ Cardinality(T) \in Nat
            /\ Cardinality(S \cup {e}) \in Nat
      BY <1>2, <2>1
    <2> QED
      BY <2>2, <2>3, <2>4
  <1> QED
    BY <1>2, <1>3, <1>4, FS_EmptySet DEF CountFacts

\* The inductive invariant holds in every reachable state.
LEMMA Invariance == Spec => []IInv
  <1>1. IInv /\ [Next]_vars => IInv'
    BY CountFactsHold, InvNext
  <1> QED
    BY InvInit, <1>1, PTL DEF Spec

\* The fields of the cache, of the transfer and of the kept pointer always
\* have their types; cache_age stays below its bound.
THEOREM CacheTypes == Spec => []TypeOK
  <1>1. IInv => TypeOK
    BY DEF IInv
  <1> QED
    BY <1>1, Invariance, PTL

\* A pointer that inode_data_block keeps while it allocates a block still
\* leads to the entry of its index block, for any cache size, provided that
\* fewer calls of cache_get lie between than the cache has entries.
THEOREM KeptPointer == Spec => []HeldIsCurrent
  <1>1. IInv => HeldIsCurrent
    BY DEF IInv, HeldIsRecent, HeldIsCurrent
  <1> QED
    BY <1>1, Invariance, PTL

\* A sync that reports success has put every block on the disk, save those
\* whose copy a failed read has overwritten.
THEOREM SyncDurability == Spec => []SyncIsDurable
  BY SyncedIsOnDisk, Invariance, PTL

\* The cache and the disk driver below it implement the abstract array of
\* blocks: every step of a call, of a transfer and of a retry is a step of
\* the array or invisible, for any cache size, block size and number of
\* attempts.
THEOREM CacheTransparent == Spec => StoreSpec
  <1>1. IInv /\ IInv' /\ [Next]_vars => [Store!Next]_<<Mem, disk, damaged>>
    BY RefineNext
  <1> QED
    BY RefineInit, <1>1, Invariance, PTL DEF Spec, StoreSpec, Store!Spec
=============================================================================
