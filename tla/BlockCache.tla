----------------------------- MODULE BlockCache -----------------------------
(***************************************************************************)
(* The write-back buffer cache of the file system (fs.c) on the driver of  *)
(* an ATA disk (disk.c): a block is transferred sector by sector, any      *)
(* sector may fail or time out, and a transfer is tried three times.  The  *)
(* power may go at any step.                                               *)
(*                                                                         *)
(* The rest of fs.c uses the cache through the pointers cache_get returns. *)
(* Most are used at once (Modify, Release); inode_data_block keeps one, to *)
(* an index block, while it allocates a block, which calls cache_get for   *)
(* the bitmap blocks and for the new block (Hold ... StoreHeld).           *)
(***************************************************************************)
EXTENDS Integers, FiniteSets

CONSTANTS
    Block,      \* block numbers below total_blocks
    Written,    \* the blocks that requests modify
    Entries,    \* FS_CACHE_ENTRIES
    Sectors,    \* FS_SECTORS_PER_BLOCK
    Value,      \* what a sector can contain
    Zero,       \* a sector of zeroes
    Image,      \* what the disk may contain when the kernel starts
    Tries,      \* attempts of disk_*_sector_checked: 3
    Between,    \* cache_get calls between Hold and StoreHeld
    MaxAge      \* bound on cache_age, 2^32 - 1 in the code

Entry == 1..Entries
None == 0       \* no entry
Sector == 0 .. (Sectors - 1)

\* The code has no check of Between < Entries: it holds for file systems
\* of at most FS_CACHE_ENTRIES - 2 bitmap blocks (1.75 GiB).
ASSUME CacheAssumption ==
    /\ Entries \in Nat \ {0} /\ Sectors \in Nat \ {0} /\ Tries \in Nat \ {0}
    /\ Between \in Nat /\ MaxAge \in Nat
    /\ Between < Entries
    /\ Block \subseteq Nat /\ 0 \in Block /\ Written \subseteq Block
    /\ Zero \in Value /\ Image \subseteq [Block -> [Sector -> Value]]

VARIABLES
    disk,       \* the sectors of the medium
    block, age, valid, dirty, data,     \* the fields of cache[]
    cache_age,
    pc,         \* the step of the call in progress
    job,        \* what the transfer is for: "get" or "sync"
    blk, wr,    \* the arguments of cache_get
    ent,        \* the entry it works on
    sec, try,   \* the sector of the transfer and the attempt
    held,       \* the entry of the pointer kept, or None
    index,      \* the block it was obtained for
    left,       \* the calls still made before its use
    damaged     \* (history) clean blocks whose copy a failed read overwrote

cache == <<block, age, valid, dirty, data>>
vars == <<disk, cache, cache_age, pc, job, blk, wr, ent, sec, try, held, index,
          left, damaged>>

\* cache_drop: memset(cache, 0).
Nothing(zero) == [e \in Entry |-> zero]
NoData == [s \in Sector |-> Zero]

Init ==
    /\ disk \in Image
    /\ block = Nothing(0) /\ age = Nothing(0) /\ valid = Nothing(FALSE)
    /\ dirty = Nothing(FALSE) /\ data = Nothing(NoData) /\ cache_age = 0
    /\ pc = "idle" /\ job = "get" /\ blk = 0 /\ wr = FALSE
    /\ ent = None /\ sec = 0 /\ try = 1
    /\ held = None /\ index = 0 /\ left = 0 /\ damaged = {}

-----------------------------------------------------------------------------
(* cache_get                                                               *)

Hit(b, e) == valid[e] /\ block[e] = b

\* Mutant: a full cache gives up its first entry.
Victim_first(e) ==
    IF \E i \in Entry : ~valid[i]
    THEN ~valid[e] /\ \A i \in Entry : i > e => valid[i]
    ELSE e = 1

\* The last unused entry (its age is 0), else the one used least recently.
Victim(e) ==
    IF \E i \in Entry : ~valid[i]
    THEN ~valid[e] /\ \A i \in Entry : i > e => valid[i]
    ELSE \A i \in Entry : age[e] <= age[i]

MayCall(b, w) ==
    /\ pc = "idle" /\ cache_age < MaxAge
    /\ held # None => left > 0
    /\ w => b \in Written
Spent == left' = IF held # None THEN left - 1 ELSE 0

GetHit(b, w) ==
    \E e \in Entry :
        /\ MayCall(b, w) /\ Hit(b, e)
        /\ age' = [age EXCEPT ![e] = cache_age + 1]
        /\ dirty' = [dirty EXCEPT ![e] = @ \/ w]
        /\ cache_age' = cache_age + 1
        /\ pc' = "got" /\ blk' = b /\ wr' = w /\ ent' = e
        /\ Spent
        /\ damaged' = IF w THEN damaged \ {b} ELSE damaged
        /\ UNCHANGED <<disk, block, valid, data, job, sec, try, held, index>>

\* The block that a reader no longer finds in entry e.
Leaves(e) == IF valid[e] THEN {block[e]} ELSE {}

\* Mutant: the entry's old block is not written back.
GetMiss_drops(b, w) ==
    \E e \in Entry :
        /\ MayCall(b, w) /\ \A i \in Entry : ~Hit(b, i)
        /\ Victim(e)
        /\ pc' = "read"
        /\ job' = "get" /\ blk' = b /\ wr' = w /\ ent' = e
        /\ sec' = 0 /\ try' = 1
        /\ Spent
        /\ damaged' = damaged \ Leaves(e)
        /\ UNCHANGED <<disk, cache, cache_age, held, index>>

GetMiss(b, w) ==
    \E e \in Entry :
        /\ MayCall(b, w) /\ \A i \in Entry : ~Hit(b, i)
        /\ Victim(e)
        /\ pc' = IF valid[e] /\ dirty[e] THEN "write" ELSE "read"
        /\ job' = "get" /\ blk' = b /\ wr' = w /\ ent' = e
        /\ sec' = 0 /\ try' = 1
        /\ Spent
        /\ damaged' = damaged \ Leaves(e)
        /\ UNCHANGED <<disk, cache, cache_age, held, index>>

-----------------------------------------------------------------------------
(* disk_write_sector_checked, disk_read_sector_checked                     *)

WriteSector ==
    /\ pc = "write" /\ sec < Sectors
    /\ disk' = [disk EXCEPT ![block[ent]][sec] = data[ent][sec]]
    /\ sec' = sec + 1
    /\ UNCHANGED <<cache, cache_age, pc, job, blk, wr, ent, try, held, index,
                   left, damaged>>

ReadSector ==
    /\ pc = "read" /\ sec < Sectors
    /\ data' = [data EXCEPT ![ent][sec] = disk[blk][sec]]
    /\ sec' = sec + 1
    /\ UNCHANGED <<disk, block, age, valid, dirty, cache_age, pc, job, blk, wr,
                   ent, try, held, index, left, damaged>>

\* An error or a timeout: of the device, of a sector, or of the final flush
\* of a write.  The next attempt starts from the first sector.
Retry ==
    /\ pc \in {"write", "read"} /\ (pc = "read" => sec < Sectors)
    /\ try < Tries
    /\ try' = try + 1 /\ sec' = 0
    /\ UNCHANGED <<disk, cache, cache_age, pc, job, blk, wr, ent, held, index,
                   left, damaged>>

\* The last attempt failed: cache_get returns 0, cache_sync -1.  An entry
\* that was to receive a block remains valid for the block it held before,
\* with some of its sectors overwritten.
Damage ==
    IF /\ pc = "read" /\ valid[ent]
       /\ data[ent] # disk[block[ent]]
    THEN {block[ent]} ELSE {}

\* Mutant: cache_sync goes on and reports success.
GiveUp_goes_on ==
    /\ pc \in {"write", "read"} /\ (pc = "read" => sec < Sectors)
    /\ try = Tries
    /\ IF job = "sync" THEN pc' = "sync" /\ ent' = ent + 1
       ELSE pc' = "idle" /\ ent' = None
    /\ sec' = 0 /\ try' = 1
    /\ blk' = 0 /\ wr' = FALSE
    /\ damaged' = damaged \cup Damage
    /\ UNCHANGED <<disk, cache, cache_age, job, held, index, left>>

GiveUp ==
    /\ pc \in {"write", "read"} /\ (pc = "read" => sec < Sectors)
    /\ try = Tries
    /\ pc' = "idle" /\ sec' = 0 /\ try' = 1 /\ ent' = None
    /\ blk' = 0 /\ wr' = FALSE
    /\ damaged' = damaged \cup Damage
    /\ UNCHANGED <<disk, cache, cache_age, job, held, index, left>>

\* cache_flush_entry ends; cache_get reads the new block into the entry,
\* cache_sync goes on to the next entry.
Flushed ==
    /\ pc = "write" /\ sec = Sectors
    /\ dirty' = [dirty EXCEPT ![ent] = FALSE]
    /\ pc' = IF job = "get" THEN "read" ELSE "sync"
    /\ ent' = IF job = "get" THEN ent ELSE ent + 1
    /\ sec' = 0 /\ try' = 1
    /\ UNCHANGED <<disk, block, age, valid, data, cache_age, job, blk, wr,
                   held, index, left, damaged>>

GetRead ==
    /\ pc = "read" /\ sec = Sectors
    /\ block' = [block EXCEPT ![ent] = blk]
    /\ valid' = [valid EXCEPT ![ent] = TRUE]
    /\ dirty' = [dirty EXCEPT ![ent] = wr]
    /\ age' = [age EXCEPT ![ent] = cache_age + 1]
    /\ cache_age' = cache_age + 1
    /\ pc' = "got" /\ sec' = 0 /\ try' = 1
    /\ UNCHANGED <<disk, data, job, blk, wr, ent, held, index, left, damaged>>

-----------------------------------------------------------------------------
(* The users of the pointer                                                *)

Return == pc' = "idle" /\ blk' = 0 /\ wr' = FALSE /\ ent' = None

Modify(s, v) ==
    /\ pc = "got" /\ wr
    /\ data' = [data EXCEPT ![ent][s] = v]
    /\ Return
    /\ UNCHANGED <<disk, block, age, valid, dirty, cache_age, job, sec, try,
                   held, index, left, damaged>>

Release ==
    /\ pc = "got" /\ Return
    /\ UNCHANGED <<disk, cache, cache_age, job, sec, try, held, index, left,
                   damaged>>

\* inode_data_block keeps the pointer to an index block ...
Hold ==
    /\ pc = "got" /\ wr /\ held = None
    /\ held' = ent /\ index' = blk /\ left' = Between
    /\ Return
    /\ UNCHANGED <<disk, cache, cache_age, job, sec, try, damaged>>

\* ... and stores the number of the new block through it, or gives up.
StoreHeld(s, v) ==
    /\ pc = "idle" /\ held # None
    /\ data' = [data EXCEPT ![held][s] = v]
    /\ held' = None /\ index' = 0 /\ left' = 0
    /\ UNCHANGED <<disk, block, age, valid, dirty, cache_age, pc, job, blk, wr,
                   ent, sec, try, damaged>>
DropHeld ==
    /\ pc = "idle" /\ held # None
    /\ held' = None /\ index' = 0 /\ left' = 0
    /\ UNCHANGED <<disk, cache, cache_age, pc, job, blk, wr, ent, sec, try,
                   damaged>>

-----------------------------------------------------------------------------
(* cache_sync; a restart                                                   *)

SyncCall ==
    /\ pc = "idle" /\ held = None
    /\ pc' = "sync" /\ job' = "sync" /\ ent' = 1
    /\ UNCHANGED <<disk, cache, cache_age, blk, wr, sec, try, held, index,
                   left, damaged>>

SyncEntry ==
    /\ pc = "sync" /\ ent \in Entry
    /\ IF valid[ent] /\ dirty[ent]
       THEN pc' = "write" /\ UNCHANGED ent
       ELSE ent' = ent + 1 /\ UNCHANGED pc
    /\ UNCHANGED <<disk, cache, cache_age, job, blk, wr, sec, try, held,
                   index, left, damaged>>

SyncReturns ==
    /\ pc = "sync" /\ ent = Entries + 1
    /\ Return /\ job' = "get"
    /\ UNCHANGED <<disk, cache, cache_age, sec, try, held, index, left,
                   damaged>>

\* The power goes at any moment: nothing survives in memory.
Restart ==
    /\ block' = Nothing(0) /\ age' = Nothing(0) /\ valid' = Nothing(FALSE)
    /\ dirty' = Nothing(FALSE) /\ data' = Nothing(NoData) /\ cache_age' = 0
    /\ pc' = "idle" /\ job' = "get" /\ blk' = 0 /\ wr' = FALSE
    /\ ent' = None /\ sec' = 0 /\ try' = 1
    /\ held' = None /\ index' = 0 /\ left' = 0 /\ damaged' = {}
    /\ UNCHANGED disk

Next ==
    \/ \E b \in Block, w \in BOOLEAN : GetHit(b, w) \/ GetMiss(b, w)
    \/ WriteSector \/ ReadSector \/ Retry \/ GiveUp \/ Flushed \/ GetRead
    \/ \E s \in Sector, v \in Value : Modify(s, v) \/ StoreHeld(s, v)
    \/ Release \/ Hold \/ DropHeld
    \/ SyncCall \/ SyncEntry \/ SyncReturns
    \/ Restart

Spec == Init /\ [][Next]_vars

-----------------------------------------------------------------------------
(* Properties                                                              *)

TypeOK ==
    /\ disk \in [Block -> [Sector -> Value]]
    /\ block \in [Entry -> Block] /\ age \in [Entry -> Nat]
    /\ valid \in [Entry -> BOOLEAN] /\ dirty \in [Entry -> BOOLEAN]
    /\ data \in [Entry -> [Sector -> Value]]
    /\ cache_age \in 0..MaxAge
    /\ pc \in {"idle", "write", "read", "got", "sync"}
    /\ job \in {"get", "sync"}
    /\ blk \in Block /\ wr \in BOOLEAN
    /\ ent \in 0 .. (Entries + 1)
    /\ sec \in 0..Sectors /\ try \in 1..Tries
    /\ held \in 0..Entries /\ index \in Block
    /\ left \in 0..Between
    /\ damaged \subseteq Block

\* What a reader of block b finds.  While an entry is being overwritten by
\* the block read into it, its old block is the clean copy on the disk.
Cached(b, e) == Hit(b, e) /\ ~(pc = "read" /\ e = ent)
Contents(b) ==
    IF \E e \in Entry : Cached(b, e)
    THEN data[CHOOSE e \in Entry : Cached(b, e)]
    ELSE disk[b]
Mem == [b \in Block |-> Contents(b)]

\* The cache is an array of blocks: a block reads as it was last written,
\* whatever was evicted, read again, retried or written back in between, and
\* the disk only ever receives what a reader finds at that moment.  Only the
\* failure of all attempts to read a block (fs.c:67) costs more.
Store == INSTANCE BlockStore WITH
    mem <- Mem,
    disk <- disk,
    spoilt <- damaged,
    Block <- Block, Sector <- Sector, Value <- Value
StoreSpec == Store!Spec

\* A pointer that inode_data_block keeps over the allocation of a block is
\* still the pointer to that block when the new number is stored through it,
\* and the entry is still marked dirty.
HeldIsCurrent ==
    held # None => Hit(index, held) /\ dirty[held]

\* When cache_sync reports success every block is on the disk as a reader
\* finds it, save those whose copy a failed read has spoilt: the requests
\* that wait for it survive a restart.
SyncIsDurable ==
    pc = "sync" /\ ent = Entries + 1 =>
        \A b \in Block \ damaged : Contents(b) = disk[b]

=============================================================================
