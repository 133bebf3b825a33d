----------------------------- MODULE FileSystem -----------------------------
(***************************************************************************)
(* MyFS, the file system of kernel/fs.c, above its block cache: the two    *)
(* allocation bitmaps, the inode table, the index trees that map a file    *)
(* position to a block, the directories, and the table of open references. *)
(* Requests are served one at a time with interrupts off, so a request is  *)
(* sequential; the ones that allocate along an index tree (a write, and a  *)
(* creation that makes a directory grow) take one step per level, because  *)
(* each level can fail for want of a block or for a disk error and the     *)
(* code then undoes what it did.  BlockCache shows that the cache below is *)
(* transparent.  Sizes and positions count cells, which stand for bytes;   *)
(* a block holds BlockSize of them.                                        *)
(***************************************************************************)
EXTENDS Integers, Sequences, FiniteSets

CONSTANTS
  Inode,     \* inode numbers
  Root,      \* FS_ROOT_INODE
  Block,     \* data block numbers, all above 0
  Direct,    \* FS_DIRECT_BLOCKS
  Levels,    \* index trees of an inode: 3 in the code
  Fanout,    \* FS_INDIRECT_ENTRIES
  Slots,     \* directory entries in a block
  Name,      \* names other than "." and ".."
  TooLong,   \* a component of FS_NAME_MAX characters or more
  Depth,     \* components a path can have (32 in canonicalize)
  BlockSize, \* FS_BLOCK_SIZE, in cells
  Length,    \* positions the requests use
  Ranges,    \* the ranges <<from, upto>> of positions they write
  Value,     \* what the requests write
  Stale,     \* a cell of a block that is free
  MaxRefs,   \* openers of one file at a time
  NoFile     \* stands for the absence of a file in the abstract store

ASSUME FileSystemAssumption ==
  /\ Inode \subseteq Nat \ {0} /\ Root \in Inode /\ IsFiniteSet(Inode)
  /\ Block \subseteq Nat \ {0} /\ Block # {} /\ IsFiniteSet(Block)
  /\ Direct \in Nat \ {0} /\ Levels \in 0 .. 3 /\ Fanout \in Nat \ {0}
  /\ Slots \in Nat /\ Slots > 1
  /\ BlockSize \in Nat \ {0} /\ Length \in Nat \ {0}
  /\ Depth \in Nat /\ MaxRefs \in Nat
  /\ Value \subseteq Nat \ {0}

VARIABLES
  bmap,         \* data blocks marked in the block bitmap
  imap,         \* inodes marked in the inode bitmap
  inode,        \* the inode table
  index,        \* contents of blocks used as index blocks
  dirs,         \* contents of blocks used by directories
  data,         \* contents of blocks used by files
  g_open_refs,  \* openers of each inode, in memory only
  synced,       \* nothing of importance waits in the block cache
  pc,           \* where the current request is
  req,          \* its arguments and saved values
  now,          \* its copy of the inode whose tree it extends
  at,           \* the position it is mapping
  level,        \* how many levels down the tree it is
  holder,       \* the index block it stands in
  lost          \* history: blocks marked that nothing leads to

locals == <<pc, req, now, at, level, holder>>
vars == <<bmap, imap, inode, index, dirs, data, g_open_refs, synced, locals,
          lost>>

---------------------------------------------------------------------------
(* Index trees: inode_data_block.  The roots of an inode are its direct    *)
(* blocks and then one tree of each depth from 1 to Levels.                *)

Entry == 0 .. (Fanout - 1)
Slot == 1 .. Slots
Cell == 0 .. (BlockSize - 1)
Roots == 0 .. (Direct + Levels - 1)

LevelOfRoot(r) == IF r < Direct THEN 0 ELSE r - Direct + 1

(* The first position that the tree of depth l maps, and one past the last *)
(* position that any tree maps (FS_MAX_FILE_BLOCKS).                       *)
First(l) == CASE l = 1 -> Direct
              [] l = 2 -> Direct + Fanout
              [] l = 3 -> Direct + Fanout + Fanout ^ 2
              [] l = 4 -> Direct + Fanout + Fanout ^ 2 + Fanout ^ 3

MaxBlocks == First(Levels + 1)

LevelOf(i) == IF i < Direct THEN 0
              ELSE IF i < First(2) THEN 1
              ELSE IF i < First(3) THEN 2 ELSE 3

RootOf(i) == IF i < Direct THEN i ELSE Direct + LevelOf(i) - 1

(* The entry of position i in the index block k levels down a tree of      *)
(* depth l.                                                                *)
Digit(i, l, k) == ((i - First(l)) \div Fanout ^ (l - k)) % Fanout

(* inode_data_block without create: 0 when some level is not there.        *)
Below(b, e) == IF b = 0 THEN 0 ELSE index[b][e]

inode_data_block(ip, i) ==
  CASE LevelOf(i) = 0 -> ip.block[i]
    [] LevelOf(i) = 1 -> Below(ip.block[Direct], Digit(i, 1, 1))
    [] LevelOf(i) = 2 ->
         Below(Below(ip.block[Direct + 1], Digit(i, 2, 1)), Digit(i, 2, 2))
    [] LevelOf(i) = 3 ->
         Below(Below(Below(ip.block[Direct + 2], Digit(i, 3, 1)),
                     Digit(i, 3, 2)), Digit(i, 3, 3))

(* free_single_index_block, free_double_index_tree and so on: the blocks   *)
(* of the tree of depth l below b, b included.                             *)
Tree ==
  LET t[l \in 0 .. Levels, b \in Block] ==
        IF l = 0 THEN {b}
        ELSE {b} \cup UNION {t[l - 1, c] :
                               c \in {index[b][e] : e \in Entry} \ {0}}
  IN  t

free_inode_blocks(ip) ==
  UNION {Tree[LevelOfRoot(r), ip.block[r]] :
           r \in {q \in Roots : ip.block[q] # 0}}

(* The rollback functions: what is reachable at a place where there was    *)
(* nothing before.  They look for such places below an index block that    *)
(* was there already by comparing its entries with themselves.             *)
rollback_added ==
  LET t[l \in 0 .. Levels, o \in Block \cup {0}, n \in Block \cup {0}] ==
        IF n = 0 THEN {}
        ELSE IF o = 0 THEN Tree[l, n]
        ELSE IF l = 0 THEN {}
        ELSE UNION {t[l - 1, index[o][e], index[n][e]] : e \in Entry}
  IN  t

(* Mutant: index trees are not walked, only their top blocks are freed.    *)
rollback_new_blocks_flat(o, n) ==
  {n.block[r] : r \in {q \in Roots : o.block[q] = 0 /\ n.block[q] # 0}}

rollback_new_blocks(o, n) ==
  UNION {rollback_added[LevelOfRoot(r), o.block[r], n.block[r]] : r \in Roots}

---------------------------------------------------------------------------
(* Directories and paths.                                                  *)

FreeSlot == [ino |-> 0, name |-> ""]
NoSlots == [s \in Slot |-> FreeSlot]
NoEntries == [e \in Entry |-> 0]
NoCells == [c \in Cell |-> 0]
NoBlocks == [r \in Roots |-> 0]

IsDir(n) == inode[n].type = "DIRECTORY"
IsFile(n) == inode[n].type = "FILE"

(* The slots of a directory that exist, and the first of a set of them in  *)
(* the order in which dir_find and dir_add go through them.                *)
Places(d) ==
  {i \in 0 .. (inode[d].size \div BlockSize - 1) :
     inode_data_block(inode[d], i) # 0} \X Slot

FirstOf(ps) ==
  CHOOSE p \in ps : \A q \in ps : p[1] < q[1] \/ (p[1] = q[1] /\ p[2] <= q[2])

SlotAt(d, p) == dirs[inode_data_block(inode[d], p[1])][p[2]]

Holds(slot, x) == slot.ino # 0 /\ slot.name = x

Named(d, x) ==
  IF IsDir(d) THEN {p \in Places(d) : Holds(SlotAt(d, p), x)} ELSE {}

InodeAt(d, ps) == IF ps = {} THEN 0 ELSE SlotAt(d, FirstOf(ps)).ino

dir_find(d, x) == InodeAt(d, Named(d, x))

dir_empty(d) ==
  \A p \in Places(d) :
    SlotAt(d, p).ino # 0 => SlotAt(d, p).name \in {".", ".."}

(* fs_lookup_path: the inode that path leads to from start, or 0.          *)
Into(c, x, f, last) ==
  IF f = 0 THEN IF x = ".." /\ c = Root THEN c ELSE 0
  ELSE IF last \/ IsDir(f) THEN f ELSE 0

Component(c, x, last) ==
  IF c = 0 \/ x = TooLong THEN 0
  ELSE IF x = "." THEN c
  ELSE Into(c, x, dir_find(c, x), last)

fs_lookup_path(path, start) ==
  LET n[i \in 0 .. Len(path)] ==
        IF i = 0 THEN start ELSE Component(n[i - 1], path[i], i = Len(path))
  IN  n[Len(path)]

(* canonicalize: the components of path, read from cwd, with "." and ".."  *)
(* removed by name only.  Reading stops at a component that is too long.   *)
canonicalize(path, cwd) ==
  LET read == {i \in 1 .. Len(path) : path[i] = TooLong}
      last == IF read = {} THEN Len(path)
              ELSE (CHOOSE i \in read : \A j \in read : i <= j) - 1
      out[i \in 0 .. last] ==
        IF i = 0 THEN cwd
        ELSE CASE path[i] = "." -> out[i - 1]
               [] path[i] = ".." /\ out[i - 1] = <<>> -> <<>>
               [] path[i] = ".." /\ out[i - 1] # <<>> ->
                    SubSeq(out[i - 1], 1, Len(out[i - 1]) - 1)
               [] OTHER -> Append(out[i - 1], path[i])
  IN  out[last]

(* The paths that the requests carry: what canonicalize makes.             *)
Path == UNION {[1 .. k -> Name] : k \in 1 .. Depth}

(* path_parent: the directory part and the last component.                 *)
Parent(path) == fs_lookup_path(SubSeq(path, 1, Len(path) - 1), Root)
Leaf(path) == path[Len(path)]

---------------------------------------------------------------------------
(* Init is what tools/mkfs.c writes: an empty root directory.              *)

Lowest(S) == CHOOSE b \in S : \A c \in S : b <= c

NoInode == [size |-> 0, type |-> "NONE", link_count |-> 0, block |-> NoBlocks]
NoRequest == [kind |-> "none"]

(* Mutant: ".." leads back to the directory itself.                        *)
DirBlock_selfish(d, p) == [NoSlots EXCEPT ![1] = [ino |-> d, name |-> "."],
                                          ![2] = [ino |-> d, name |-> ".."]]

(* The first block of a directory d whose parent is p.                     *)
DirBlock(d, p) == [NoSlots EXCEPT ![1] = [ino |-> d, name |-> "."],
                                  ![2] = [ino |-> p, name |-> ".."]]

DirInode(b) == [size |-> BlockSize, type |-> "DIRECTORY", link_count |-> 1,
                block |-> [NoBlocks EXCEPT ![0] = b]]

(* A free block holds something or other.                                  *)
StaleEntries == [e \in Entry |-> Lowest(Block)]
StaleSlots == [s \in Slot |-> [ino |-> Root, name |-> "."]]
StaleCells == [c \in Cell |-> Stale]

Idle == pc = "idle"

Init ==
  /\ bmap = {Lowest(Block)}
  /\ imap = {Root}
  /\ inode = [n \in Inode |-> IF n = Root THEN DirInode(Lowest(Block))
                              ELSE NoInode]
  /\ index = [b \in Block |-> IF b = Lowest(Block) THEN NoEntries
                              ELSE StaleEntries]
  /\ dirs = [b \in Block |-> IF b = Lowest(Block) THEN DirBlock(Root, Root)
                             ELSE StaleSlots]
  /\ data = [b \in Block |-> IF b = Lowest(Block) THEN NoCells ELSE StaleCells]
  /\ g_open_refs = [n \in Inode |-> 0]
  /\ synced = TRUE
  /\ pc = "idle" /\ req = NoRequest /\ now = NoInode
  /\ at = 0 /\ level = 0 /\ holder = 0
  /\ lost = {}

(* bitmap_free of the blocks S.  What they hold is not followed further,   *)
(* since alloc_data_block clears a block before it is used.                *)
Without(f, S, z) == [b \in Block |-> IF b \in S THEN z ELSE f[b]]

Free(S) ==
  /\ bmap' = bmap \ S
  /\ index' = Without(index, S, StaleEntries)
  /\ data' = Without(data, S, StaleCells)

(* The end of a request; s says whether its last act was a cache_sync.     *)
Return(s) ==
  /\ pc' = "idle" /\ req' = NoRequest /\ now' = NoInode
  /\ at' = 0 /\ level' = 0 /\ holder' = 0
  /\ synced' = s

---------------------------------------------------------------------------
(* One level of inode_data_block with create.                              *)

Index == at \div BlockSize
Here == Digit(Index, LevelOf(Index), level)

Pointer == IF level = 0 THEN now.block[RootOf(Index)] ELSE index[holder][Here]

(* The block that is there, or the one that alloc_data_block finds.        *)
Reached == IF Pointer # 0 THEN Pointer ELSE Lowest(Block \ bmap)

(* Mutant: the block is not cleared.                                       *)
Zeroed_not(f, z) == f

(* alloc_data_block clears the block it takes.                             *)
Zeroed(f, z) == IF Pointer # 0 THEN f ELSE [f EXCEPT ![Reached] = z]

Linked == IF level = 0 THEN [now EXCEPT !.block[RootOf(Index)] = Reached]
          ELSE now

Take ==
  /\ Pointer = 0 => Block \ bmap # {}
  /\ bmap' = bmap \cup {Reached}
  /\ index' = IF level = 0 THEN Zeroed(index, NoEntries)
              ELSE [Zeroed(index, NoEntries) EXCEPT ![holder][Here] = Reached]

(* One level down.  Under a write the last level is WriteChunk's.          *)
Descend ==
  /\ pc = "map" /\ level <= LevelOf(Index)
  /\ req.kind = "write" => level < LevelOf(Index)
  /\ Take
  /\ now' = Linked
  /\ level' = level + 1 /\ holder' = Reached
  /\ dirs' = Zeroed(dirs, NoSlots) /\ data' = Zeroed(data, NoCells)
  /\ UNCHANGED <<imap, inode, g_open_refs, synced, pc, req, at, lost>>

---------------------------------------------------------------------------
(* fs_create_path, for open with the create flag and for mkdir.            *)

(* The entry of the new inode, an entry put at a place of a directory, and *)
(* what a new subdirectory adds to its parent's count.                     *)
NewSlot(n, x) == [ino |-> n, name |-> x]

EnterAt(f, d, p, slot) ==
  [f EXCEPT ![inode_data_block(inode[d], p[1])][p[2]] = slot]

OneMore(type) == IF type = "DIRECTORY" THEN 1 ELSE 0

(* An open also takes a reference.                                         *)
Opened(type, n) == IF type = "FILE" THEN [g_open_refs EXCEPT ![n] = @ + 1]
                   ELSE g_open_refs

(* d is the directory of the path and x its last component.  With a free   *)
(* slot in the blocks of d the whole request is one step.  Otherwise       *)
(* dir_add goes on to give the directory one block more.                   *)
Create(d, x, type) ==
  LET n == Lowest(Inode \ imap)
      b == Lowest(Block \ bmap)
      new == IF type = "DIRECTORY" THEN DirInode(b)
             ELSE [NoInode EXCEPT !.type = "FILE", !.link_count = 1]
      made == IF type = "DIRECTORY" THEN [dirs EXCEPT ![b] = DirBlock(n, d)]
              ELSE dirs
      free == {p \in Places(d) : SlotAt(d, p).ino = 0}
  IN /\ Idle
     /\ d # 0 /\ IsDir(d) /\ Named(d, x) = {}
     /\ Inode \ imap # {}
     /\ imap' = imap \cup {n}
     /\ IF type = "DIRECTORY"
        THEN /\ Block \ bmap # {}
             /\ bmap' = bmap \cup {b}
             /\ index' = [index EXCEPT ![b] = NoEntries]
             /\ data' = [data EXCEPT ![b] = NoCells]
        ELSE UNCHANGED <<bmap, index, data>>
     /\ \/ /\ free # {}
           /\ dirs' = EnterAt(made, d, FirstOf(free), NewSlot(n, x))
           /\ inode' = [inode EXCEPT ![n] = new,
                                     ![d].link_count = @ + OneMore(type)]
           /\ g_open_refs' = Opened(type, n)
           /\ Return(TRUE)
        \/ /\ free = {}
           /\ dirs' = made
           /\ inode' = [inode EXCEPT ![n] = new]
           /\ pc' = "map"
           /\ req' = [kind |-> "create", dir |-> d, leaf |-> x,
                      new |-> n, type |-> type]
           /\ now' = inode[d] /\ at' = inode[d].size
           /\ level' = 0 /\ holder' = 0
           /\ UNCHANGED <<g_open_refs, synced>>
     /\ UNCHANGED lost

(* dir_add's last block is there: the entry goes into its first slot.      *)
DirGrows ==
  /\ pc = "map" /\ req.kind = "create" /\ level > LevelOf(Index)
  /\ dirs' = [dirs EXCEPT ![holder][1] = NewSlot(req.new, req.leaf)]
  /\ inode' = [inode EXCEPT ![req.dir] =
                 [now EXCEPT !.size = at + BlockSize,
                             !.link_count = @ + OneMore(req.type)]]
  /\ g_open_refs' = Opened(req.type, req.new)
  /\ Return(TRUE)
  /\ UNCHANGED <<bmap, imap, index, data, lost>>

(* dir_add fails: the new inode is freed again, but dir_add's own copy of  *)
(* the parent is dropped with the blocks it may have got.  An open         *)
(* returns here without a sync; mkdir's handler still ends with one.       *)
CreateFails ==
  /\ pc = "map" /\ req.kind = "create"
  /\ Free(free_inode_blocks(inode[req.new]))
  /\ dirs' = Without(dirs, free_inode_blocks(inode[req.new]), StaleSlots)
  /\ imap' = imap \ {req.new}
  /\ lost' = lost \cup (free_inode_blocks(now)
                          \ free_inode_blocks(inode[req.dir]))
  /\ Return(req.type = "DIRECTORY")
  /\ UNCHANGED <<inode, g_open_refs>>

---------------------------------------------------------------------------
(* The other requests that change something.                               *)

truncate_inode(ip) == [ip EXCEPT !.block = NoBlocks, !.size = 0]

(* FS_REQUEST_OPEN of a file that is there.                                *)
Open(n, truncate) ==
  /\ Idle
  /\ n # 0 /\ IsFile(n) /\ g_open_refs[n] < MaxRefs
  /\ IF truncate
     THEN /\ Free(free_inode_blocks(inode[n]))
          /\ inode' = [inode EXCEPT ![n] = truncate_inode(@)]
     ELSE UNCHANGED <<bmap, index, data, inode>>
  /\ g_open_refs' = [g_open_refs EXCEPT ![n] = @ + 1]
  /\ Return(TRUE)
  /\ UNCHANGED <<imap, dirs, lost>>

(* fs_unlink_path, once the entry p of directory d is found.               *)
Unlink(d, p) ==
  LET n == SlotAt(d, p).ino
      loses == IF IsDir(n) /\ inode[d].link_count > 0 THEN 1 ELSE 0
      freed == IF g_open_refs[n] = 0 THEN free_inode_blocks(inode[n]) ELSE {}
  IN /\ Idle
     /\ IsDir(n) => dir_empty(n)
     /\ dirs' = EnterAt(Without(dirs, freed, StaleSlots), d, p, FreeSlot)
     /\ Free(freed)
     /\ IF g_open_refs[n] = 0
        THEN /\ imap' = imap \ {n}
             /\ inode' = [inode EXCEPT ![n] = NoInode,
                                       ![d].link_count = @ - loses]
        ELSE /\ inode' = [inode EXCEPT ![n].link_count = 0,
                                       ![d].link_count = @ - loses]
             /\ UNCHANGED imap
     /\ Return(TRUE)
     /\ UNCHANGED <<g_open_refs, lost>>

RemoveEntry(d, x) ==
  /\ d # 0 /\ Named(d, x) # {}
  /\ Unlink(d, FirstOf(Named(d, x)))

(* Mutant: the last close destroys the file even when it has a name.       *)
Release_named(n) ==
  /\ Idle /\ g_open_refs[n] > 0
  /\ g_open_refs' = [g_open_refs EXCEPT ![n] = @ - 1]
  /\ IF g_open_refs[n] = 1
     THEN /\ Free(free_inode_blocks(inode[n]))
          /\ imap' = imap \ {n}
          /\ inode' = [inode EXCEPT ![n] = NoInode]
     ELSE UNCHANGED <<bmap, imap, index, data, inode>>
  /\ Return(TRUE)
  /\ UNCHANGED <<dirs, lost>>

(* release_inode, at a close.                                              *)
Release(n) ==
  /\ Idle /\ g_open_refs[n] > 0
  /\ g_open_refs' = [g_open_refs EXCEPT ![n] = @ - 1]
  /\ IF g_open_refs[n] = 1 /\ inode[n].link_count = 0
     THEN /\ Free(free_inode_blocks(inode[n]))
          /\ imap' = imap \ {n}
          /\ inode' = [inode EXCEPT ![n] = NoInode]
     ELSE UNCHANGED <<bmap, imap, index, data, inode>>
  /\ Return(TRUE)
  /\ UNCHANGED <<dirs, lost>>

(* What a reader of inode n finds at every position: fs_read_inode gives   *)
(* zeroes where there is no block.                                         *)
Cells(n) ==
  [i \in 0 .. (Length - 1) |->
     LET b == inode_data_block(inode[n], i \div BlockSize)
     IN  IF b = 0 THEN 0 ELSE data[b][i % BlockSize]]

Contents(n) == [size |-> inode[n].size, cells |-> Cells(n)]

(* fs_write_inode of v at the positions from "from" up to upto.            *)
WriteCall(n, from, upto, v) ==
  /\ Idle /\ g_open_refs[n] > 0 /\ IsFile(n)
  /\ from < upto /\ upto <= MaxBlocks * BlockSize
  /\ pc' = "map"
  /\ req' = [kind |-> "write", ino |-> n, upto |-> upto, val |-> v,
             old |-> inode[n], before |-> Contents(n)]
  /\ now' = inode[n] /\ at' = from /\ level' = 0 /\ holder' = 0
  /\ UNCHANGED <<bmap, imap, inode, index, dirs, data, g_open_refs, synced,
                 lost>>

(* The position after the chunk: the end of the block or of the range.     *)
ChunkEnd == IF (Index + 1) * BlockSize < req.upto THEN (Index + 1) * BlockSize
            ELSE req.upto

WriteChunk ==
  /\ pc = "map" /\ req.kind = "write" /\ level = LevelOf(Index)
  /\ Take
  /\ data' = [Zeroed(data, NoCells) EXCEPT
                ![Reached] = [c \in Cell |->
                   IF Index * BlockSize + c \in at .. (ChunkEnd - 1)
                   THEN req.val ELSE @[c]]]
  /\ dirs' = Zeroed(dirs, NoSlots)
  /\ now' = Linked
  /\ at' = ChunkEnd /\ level' = 0 /\ holder' = 0
  /\ pc' = IF ChunkEnd = req.upto THEN "put" ELSE "map"
  /\ UNCHANGED <<imap, inode, g_open_refs, synced, req, lost>>

WriteDone ==
  /\ pc = "put"
  /\ inode' = [inode EXCEPT ![req.ino] =
                 [now EXCEPT !.size = IF at > @ THEN at ELSE @]]
  /\ Return(TRUE)
  /\ UNCHANGED <<bmap, imap, index, dirs, data, g_open_refs, lost>>

(* No block is left, or the disk fails, in the loop or in the last sync.   *)
WriteFails ==
  /\ pc \in {"map", "put"} /\ req.kind = "write"
  /\ Free(rollback_new_blocks(req.old, now))
  /\ inode' = [inode EXCEPT ![req.ino] = req.old]
  /\ Return(FALSE)
  /\ UNCHANGED <<imap, dirs, g_open_refs, lost>>

(* The machine restarts between requests, with nothing left in the cache:  *)
(* fs_init starts with an empty table of open references.                  *)
Restart ==
  /\ Idle /\ synced
  /\ g_open_refs' = [n \in Inode |-> 0]
  /\ UNCHANGED <<bmap, imap, inode, index, dirs, data, synced, locals, lost>>

Next ==
  \/ \E path \in Path, type \in {"FILE", "DIRECTORY"} :
       Create(Parent(path), Leaf(path), type)
  \/ \E path \in Path, t \in BOOLEAN : Open(fs_lookup_path(path, Root), t)
  \/ \E path \in Path : RemoveEntry(Parent(path), Leaf(path))
  \/ \E n \in Inode : Release(n)
  \/ \E n \in Inode, r \in Ranges, v \in Value : WriteCall(n, r[1], r[2], v)
  \/ Descend \/ DirGrows \/ CreateFails
  \/ WriteChunk \/ WriteDone \/ WriteFails
  \/ Restart

Spec == Init /\ [][Next]_vars

---------------------------------------------------------------------------
(* Properties.                                                             *)

(* The inode as the current request sees it: its own copy is ahead of the  *)
(* table while it extends the tree.                                        *)
Extended ==
  CASE req.kind = "none" -> 0
    [] req.kind = "write" -> req.ino
    [] req.kind = "create" -> req.dir

Live(n) == IF n = Extended THEN now ELSE inode[n]

(* The index blocks of a tree of depth l below b.                          *)
Inner ==
  LET t[l \in 0 .. Levels, b \in Block] ==
        IF l = 0 THEN {}
        ELSE {b} \cup UNION {t[l - 1, c] :
                               c \in {index[b][e] : e \in Entry} \ {0}}
  IN  t

UsedRoots(n) == {r \in Roots : Live(n).block[r] # 0}

InUse == UNION {UNION {Inner[LevelOfRoot(r), Live(n).block[r]] :
                         r \in UsedRoots(n)} : n \in imap}

(* Every place that points to a block, and the block.                      *)
Pointers ==
  {<<"inode", n, r, Live(n).block[r]>> : n \in imap, r \in Roots}
    \cup {<<"index", b, e, index[b][e]>> : b \in InUse, e \in Entry}

(* No block is used twice and none is given away while it is used: every   *)
(* pointer of a live inode or of its index blocks leads to a marked block  *)
(* to which no other pointer leads.  And none is forgotten: what the       *)
(* bitmap marks is pointed to, except the blocks that a directory could    *)
(* not keep (dir_add, fs.c:410).  This is the bookkeeping of               *)
(* inode_data_block, the free functions and the rollbacks (fs.c:137-368).  *)
BlocksOwned ==
  LET used == {p \in Pointers : p[4] # 0}
  IN /\ \A p, q \in used : p[4] = q[4] => p = q
     /\ bmap = {p[4] : p \in used} \cup lost
     /\ \A p \in used : p[4] \notin lost

(* The inode that a creation has taken and not entered yet.                *)
Pending == IF req.kind = "create" THEN {req.new} ELSE {}

Dirs == {d \in imap \ Pending : IsDir(d)}

Entries ==
  LET all(d) == {<<d, SlotAt(d, p).name, SlotAt(d, p).ino>> : p \in Places(d)}
  IN  {e \in UNION {all(d) : d \in Dirs} : e[2] \in Name}

(* The directories form a tree and the counts are exact: an allocated      *)
(* inode has one name, or none and then it is a file that was removed      *)
(* while open (its count is 0); ".." leads to the directory that has the   *)
(* name; a directory counts itself and its subdirectories; names are       *)
(* unique; and what is open is allocated (fs_create_path, fs_unlink_path,  *)
(* release_inode, fs.c:511-651).                                           *)
TreeExact ==
  /\ \A d \in Dirs :
       /\ \A x \in Name : Cardinality(Named(d, x)) <= 1
       /\ dir_find(d, ".") = d
       /\ d # Root =>
            \E e \in Entries : e[1] = dir_find(d, "..") /\ e[3] = d
       /\ inode[d].link_count =
            1 + Cardinality({e \in Entries : e[1] = d /\ IsDir(e[3])})
  /\ \A n \in imap \ (Pending \cup {Root}) :
       Cardinality({e \in Entries : e[3] = n}) =
         IF inode[n].link_count = 0 THEN 0 ELSE 1
  /\ \A e \in Entries : e[3] \in imap \ {Root}
  /\ \A n \in Inode : g_open_refs[n] > 0 => n \in imap /\ IsFile(n)

(* A path resolved by name from the caller's directory, which is what      *)
(* canonicalize does for every request, leads where walking the directory  *)
(* entries leads, ".." included, whenever that walk succeeds: the tree     *)
(* never disagrees with the names (fs.c:461-485 and 680-706).              *)
LexicalPaths ==
  Idle => \A cwd \in {<<>>} \cup Path :
    LET d == fs_lookup_path(cwd, Root)
    IN d # 0 /\ IsDir(d) =>
         \A p \in [1 .. 2 -> Name \cup {".."}] :
           fs_lookup_path(p, d) # 0 =>
             fs_lookup_path(canonicalize(p, cwd), Root) = fs_lookup_path(p, d)

(* The file system implements the abstract store: every request, whatever  *)
(* the state of its trees and wherever it fails, is one of the store's     *)
(* steps on the visible tree and contents.  A write takes effect when it   *)
(* ends.                                                                   *)
Store == INSTANCE FileStore WITH
  entries <- Entries,
  dirs <- Dirs,
  file <- [n \in Inode |->
             IF n \notin imap \ Pending \/ IsDir(n) THEN NoFile
             ELSE IF req.kind = "write" /\ n = Extended THEN req.before
             ELSE Contents(n)],
  refs <- g_open_refs

StoreSpec == Store!Spec
=============================================================================
