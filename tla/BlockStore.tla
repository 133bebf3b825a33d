----------------------------- MODULE BlockStore -----------------------------
(***************************************************************************)
(* What the block cache of the file system promises: an array of blocks    *)
(* that can be read and written, some part of which has reached the disk.  *)
(* The contents that have not reached the disk are lost in a restart.      *)
(***************************************************************************)
CONSTANTS Block, Sector, Value

VARIABLES
    mem,    \* mem[b][s]: what a reader of block b finds in its sector s
    disk,   \* what it would find after a restart
    spoilt  \* blocks whose memory copy a failed read has overwritten

Contents == [Block -> [Sector -> Value]]

Init == disk \in Contents /\ mem = disk /\ spoilt = {}

Write(b, s, v) ==
    /\ mem' = [mem EXCEPT ![b][s] = v]
    /\ UNCHANGED <<disk, spoilt>>

WriteBack(b, s) ==
    /\ disk' = [disk EXCEPT ![b][s] = mem[b][s]]
    /\ UNCHANGED <<mem, spoilt>>

Restart == mem' = disk /\ spoilt' = {} /\ UNCHANGED disk

\* A block that cannot be read may cost the memory copy of another block, b,
\* one that is safe on the disk: a reader then finds anything in b ...
FailedRead(b) ==
    /\ mem[b] = disk[b]
    /\ \E c \in [Sector -> Value] : mem' = [mem EXCEPT ![b] = c]
    /\ spoilt' = spoilt \cup {b}
    /\ UNCHANGED disk

\* ... until b is read again from the disk, or somebody asks to modify b and
\* so keeps what is there.
Reread(b) ==
    /\ b \in spoilt
    /\ mem' = [mem EXCEPT ![b] = disk[b]]
    /\ spoilt' = spoilt \ {b}
    /\ UNCHANGED disk

Keep(b) == spoilt' = spoilt \ {b} /\ UNCHANGED <<mem, disk>>

Next ==
    \/ \E b \in Block, s \in Sector, v \in Value : Write(b, s, v)
    \/ \E b \in Block, s \in Sector : WriteBack(b, s)
    \/ \E b \in Block : FailedRead(b) \/ Reread(b) \/ Keep(b)
    \/ Restart

Spec == Init /\ [][Next]_<<mem, disk, spoilt>>
=============================================================================
