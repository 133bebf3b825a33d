----------------------------- MODULE FileStore -----------------------------
(***************************************************************************)
(* What the file system (kernel/fs.c) promises: a tree of directories, and *)
(* files that are arrays of cells with a size.  A cell stands for a few    *)
(* bytes of contents; every request is one step.  Two of its promises are  *)
(* weak, and are the code's: a write that fails may leave any of the cells *)
(* of its range written, and a file removed while it is open outlives a    *)
(* restart of the machine without a name.                                  *)
(***************************************************************************)
EXTENDS Integers

CONSTANTS
  Inode,    \* inode numbers
  Root,     \* the root directory's
  Name,     \* names of directory entries
  Length,   \* cells a file can have
  Ranges,   \* the ranges <<from, upto>> of cells that requests write
  Value,    \* what a cell can be written with; a fresh cell holds 0
  NoFile    \* stands for the absence of a file

VARIABLES
  entries,  \* the tree: <<directory, name, inode>>
  dirs,     \* inodes that are directories
  file,     \* [Inode -> NoFile or a size and the cells]
  refs      \* how often each file is open

vars == <<entries, dirs, file, refs>>

Cell == 0 .. (Length - 1)

Empty == [size |-> 0, cells |-> [i \in Cell |-> 0]]

Init ==
  /\ entries = {}
  /\ dirs = {Root}
  /\ file = [n \in Inode |-> NoFile]
  /\ refs = [n \in Inode |-> 0]

Unnamed(n) == \A e \in entries : e[3] # n

Unused(n) == n \notin dirs /\ file[n] = NoFile

Enter(d, x, n) ==
  /\ Unused(n)
  /\ d \in dirs
  /\ \A e \in entries : <<e[1], e[2]>> # <<d, x>>
  /\ entries' = entries \cup {<<d, x, n>>}

(* open(2) of a new name: the file is created and opened.                  *)
Create(d, x, n) ==
  /\ refs' = [refs EXCEPT ![n] = 1]
  /\ Enter(d, x, n)
  /\ file' = [file EXCEPT ![n] = Empty]
  /\ UNCHANGED dirs

Mkdir(d, x, n) ==
  /\ dirs' = dirs \cup {n}
  /\ Enter(d, x, n)
  /\ UNCHANGED <<file, refs>>

Open(n, truncate) ==
  /\ refs' = [refs EXCEPT ![n] = @ + 1]
  /\ file[n] # NoFile /\ ~Unnamed(n)
  /\ file' = IF truncate THEN [file EXCEPT ![n] = Empty] ELSE file
  /\ UNCHANGED <<entries, dirs>>

(* The last close of a file that has no name any more removes it.          *)
Close(n) ==
  /\ refs[n] > 0
  /\ refs' = [refs EXCEPT ![n] = @ - 1]
  /\ file' = IF refs[n] = 1 /\ Unnamed(n) THEN [file EXCEPT ![n] = NoFile]
             ELSE file
  /\ UNCHANGED <<entries, dirs>>

(* A name is removed; a directory only when it is empty, and a file stays  *)
(* while somebody has it open.                                             *)
Unlink(d, x, n) ==
  /\ <<d, x, n>> \in entries
  /\ \A e \in entries : e[1] # n
  /\ entries' = entries \ {<<d, x, n>>}
  /\ dirs' = dirs \ {n}
  /\ file' = IF refs[n] = 0 THEN [file EXCEPT ![n] = NoFile] ELSE file
  /\ UNCHANGED refs

(* write(2) at a position: the range gets the value, the rest keeps its    *)
(* own, and the file reaches at least to the end of the range.             *)
Write(n, from, upto, v) ==
  /\ refs[n] > 0 /\ from < upto /\ UNCHANGED refs
  /\ file' = [file EXCEPT
       ![n].size = IF upto > @ THEN upto ELSE @,
       ![n].cells = [i \in Cell |-> IF i \in from .. (upto - 1) THEN v
                                    ELSE @[i]]]
  /\ UNCHANGED <<entries, dirs>>

(* A write that returns an error keeps the size; cells of its range, and   *)
(* no others, may have been written.                                       *)
FailedWrite(n, from, upto, v) ==
  /\ refs[n] > 0 /\ from < upto /\ UNCHANGED refs
  /\ \A m \in Inode \ {n} : file'[m] = file[m]
  /\ file'[n].size = file[n].size
  /\ \A i \in Cell :
       file'[n].cells[i] \in
         {file[n].cells[i]} \cup (IF i \in from .. (upto - 1) THEN {v} ELSE {})
  /\ UNCHANGED <<entries, dirs>>

Restart ==
  /\ refs' = [n \in Inode |-> 0]
  /\ UNCHANGED <<entries, dirs, file>>

Next ==
  \/ \E n \in Inode, t \in BOOLEAN : Open(n, t)
  \/ \E n \in Inode : Close(n)
  \/ \E n \in Inode, r \in Ranges, v \in Value :
       FailedWrite(n, r[1], r[2], v) \/ Write(n, r[1], r[2], v)
  \/ \E n, d \in Inode, x \in Name : Create(d, x, n) \/ Mkdir(d, x, n)
  \/ \E e \in entries : Unlink(e[1], e[2], e[3])
  \/ Restart

Spec == Init /\ [][Next]_vars
=============================================================================
