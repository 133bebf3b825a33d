---------------------------- MODULE MCFileSystem ----------------------------
(* Model checking FileSystem: files of one direct block and two index      *)
(* trees, directory blocks with room for one entry besides "." and "..",   *)
(* so that a second entry makes a directory grow into its index tree.      *)
EXTENDS FileSystem, TLC

\* Within a block and across the trees; the second range together with a
\* directory that has grown is larger than the free space.
MCRanges == {<<1, 3>>, <<5, 8>>, <<6, 7>>}

\* Names are only compared for equality.
Symmetry == Permutations(Name)
=============================================================================
