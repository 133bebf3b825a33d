---------------------------- MODULE MCBlockCache ----------------------------
(* Model checking BlockCache: more blocks than entries, blocks of two      *)
(* sectors.                                                                *)
EXTENDS BlockCache

\* Every block differs from the others.
MCImage == {[b \in Block |-> [s \in Sector |-> IF s < b THEN 1 ELSE 0]]}
=============================================================================
