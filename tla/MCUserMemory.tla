---------------------------- MODULE MCUserMemory ----------------------------
(* Model checking UserMemory on small instances.                           *)
EXTENDS UserMemory, TLC

PageSymmetry == Permutations(Page)
Symmetry == PageSymmetry \cup Permutations(AS)
=============================================================================
