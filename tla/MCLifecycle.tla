---------------------------- MODULE MCLifecycle ----------------------------
(* Model checking Lifecycle.  The thread and process objects that are free *)
(* at the start may be exchanged.                                          *)
EXTENDS Lifecycle, TLC

Symmetry == Permutations(Thread \ {First}) \cup Permutations(Process \ {Shell})
=============================================================================
