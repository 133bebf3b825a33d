-------------------------- MODULE MCFutexChildExit --------------------------
(* Model checking FutexChildExit: one process with two threads and         *)
(* children, two words in two buckets.                                     *)
EXTENDS FutexChildExit, TLC

CONSTANTS p1, m1, t1

MCProcOf == [t \in Thread |-> p1]
MCMainOf == [p \in Process |-> m1]
MCHash == [k \in Process \X Addr |-> k[2] - 1]
=============================================================================
