------------------------------ MODULE MCFutex ------------------------------
(* Model checking Futex: a process with up to three threads and a second   *)
(* one; word 1 of both processes hashes to bucket 0, the rest to bucket 1. *)
EXTENDS Futex, TLC

CONSTANTS p1, p2, m1, m2, t1, t2

MCProcOf == [t \in Thread |-> IF t = m2 THEN p2 ELSE p1]
MCMainOf == [p \in Process |-> IF p = p2 THEN m2 ELSE m1]
MCHash == [k \in Process \X Addr |-> IF k[2] = 1 THEN 0 ELSE 1]
=============================================================================
