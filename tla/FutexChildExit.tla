--------------------------- MODULE FutexChildExit ---------------------------
(***************************************************************************)
(* Futex, with the wake-up that an exiting child sends to its parent's     *)
(* main thread at the end of process_exit.                                 *)
(***************************************************************************)
EXTENDS Futex

CONSTANT Parents    \* the processes that have children

\* Whatever the main thread of p is blocked on, it becomes ready.
ChildExit(p) ==
    /\ op = "none" /\ p \in Parents /\ status[MainOf[p]] = "BLOCKED"
    /\ status' = Unblocked({MainOf[p]})
    /\ UNCHANGED <<user, lists, locals>>

NextWithChildren == Next \/ \E p \in Process : ChildExit(p)

SpecWithChildren == Init /\ [][NextWithChildren]_vars /\ WF_vars(Scan)
=============================================================================
