------------------------------- MODULE MCFiles -------------------------------
(***************************************************************************)
(* Files for TLC: one regular file, one pipe, three threads in up to two   *)
(* processes, one descriptor of stdio[] and two of files[].                *)
(***************************************************************************)
EXTENDS Files

MCStd == {0}
MCSlot == {3, 4}

\* A pipeline, with transfers that wrap and transfers in part; threads that are
\* freed by the exit of another while a second process has the pipe; kills; the
\* calls on descriptors; calls without memory.
MCPrograms ==
    {{"pipe", "readwrite", "long", "fork", "close"},
     {"pipe", "readwrite", "create", "fork"},
     {"pipe", "readwrite", "fork", "forkfails", "kill", "close"},
     {"pipe", "readwrite", "create", "kill", "touch"},
     {"pipe", "readwrite", "create", "dup2"},
     {"pipe", "open", "dup", "dup2", "close", "fork", "forkfails", "touch"},
     {"pipe", "readwrite", "close", "nomem"}}
====
