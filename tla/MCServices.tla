----------------------------- MODULE MCServices -----------------------------
(* Instances of Services for TLC. *)
EXTENDS Services

CONSTANTS c1, c2

MCClient == {c1, c2}
MCThread == MCClient \cup {Tty, Fs}
MCPid == MCClient \cup {Kernel}
MCPidOf == [t \in MCThread |-> IF t \in MCClient THEN t ELSE Kernel]
MCType == {"none", "user", "read", "read_reply", "fs", "fs_reply"}
MCVal == MCClient \cup (0..MaxLength)
MCNoMessage == [src |-> Kernel, type |-> "none", val |-> 0]

MCLength == [c \in MCClient |-> IF c = c1 THEN 1 ELSE 2]

\* Two processes read; two call the file system and exchange messages; one
\* uses both services.
MCPrograms ==
    { [c \in MCClient |-> IF c = c1 THEN {"read", "kill"} ELSE {"read"}],
      [c \in MCClient |-> IF c = c1 THEN {"fs", "send", "kill"} ELSE {"fs", "receive", "exit"}],
      [c \in MCClient |-> IF c = c1 THEN {"read", "fs", "kill"} ELSE {}] }

\* Two processes call the file system, and one of them is killed.
Callers == {[c \in MCClient |-> IF c = c1 THEN {"fs", "kill"} ELSE {"fs"}]}

\* One process that reads.
Reader == {[c \in MCClient |-> IF c = c1 THEN {"read"} ELSE {}]}
=============================================================================
