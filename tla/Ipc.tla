--------------------------------- MODULE Ipc ---------------------------------
(***************************************************************************)
(* Synchronous messages between threads (ipc.c).  A thread that sends to   *)
(* one that does not wait for it links itself into the receiver's list of  *)
(* senders and sleeps; a thread that receives takes the first sender that  *)
(* its filter accepts or sleeps.  The lists are the pointers of struct     *)
(* thread: a thread that is woken by someone else while it is linked, and  *)
(* links itself again, does to them here what it does in the kernel.       *)
(*                                                                         *)
(* This module holds the state and the operations; Services has the        *)
(* threads that use them.  The machine has one CPU.  A thread inside the   *)
(* kernel keeps it (cpu) until it blocks or returns to user mode, because  *)
(* interrupts are off, except the threads of irq_on: they have executed    *)
(* sti and can be preempted between any two critical sections.             *)
(***************************************************************************)
EXTENDS Integers, FiniteSets
LOCAL INSTANCE Functions

CONSTANTS
    Thread,
    Pid,        \* process ids
    PidOf,      \* thread->process->pid
    IPC_ANY,    \* the filter that accepts every source
    Type,       \* message types
    Val,        \* message values
    NoMessage,  \* ipc_message of a new thread
    None        \* the null pointer

ASSUME IpcAssumption ==
    /\ IsFiniteSet(Thread)
    /\ PidOf \in [Thread -> Pid]
    /\ None \notin Thread /\ IPC_ANY \notin Pid
    /\ NoMessage \in [src : Pid, type : Type, val : Val]

VARIABLES
    status,         \* "READY" (or running), "BLOCKED", "ZOMBIE"
    cpu,            \* the thread that holds the CPU with interrupts off, or None
    irq_on,         \* kernel threads that run with interrupts on
    pc,             \* where a thread is in the code that calls ipc.c
    call,           \* where it is inside ipc.c: "none"; "send", "receive" after
                    \* the critical section; "sending", "receiving" in
                    \* thread_block
    ret, got,       \* result of its last call, and the message received
    sending, receiving, receive_from, ipc_status, message, waiting_for,
    queues          \* [head, tail, next]: ipc_sender_head, ipc_sender_tail of
                    \* the receivers, ipc_next_sender of the senders

Message == [src : Pid, type : Type, val : Val]

partner == <<sending, receiving, receive_from, ipc_status, message, waiting_for, queues>>
ipc == <<status, cpu, irq_on, pc, call, ret, got, partner>>

IpcInit ==
    /\ status = [t \in Thread |-> "READY"]
    /\ cpu = None /\ irq_on = {}
    /\ call = [t \in Thread |-> "none"]
    /\ ret = [t \in Thread |-> 0] /\ got = [t \in Thread |-> NoMessage]
    /\ sending = [t \in Thread |-> FALSE] /\ receiving = [t \in Thread |-> FALSE]
    /\ receive_from = [t \in Thread |-> IPC_ANY]
    /\ ipc_status = [t \in Thread |-> 0]
    /\ message = [t \in Thread |-> NoMessage]
    /\ waiting_for = [t \in Thread |-> None]
    /\ LET null == [t \in Thread |-> None]
       IN  queues = [head |-> null, tail |-> null, next |-> null]

-----------------------------------------------------------------------------
(* The CPU.                                                                *)

Asleep == [send |-> "sending", receive |-> "receiving"]

\* Thread t may execute: it is ready and no other holds the CPU.
Runs(t) == status[t] = "READY" /\ cpu \in {None, t}

\* It goes on in the kernel, with or without interrupts.
InKernel(t) == cpu' = IF t \in irq_on THEN None ELSE t

\* It comes to a thread_block of ipc.c, w: asleep at once, or, where interrupts
\* are on, after a window.
Sleeps(t, w) ==
    IF t \in irq_on
      THEN /\ call' = [call EXCEPT ![t] = w] /\ cpu' = None
           /\ UNCHANGED status
      ELSE /\ call' = [call EXCEPT ![t] = Asleep[w]] /\ cpu' = None
           /\ status' = [status EXCEPT ![t] = "BLOCKED"]

\* At label l of its code, outside ipc.c.
At(t, l) == Runs(t) /\ call[t] = "none" /\ pc[t] = l

Goto(t, l) == pc' = [pc EXCEPT ![t] = l]

\* The variables of t that hold the result of a call are not in use.
NoResult(t) == ret' = [ret EXCEPT ![t] = 0] /\ got' = [got EXCEPT ![t] = NoMessage]

\* thread_unblock of the threads of s.
Unblocked(s) ==
    [t \in Thread |-> IF t \in s /\ status[t] = "BLOCKED" THEN "READY" ELSE status[t]]

-----------------------------------------------------------------------------
(* The lists of senders.                                                   *)

\* The nodes of r's list, from its head: the k-th node, or None behind the
\* last.  (On a cyclic list it never becomes None.)
Walk(r) ==
    LET node[k \in 0..Cardinality(Thread)] ==
            IF k = 0 THEN queues.head[r]
            ELSE IF node[k - 1] = None THEN None ELSE queues.next[node[k - 1]]
    IN  node

Senders(r) == Range(Walk(r)) \ {None}

\* The place in walk w of its first node in s.
IsFirst(w, k, s) == w[k] \in s /\ \A j \in 0..(k - 1) : w[j] \notin s

\* source_matches: receiver r accepts a message of t.
source_matches(r, t) == receive_from[r] \in {IPC_ANY, PidOf[t]}

\* enqueue_sender.
Enqueue(q, r, t) ==
    [head |-> [q.head EXCEPT ![r] = IF q.tail[r] = None THEN t ELSE @],
     tail |-> [q.tail EXCEPT ![r] = t],
     next |-> [u \in Thread |-> IF u = q.tail[r] THEN t
                                ELSE IF u = t THEN None ELSE q.next[u]]]

\* The k-th node of the walk w leaves r's list (dequeue_matching_sender, remove_sender).
Unlink(q, r, w, k) ==
    LET t == w[k]
        previous == IF k = 0 THEN None ELSE w[k - 1]
    IN  [head |-> [q.head EXCEPT ![r] = IF k = 0 THEN q.next[t] ELSE @],
         tail |-> [q.tail EXCEPT ![r] = IF @ = t THEN previous ELSE @],
         next |-> [u \in Thread |-> IF u = t THEN None
                                    ELSE IF u = previous THEN q.next[t] ELSE q.next[u]]]

-----------------------------------------------------------------------------
(* ipc_send(d, m) by t, which goes on at label l.                          *)

SendFails(t, d, l) ==
    /\ status[d] = "ZOMBIE"
    /\ ret' = [ret EXCEPT ![t] = -1]
    /\ Goto(t, l) /\ InKernel(t)
    /\ UNCHANGED <<status, irq_on, call, got, partner>>

\* Mutant of SendDirect: the receiver is not woken.
SendDirect_silent(t, d, m, l) ==
    /\ status[d] # "ZOMBIE" /\ receiving[d] /\ source_matches(d, t)
    /\ message' = [message EXCEPT ![d] = [m EXCEPT !.src = PidOf[t]]]
    /\ receiving' = [receiving EXCEPT ![d] = FALSE]
    /\ receive_from' = [receive_from EXCEPT ![d] = IPC_ANY]
    /\ ret' = [ret EXCEPT ![t] = 0]
    /\ Goto(t, l) /\ InKernel(t)
    /\ UNCHANGED <<status, irq_on, call, got, sending, ipc_status, waiting_for, queues>>

\* The receiver waits for it.
SendDirect(t, d, m, l) ==
    /\ status[d] # "ZOMBIE" /\ receiving[d] /\ source_matches(d, t)
    /\ message' = [message EXCEPT ![d] = [m EXCEPT !.src = PidOf[t]]]
    /\ receiving' = [receiving EXCEPT ![d] = FALSE]
    /\ receive_from' = [receive_from EXCEPT ![d] = IPC_ANY]
    /\ status' = Unblocked({d})
    /\ ret' = [ret EXCEPT ![t] = 0]
    /\ Goto(t, l) /\ InKernel(t)
    /\ UNCHANGED <<irq_on, call, got, sending, ipc_status, waiting_for, queues>>

SendQueues(t, d, m, l) ==
    /\ status[d] # "ZOMBIE" /\ ~(receiving[d] /\ source_matches(d, t))
    /\ message' = [message EXCEPT ![t] = [m EXCEPT !.src = PidOf[t]]]
    /\ sending' = [sending EXCEPT ![t] = TRUE]
    /\ ipc_status' = [ipc_status EXCEPT ![t] = 0]
    /\ waiting_for' = [waiting_for EXCEPT ![t] = d]
    /\ queues' = Enqueue(queues, d, t)
    /\ Goto(t, l) /\ Sleeps(t, "send")
    /\ ret' = [ret EXCEPT ![t] = 0]
    /\ UNCHANGED <<irq_on, got, receiving, receive_from>>

Send(t, d, m, l) ==
    SendFails(t, d, l) \/ SendDirect(t, d, m, l) \/ SendQueues(t, d, m, l)

(* ipc_receive(source) by t, which goes on at label l.                     *)

Accepted(t, source) == {u \in Senders(t) : source \in {IPC_ANY, PidOf[u]}}

\* A sender is waiting: its message is taken and it wakes.
ReceiveQueued(t, source, l) ==
    LET w == Walk(t)
        accepted == Accepted(t, source)
    IN  \E k \in DOMAIN w :
        /\ IsFirst(w, k, accepted)
        /\ LET u == w[k] IN
           /\ got' = [got EXCEPT ![t] = message[u]]
           /\ sending' = [sending EXCEPT ![u] = FALSE]
           /\ ipc_status' = [ipc_status EXCEPT ![u] = 0]
           /\ waiting_for' = [waiting_for EXCEPT ![u] = None]
           /\ status' = Unblocked({u})
        /\ queues' = Unlink(queues, t, w, k)
        /\ receive_from' = [receive_from EXCEPT ![t] = IPC_ANY]
        /\ ret' = [ret EXCEPT ![t] = 0]
        /\ Goto(t, l) /\ InKernel(t)
        /\ UNCHANGED <<irq_on, call, receiving, message>>

\* Mutant of ReceiveWaits: the list is not searched.
ReceiveWaits_unsearched(t, source, l) ==
    /\ receive_from' = [receive_from EXCEPT ![t] = source]
    /\ receiving' = [receiving EXCEPT ![t] = TRUE]
    /\ Goto(t, l) /\ Sleeps(t, "receive") /\ NoResult(t)
    /\ UNCHANGED <<irq_on, sending, ipc_status, message, waiting_for, queues>>

ReceiveWaits(t, source, l) ==
    /\ Accepted(t, source) = {}
    /\ receive_from' = [receive_from EXCEPT ![t] = source]
    /\ receiving' = [receiving EXCEPT ![t] = TRUE]
    /\ Goto(t, l) /\ Sleeps(t, "receive") /\ NoResult(t)
    /\ UNCHANGED <<irq_on, sending, ipc_status, message, waiting_for, queues>>

Receive(t, source, l) == ReceiveQueued(t, source, l) \/ ReceiveWaits(t, source, l)

(* Both calls: thread_block after the window, and the way back.            *)

ThreadBlock(t) ==
    /\ Runs(t) /\ call[t] \in {"send", "receive"}
    /\ status' = [status EXCEPT ![t] = "BLOCKED"]
    /\ call' = [call EXCEPT ![t] = Asleep[@]]
    /\ cpu' = None
    /\ UNCHANGED <<irq_on, pc, ret, got, partner>>

SendReturns(t) ==
    /\ Runs(t) /\ call[t] = "sending"
    /\ ret' = [ret EXCEPT ![t] = ipc_status[t]]
    /\ call' = [call EXCEPT ![t] = "none"]
    /\ InKernel(t)
    /\ UNCHANGED <<status, irq_on, pc, got, partner>>

ReceiveReturns(t) ==
    /\ Runs(t) /\ call[t] = "receiving"
    /\ ret' = [ret EXCEPT ![t] = ipc_status[t]]
    /\ got' = [got EXCEPT ![t] = IF ipc_status[t] = 0 THEN message[t] ELSE @]
    /\ call' = [call EXCEPT ![t] = "none"]
    /\ InKernel(t)
    /\ UNCHANGED <<status, irq_on, pc, partner>>

-----------------------------------------------------------------------------
(* ipc_abort_thread(t): t leaves the list it is in, and the senders in its *)
(* own list fail.  The caller decides what becomes of t.                   *)

\* Mutant of Abort: the thread stays in the list it is in.
Abort_stays_linked(t) ==
    /\ sending' = [u \in Thread |-> sending[u] /\ u \notin Senders(t) \cup {t}]
    /\ receiving' = [receiving EXCEPT ![t] = FALSE]
    /\ receive_from' = [receive_from EXCEPT ![t] = IPC_ANY]
    /\ waiting_for' = [u \in Thread |-> IF u \in Senders(t) \cup {t} THEN None ELSE waiting_for[u]]
    /\ ipc_status' = [u \in Thread |-> IF u \in Senders(t) THEN -1 ELSE ipc_status[u]]
    /\ queues' = [head |-> [queues.head EXCEPT ![t] = None],
                  tail |-> [queues.tail EXCEPT ![t] = None],
                  next |-> [u \in Thread |-> IF u \in Senders(t) THEN None ELSE queues.next[u]]]
    /\ UNCHANGED message

Abort(t) ==
    LET d == waiting_for[t]
        q == IF sending[t] /\ d # None /\ t \in Senders(d)
               THEN Unlink(queues, d, Walk(d), CHOOSE k \in DOMAIN Walk(d) : IsFirst(Walk(d), k, {t}))
               ELSE queues
        failed == Senders(t)
    IN  /\ sending' = [u \in Thread |-> sending[u] /\ u \notin failed \cup {t}]
        /\ receiving' = [receiving EXCEPT ![t] = FALSE]
        /\ receive_from' = [receive_from EXCEPT ![t] = IPC_ANY]
        /\ waiting_for' = [u \in Thread |->
               IF u \in failed \cup {t} THEN None ELSE waiting_for[u]]
        /\ ipc_status' = [u \in Thread |-> IF u \in failed THEN -1 ELSE ipc_status[u]]
        /\ queues' = [head |-> [q.head EXCEPT ![t] = None],
                      tail |-> [q.tail EXCEPT ![t] = None],
                      next |-> [u \in Thread |-> IF u \in failed THEN None ELSE q.next[u]]]
        /\ UNCHANGED message
=============================================================================
