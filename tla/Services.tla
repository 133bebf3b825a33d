------------------------------- MODULE Services -------------------------------
(***************************************************************************)
(* The terminal input service (tty.c) and the file system service (fs.c),  *)
(* two kernel threads, and the processes that call them with messages.     *)
(*                                                                         *)
(* A read of the terminal locks a kernel mutex (sync.c), sends a request   *)
(* and waits for the reply; the characters are in a buffer of the service. *)
(* A call of the file system sends a pointer to the request, which is on   *)
(* the stack of the caller.  Both services answer the main thread of the   *)
(* process that sent the request and both have the pid of the kernel.      *)
(* Characters arrive from the keyboard interrupt and are numbered in the   *)
(* order of typing.                                                        *)
(***************************************************************************)
EXTENDS Ipc, Sequences

CONSTANTS
    Client,     \* processes with one thread each; also their pids
    Tty, Fs,    \* tty_input_service_task, fs_service_task
    Kernel,     \* the pid of both
    MaxLength,  \* longest read
    Length,     \* how many characters a process asks for
    MaxKeys,    \* characters typed in a behaviour
    QueueSize,  \* characters the input ring holds (4095)
    TypeAhead,  \* keys also arrive while no read awaits them
    Programs    \* what processes do ("read", "fs", "send", "receive", "exit") and
                \* what is done to them ("kill"): one of these mappings

ASSUME ServicesAssumption ==
    /\ Thread = Client \cup {Tty, Fs} /\ Tty # Fs /\ {Tty, Fs} \cap Client = {}
    /\ Pid = Client \cup {Kernel} /\ Kernel \notin Client
    /\ PidOf = [t \in Thread |-> IF t \in Client THEN t ELSE Kernel]
    /\ Type = {"none", "user", "read", "read_reply", "fs", "fs_reply"}
    /\ Val = Client \cup (0..MaxLength)
    /\ TypeAhead \in BOOLEAN
    /\ Programs \subseteq
           [Client -> SUBSET {"read", "fs", "send", "receive", "exit", "kill"}]
    /\ MaxLength \in Nat \ {0} /\ Length \in [Client -> 1..MaxLength]
    /\ MaxKeys \in Nat /\ QueueSize \in Nat \ {0}

VARIABLES
    calls,          \* the mapping of this behaviour
    exit_requested,
    locked,         \* tty_input_request_lock.is_locked
    input,          \* input_queue, from input_tail to input_head
    buffer,         \* tty_input_reply_buffer
    count,          \* characters the service has put there
    typed,          \* characters typed so far
    delivered,      \* the last character that a read has returned
    served          \* the request of a client's present call was carried out

local == <<exit_requested, locked, input, buffer, count, typed, delivered, served, calls>>
vars == <<ipc, local>>

Init ==
    /\ IpcInit
    /\ calls \in Programs
    /\ pc = [t \in Thread |-> IF t \in Client THEN "user"
                              ELSE IF t = Tty THEN "s_receive" ELSE "q_receive"]
    /\ exit_requested = [c \in Client |-> FALSE]
    /\ locked = FALSE
    /\ input = <<>> /\ buffer = [i \in 1..MaxLength |-> 0] /\ count = 0
    /\ typed = 0 /\ delivered = 0
    /\ served = [c \in Client |-> FALSE]

Msg(type, val) == [src |-> Kernel, type |-> type, val |-> val]

\* A step of t's own code in the kernel, outside ipc.c.
Local(t, l) ==
    /\ Goto(t, l) /\ InKernel(t)
    /\ UNCHANGED <<status, irq_on, call, ret, got, partner>>

-----------------------------------------------------------------------------
(* tty_service_read.                                                       *)

ReadCall(c) ==
    /\ "read" \in calls[c] /\ At(c, "user")
    /\ Local(c, "acquire")
    /\ UNCHANGED local

\* The mutex is free: the request is sent.
MutexAcquire(c) ==
    /\ At(c, "acquire") /\ ~locked
    /\ locked' = TRUE
    /\ Send(c, Tty, Msg("read", Length[c]), "r_sent")
    /\ UNCHANGED <<exit_requested, input, buffer, count, typed, delivered, served, calls>>

MutexWaits(c) ==
    /\ At(c, "acquire") /\ locked
    /\ status' = [status EXCEPT ![c] = "BLOCKED"] /\ cpu' = None
    /\ UNCHANGED <<irq_on, pc, call, ret, got, partner, local>>

ReadReceive(c) ==
    /\ At(c, "r_sent") /\ ret[c] = 0 /\ Receive(c, Kernel, "r_got")
    /\ UNCHANGED local

\* The reply is the right one: its characters are copied to the caller, who
\* sees them unless it has been killed.
ReplyOK(c) == ret[c] = 0 /\ got[c].type = "read_reply" /\ got[c].val <= Length[c]

ReadDone(c) ==
    /\ At(c, "r_got") /\ ReplyOK(c)
    /\ delivered' = IF exit_requested[c] THEN delivered
                    ELSE buffer[got[c].val]
    /\ Local(c, "release")
    /\ UNCHANGED <<exit_requested, locked, input, buffer, count, typed, served, calls>>

ReadFails(c) ==
    /\ \/ At(c, "r_sent") /\ ret[c] # 0
       \/ At(c, "r_got") /\ ~ReplyOK(c)
    /\ Local(c, "release")
    /\ UNCHANGED local

\* Mutant of MutexRelease: nobody wakes.
MutexRelease_silent(c) ==
    /\ At(c, "release")
    /\ locked' = FALSE
    /\ Local(c, "ret")
    /\ UNCHANGED <<exit_requested, input, buffer, count, typed, delivered, served, calls>>

\* mutex_release: the first waiter in the ring, if there is one, wakes.
MutexRelease(c) ==
    /\ At(c, "release")
    /\ locked' = FALSE
    /\ LET waiters == {u \in Client : status[u] = "BLOCKED" /\ pc[u] = "acquire"}
       IN  \/ waiters = {} /\ UNCHANGED status
           \/ \E u \in waiters : status' = Unblocked({u})
    /\ Goto(c, "ret") /\ InKernel(c)
    /\ UNCHANGED <<irq_on, call, ret, got, partner>>
    /\ UNCHANGED <<exit_requested, input, buffer, count, typed, delivered, served, calls>>

-----------------------------------------------------------------------------
(* fs_service_call, SYS_SEND, SYS_RECEIVE, and the end of a process.       *)

FsCall(c) ==
    /\ "fs" \in calls[c] /\ At(c, "user")
    /\ Send(c, Fs, Msg("fs", c), "f_sent")
    /\ UNCHANGED local

\* Mutant of FsReceive: a reply from anyone will do.
FsReceive_any(c) ==
    /\ At(c, "f_sent") /\ ret[c] = 0 /\ Receive(c, IPC_ANY, "f_got")
    /\ UNCHANGED local

FsReceive(c) ==
    /\ At(c, "f_sent") /\ ret[c] = 0 /\ Receive(c, Kernel, "f_got")
    /\ UNCHANGED local

FsDone(c) ==
    /\ \/ At(c, "f_sent") /\ ret[c] # 0
       \/ At(c, "f_got")
    /\ Local(c, "ret")
    /\ UNCHANGED local

UserSend(c, d) ==
    /\ "send" \in calls[c] /\ At(c, "user") /\ c # d
    /\ Send(c, d, Msg("user", 0), "ret")
    /\ UNCHANGED local

UserReceive(c, source) ==
    /\ "receive" \in calls[c] /\ At(c, "user")
    /\ Receive(c, source, "ret")
    /\ UNCHANGED local

\* syscall_handler: a process that is not marked returns to user mode.
SyscallReturn(c) ==
    /\ At(c, "ret") /\ ~exit_requested[c]
    /\ Goto(c, "user") /\ cpu' = None /\ NoResult(c)
    /\ served' = [served EXCEPT ![c] = FALSE]
    /\ UNCHANGED <<status, irq_on, call, partner>>
    /\ UNCHANGED <<exit_requested, locked, input, buffer, count, typed, delivered, calls>>

\* process_exit: by SYS_EXIT, or because the process is marked, at the end of
\* a system call or of a timer interrupt.
Exit(c) ==
    /\ \/ At(c, "user") /\ (exit_requested[c] \/ "exit" \in calls[c])
       \/ At(c, "ret") /\ exit_requested[c]
    /\ Abort(c)
    /\ status' = [Unblocked(Senders(c)) EXCEPT ![c] = "ZOMBIE"]
    /\ exit_requested' = [exit_requested EXCEPT ![c] = TRUE]
    /\ Goto(c, "user") /\ cpu' = None /\ NoResult(c)
    /\ served' = [served EXCEPT ![c] = FALSE]
    /\ UNCHANGED <<irq_on, call>>
    /\ UNCHANGED <<locked, input, buffer, count, typed, delivered, calls>>

\* request_process_termination, called for another process or from the
\* keyboard interrupt.
Kill(c) ==
    /\ "kill" \in calls[c] /\ cpu = None /\ status[c] # "ZOMBIE"
    /\ exit_requested' = [exit_requested EXCEPT ![c] = TRUE]
    /\ Abort(c)
    /\ status' = Unblocked(Senders(c) \cup {c})
    /\ UNCHANGED <<cpu, irq_on, pc, call, ret, got>>
    /\ UNCHANGED <<locked, input, buffer, count, typed, delivered, served, calls>>

-----------------------------------------------------------------------------
(* tty_input_service_main and the keyboard interrupt.                      *)

TtyReceive ==
    /\ At(Tty, "s_receive") /\ Receive(Tty, IPC_ANY, "s_got")
    /\ UNCHANGED local

\* A read request is accepted, anything else ignored.
TtyRequest ==
    /\ At(Tty, "s_got")
    /\ Local(Tty, IF ret[Tty] = 0 /\ got[Tty].type = "read" THEN "s_first" ELSE "s_receive")
    /\ UNCHANGED local

\* tty_take_input_char, into place i of the buffer.
Take(i) ==
    /\ input # <<>>
    /\ buffer' = [buffer EXCEPT ![i] = Head(input)]
    /\ input' = Tail(input)
    /\ count' = i
    /\ UNCHANGED <<exit_requested, locked, typed, delivered, served, calls>>

\* cli, a look at the ring, and sti or thread_block.
TtyFirst ==
    /\ At(Tty, "s_first")
    /\ \/ /\ Take(1)
          /\ Goto(Tty, "s_more") /\ irq_on' = irq_on \cup {Tty}
          /\ UNCHANGED status
       \/ /\ input = <<>> /\ count' = 0
          /\ Goto(Tty, "s_woken")
          /\ status' = [status EXCEPT ![Tty] = "BLOCKED"]
          /\ UNCHANGED <<irq_on, exit_requested, locked, input, buffer, typed, delivered, served, calls>>
    /\ cpu' = None
    /\ UNCHANGED <<call, ret, got, partner>>

TtyWoken ==
    /\ At(Tty, "s_woken")
    /\ Goto(Tty, "s_first") /\ irq_on' = irq_on \cup {Tty} /\ cpu' = None
    /\ UNCHANGED <<status, call, ret, got, partner, local>>

\* Mutant of TtyMore: the result of tty_take_input_char is not looked at.
TtyMore_blind ==
    /\ At(Tty, "s_more")
    /\ \/ count < got[Tty].val /\ Take(count + 1) /\ Local(Tty, "s_more")
       \/ /\ count = got[Tty].val \/ input = <<>>
          /\ count' = got[Tty].val /\ Local(Tty, "s_reply")
          /\ UNCHANGED <<exit_requested, locked, input, buffer, typed, delivered, served, calls>>

\* Further characters, as many as are there.
TtyMore ==
    /\ At(Tty, "s_more")
    /\ \/ count < got[Tty].val /\ Take(count + 1) /\ Local(Tty, "s_more")
       \/ (count = got[Tty].val \/ input = <<>>) /\ Local(Tty, "s_reply") /\ UNCHANGED local

TtyReply ==
    /\ At(Tty, "s_reply")
    /\ \/ status[got[Tty].src] = "ZOMBIE" /\ Local(Tty, "s_receive")
       \/ /\ status[got[Tty].src] # "ZOMBIE"
          /\ Send(Tty, got[Tty].src, Msg("read_reply", count), "s_receive")
    /\ UNCHANGED local

\* A process that nobody has killed waits for the answer to its read.
Awaited ==
    \E c \in Client : status[c] = "BLOCKED" /\ pc[c] \in {"r_sent", "r_got"} /\ ~exit_requested[c]

\* tty_input_char, from the keyboard interrupt: a full ring drops the new
\* character, or the oldest one if the new one is a control character; the
\* service wakes if it is blocked.
Key(control) ==
    /\ cpu = None /\ typed < MaxKeys
    /\ TypeAhead \/ Awaited
    /\ typed' = typed + 1
    /\ LET full == Len(input) = QueueSize
       IN  /\ input' = IF ~full THEN Append(input, typed')
                       ELSE IF control THEN Append(Tail(input), typed') ELSE input
           /\ status' = IF full /\ ~control THEN status ELSE Unblocked({Tty})
    /\ UNCHANGED <<cpu, irq_on, pc, call, ret, got, partner>>
    /\ UNCHANGED <<exit_requested, locked, buffer, count, delivered, served, calls>>

-----------------------------------------------------------------------------
(* fs_service_main.                                                        *)

FsServe ==
    /\ At(Fs, "q_receive") /\ Receive(Fs, IPC_ANY, "q_got")
    /\ UNCHANGED local

FsIgnore ==
    /\ At(Fs, "q_got") /\ ~(ret[Fs] = 0 /\ got[Fs].type = "fs")
    /\ Local(Fs, "q_receive")
    /\ UNCHANGED local

\* The request is carried out through its pointer and answered.
FsHandle ==
    /\ At(Fs, "q_got") /\ ret[Fs] = 0 /\ got[Fs].type = "fs"
    /\ served' = [served EXCEPT ![got[Fs].val] = TRUE]
    /\ \/ status[got[Fs].src] = "ZOMBIE" /\ Local(Fs, "q_receive")
       \/ /\ status[got[Fs].src] # "ZOMBIE"
          /\ Send(Fs, got[Fs].src, Msg("fs_reply", 0), "q_receive")
    /\ UNCHANGED <<exit_requested, locked, input, buffer, count, typed, delivered, calls>>
-----------------------------------------------------------------------------
IpcStep(t) ==
    (ThreadBlock(t) \/ SendReturns(t) \/ ReceiveReturns(t)) /\ UNCHANGED local

ClientCall(c) ==
    \/ ReadCall(c) \/ FsCall(c)
    \/ \E d \in Client : UserSend(c, d)
    \/ \E s \in Pid \cup {IPC_ANY} : UserReceive(c, s)

ClientStep(c) ==
    \/ IpcStep(c)
    \/ MutexAcquire(c) \/ MutexWaits(c) \/ ReadReceive(c)
    \/ ReadDone(c) \/ ReadFails(c) \/ MutexRelease(c)
    \/ FsReceive(c) \/ FsDone(c)
    \/ SyscallReturn(c) \/ Exit(c)

TtyStep ==
    IpcStep(Tty) \/ TtyReceive \/ TtyRequest \/ TtyFirst \/ TtyWoken \/ TtyMore \/ TtyReply

FsStep == IpcStep(Fs) \/ FsServe \/ FsIgnore \/ FsHandle

Next ==
    \/ \E c \in Client : ClientCall(c) \/ ClientStep(c) \/ Kill(c)
    \/ TtyStep \/ FsStep
    \/ \E control \in BOOLEAN : Key(control)

\* Round robin: a ready thread runs again and again.  (A process need not
\* make calls, and keys need not be typed.)
Fairness ==
    /\ \A c \in Client : SF_vars(ClientStep(c))
    /\ SF_vars(TtyStep) /\ SF_vars(FsStep)

Spec == Init /\ [][Next]_vars /\ Fairness
-----------------------------------------------------------------------------
(* Properties.                                                             *)

Labels == [client |-> {"user", "acquire", "r_sent", "r_got", "release",
                       "f_sent", "f_got", "ret"},
           tty |-> {"s_receive", "s_got", "s_first", "s_woken", "s_more", "s_reply"},
           fs |-> {"q_receive", "q_got"}]

\* Type invariant.
TypeOK ==
    /\ status \in [Thread -> {"READY", "BLOCKED", "ZOMBIE"}]
    /\ cpu \in Thread \cup {None} /\ irq_on \subseteq {Tty}
    /\ \A c \in Client : pc[c] \in Labels.client
    /\ pc[Tty] \in Labels.tty /\ pc[Fs] \in Labels.fs
    /\ call \in [Thread -> {"none", "send", "receive", "sending", "receiving"}]
    /\ ret \in [Thread -> {0, -1}] /\ ipc_status \in [Thread -> {0, -1}]
    /\ got \in [Thread -> Message] /\ message \in [Thread -> Message]
    /\ sending \in [Thread -> BOOLEAN] /\ receiving \in [Thread -> BOOLEAN]
    /\ receive_from \in [Thread -> Pid \cup {IPC_ANY}]
    /\ waiting_for \in [Thread -> Thread \cup {None}]
    /\ \A f \in {"head", "tail", "next"} : queues[f] \in [Thread -> Thread \cup {None}]
    /\ exit_requested \in [Client -> BOOLEAN] /\ locked \in BOOLEAN
    /\ count \in 0..MaxLength
    /\ input \in Seq(1..MaxKeys) /\ Len(input) <= QueueSize
    /\ buffer \in [1..MaxLength -> 0..MaxKeys] /\ typed \in 0..MaxKeys
    /\ delivered \in 0..MaxKeys
    /\ served \in [Client -> BOOLEAN]

\* ipc.c: the list of a receiver ends, ends at its tail, holds exactly the
\* threads that say they are sending to it, none of them dead, and a dead
\* thread has none: no pointer to a thread that is gone stays in a list.
IpcExact ==
    /\ TypeOK
    /\ \A r \in Thread :
           LET list == Senders(r) IN
           /\ Walk(r)[Cardinality(Thread)] = None
           /\ IF list = {} THEN queues.tail[r] = None
              ELSE queues.tail[r] \in list /\ queues.next[queues.tail[r]] = None
           /\ list = {t \in Thread : sending[t] /\ waiting_for[t] = r}
           /\ list # {} => status[r] # "ZOMBIE"
           /\ \A t \in list : status[t] # "ZOMBIE"

\* ipc_send, ipc_receive: nobody sleeps beside its partner.  A thread asleep
\* in a send is in the list of a living thread that does not wait for it; a
\* thread asleep in a receive has no sender that its filter accepts.  (The
\* terminal service is left out: it can be preempted before it sleeps.)
NoMissedPartner ==
    \A t \in Thread \ {Tty} : status[t] = "BLOCKED" =>
        /\ call[t] = "sending" =>
               /\ sending[t] /\ status[waiting_for[t]] # "ZOMBIE"
               /\ ~(receiving[waiting_for[t]] /\ source_matches(waiting_for[t], t))
        /\ call[t] = "receiving" =>
               receiving[t] /\ Accepted(t, receive_from[t]) = {}

\* tty_input_request_lock: whatever happens to the processes, a locked mutex
\* has exactly one holder and nobody is asleep for an unlocked one.
LockHeld ==
    LET holders == {c \in Client : status[c] # "ZOMBIE"
                                   /\ pc[c] \in {"r_sent", "r_got", "release"}}
        asleep == {c \in Client : status[c] = "BLOCKED" /\ pc[c] = "acquire"}
        awake == {c \in Client : status[c] = "READY" /\ pc[c] = "acquire"}
    IN  /\ Cardinality(holders) = IF locked THEN 1 ELSE 0
        /\ asleep # {} /\ ~locked => awake # {}

\* tty_service_read: no character is returned twice, none out of order, and
\* none that was not typed.
InputOnce ==
    \A c \in Client : At(c, "r_got") /\ ReplyOK(c) /\ ~exit_requested[c] =>
        LET n == got[c].val IN
        /\ n > 0 /\ delivered < buffer[1]
        /\ \A i \in 2..n : buffer[i - 1] < buffer[i]

\* fs_service_call: when the service takes up the request of a process that
\* is not killed, the process is still in the call (the request is on its
\* stack); a call that succeeds was carried out.
FsServed ==
    /\ At(Fs, "q_got") /\ ret[Fs] = 0 /\ got[Fs].type = "fs" =>
           \/ exit_requested[got[Fs].val]
           \/ pc[got[Fs].val] \in {"f_sent", "f_got"} /\ call[got[Fs].val] # "none"
    /\ \A c \in Client :
           At(c, "f_got") /\ ret[c] = 0 /\ got[c].type = "fs_reply" /\ ~exit_requested[c]
               => served[c]

\* fs_service_call: the call of a process that is not killed ends, as long as
\* no reply of the service has been aborted.
FsCallsEnd ==
    \A c \in Client :
        pc[c] \in {"f_sent", "f_got"} ~>
            pc[c] \in {"user", "ret"} \/ exit_requested[c] \/ ipc_status[Fs] # 0

\* tty_input_service_main: no keyboard event is lost.  A character that was
\* typed reaches the process that waits in a read, or a later one was
\* returned (the ring was full), or nobody waits any more.
NoKeyLost ==
    \A k \in 1..MaxKeys : typed >= k /\ Awaited ~> delivered >= k \/ ~Awaited
=============================================================================
