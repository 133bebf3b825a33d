-------------------------------- MODULE Files --------------------------------
(***************************************************************************)
(* File objects, descriptor tables and pipes (file.c, the calls on         *)
(* descriptors in syscall.c, fork and exit in process.c).                  *)
(*                                                                         *)
(* A call takes a reference to the file object of its descriptor and gives *)
(* it back before it returns.  It runs with interrupts off and leaves the  *)
(* CPU only where a pipe is empty or full (cpu = None), so everything up   *)
(* to there is one stretch.  Bytes are numbered in the order of writing,   *)
(* modulo Wrap.  Offsets and contents of regular files belong to the file  *)
(* system: a read or write of one only takes and returns a reference.      *)
(***************************************************************************)
EXTENDS Integers, FiniteSets

CONSTANTS
    Thread, Process,
    Boot, Shell,    \* the thread and the process of Init
    Pipe,           \* pipe objects
    Regular,        \* file objects of regular files
    Std, Slot,      \* descriptors of stdio[] and of files[] (numbers)
    Capacity,       \* PIPE_CAPACITY
    MaxLength,      \* longest read or write (4096)
    Wrap,           \* bytes are numbered modulo this
    Programs,       \* sets of calls: a behaviour uses those of one
    MaxLost,        \* references that calls without memory leave behind
    None

Fd == Std \cup Slot
End == {"read", "write"}
File == Regular \cup (Pipe \X End)

ASSUME FilesAssumption ==
    /\ Boot \in Thread /\ Shell \in Process
    /\ None \notin Thread \cup Process \cup Pipe \cup File
    /\ IsFiniteSet(Thread) /\ IsFiniteSet(Process) /\ IsFiniteSet(Fd)
    /\ IsFiniteSet(Regular) /\ Regular \cap (Pipe \X End) = {}
    /\ Std \subseteq Nat /\ Slot \subseteq Nat /\ Std \cap Slot = {}
    /\ Capacity \in Nat \ {0} /\ MaxLength \in Nat \ {0}
    /\ Programs \subseteq SUBSET {"open", "close", "dup", "dup2", "touch", "nomem", "pipe",
                              "readwrite", "long", "create", "fork", "forkfails", "kill"}
    /\ Wrap \in Nat /\ Wrap > Capacity /\ MaxLost \in Nat

VARIABLES
    calls,          \* the set of this behaviour
    proc,           \* the process of a thread, None for an object not in use
    parent, main_thread,
    used,           \* processes that exist or have existed
    exit_requested,
    cpu,            \* the thread inside a call, None in user mode
    pc,             \* "user", "pipe", "read", "write"
    len,            \* bytes that a blocked call still asks for
    held,           \* file objects a call has a reference to
    waiting_lock,   \* the pipe a thread is BLOCKED on
    desc,           \* stdio[] and files[] of a process
    refs,           \* of a file object, 0 once it is freed
    readers, writers,
    opens,          \* open references to inodes that fs.c counts
    pipe,           \* the ring of a pipe
    lost            \* references whose holder is gone, for the properties only

tasks == <<calls, proc, parent, main_thread, used, exit_requested>>
objects == <<refs, readers, writers, opens>>
vars == <<tasks, cpu, pc, len, held, waiting_lock, desc, objects, pipe, lost>>

Threads(p) == {t \in Thread : proc[t] = p}

\* A pipe after memset; bytes are numbered from 0.
EmptyPipe == [data |-> [i \in 0..Capacity-1 |-> 0],
              head |-> 0, tail |-> 0, count |-> 0, sent |-> 0, taken |-> 0]

Init ==
    /\ calls \in Programs
    /\ proc = [t \in Thread |-> IF t = Boot THEN Shell ELSE None]
    /\ parent = [p \in Process |-> None]
    /\ main_thread = [p \in Process |-> IF p = Shell THEN Boot ELSE None]
    /\ used = {Shell}
    /\ exit_requested = [p \in Process |-> FALSE]
    /\ cpu = None
    /\ pc = [t \in Thread |-> "user"] /\ len = [t \in Thread |-> 0]
    /\ held = [t \in Thread |-> {}]
    /\ waiting_lock = [t \in Thread |-> None]
    /\ desc = [p \in Process |-> [d \in Fd |-> None]]
    /\ refs = [f \in File |-> 0]
    /\ readers = [q \in Pipe |-> 0] /\ writers = [q \in Pipe |-> 0]
    /\ opens = 0
    /\ pipe = [q \in Pipe |-> EmptyPipe]
    /\ lost = [f \in File |-> 0]

-----------------------------------------------------------------------------
(* References.  A call may take and return several: get[f] and give[f] are *)
(* how many of f.                                                          *)

Nothing == [g \in File |-> 0]
Each(S) == [g \in File |-> IF g \in S THEN 1 ELSE 0]
Table(p) == [g \in File |-> Cardinality({d \in Fd : desc[p][d] = g})]

\* References are counted down to 0 and not below.
Minus(a, b) == IF a >= b THEN a - b ELSE 0

\* wake_pipe_waiters for each pipe of Q, among the waiters w.
Woken(w, Q) == [t \in Thread |-> IF w[t] \in Q THEN None ELSE w[t]]

Touched(n) == {q \in Pipe : n[<<q, "read">>] + n[<<q, "write">>] > 0}

\* The same, but a release wakes nobody.
Exchange_silent(get, give, ring, w) ==
    /\ refs' = [f \in File |-> Minus(refs[f] + get[f], give[f])]
    /\ readers' = [q \in Pipe |-> Minus(readers[q] + get[<<q, "read">>], give[<<q, "read">>])]
    /\ writers' = [q \in Pipe |-> Minus(writers[q] + get[<<q, "write">>], give[<<q, "write">>])]
    /\ opens' = opens - Cardinality({f \in Regular : refs[f] > 0 /\ refs'[f] = 0})
    /\ pipe' = [q \in Pipe |-> IF readers'[q] = 0 /\ writers'[q] = 0
                               THEN EmptyPipe ELSE ring[q]]
    /\ waiting_lock' = w

\* file_retain of get, then file_release of give.  The last reference frees the
\* object and closes the inode, the last one to both ends frees the pipe (which
\* is cleared here), and each release wakes those who wait for the pipe.  ring
\* and w are the pipes and the waiters before it.
Exchange(get, give, ring, w) ==
    /\ refs' = [f \in File |-> Minus(refs[f] + get[f], give[f])]
    /\ readers' = [q \in Pipe |-> Minus(readers[q] + get[<<q, "read">>], give[<<q, "read">>])]
    /\ writers' = [q \in Pipe |-> Minus(writers[q] + get[<<q, "write">>], give[<<q, "write">>])]
    /\ opens' = opens - Cardinality({f \in Regular : refs[f] > 0 /\ refs'[f] = 0})
    /\ pipe' = [q \in Pipe |-> IF readers'[q] = 0 /\ writers'[q] = 0
                               THEN EmptyPipe ELSE ring[q]]
    /\ waiting_lock' = Woken(w, Touched(give))

Retain(n) == Exchange(n, Nothing, pipe, waiting_lock)
Release(n) == Exchange(Nothing, n, pipe, waiting_lock)

-----------------------------------------------------------------------------
(* Calls that do not block.                                                *)

\* Thread t is in user mode and makes call c; not if its process is to end.
User(t) == cpu = None /\ proc[t] # None /\ pc[t] = "user"
Calls(t, c) == User(t) /\ c \in calls /\ ~exit_requested[proc[t]]

\* The object of a descriptor of t's process.
Object(t, d) == desc[proc[t]][d]

FreeSlots(p) == {d \in Slot : desc[p][d] = None}
Lowest(S) == CHOOSE d \in S : \A e \in S : d <= e

\* install_file_object in the first free place of files[].
Install(p, f) == [desc[p] EXCEPT ![Lowest(FreeSlots(p))] = f]

\* SYS_OPEN, once the file system service has opened the inode.  The failures
\* return the inode and the object.
Open(t) ==
    /\ Calls(t, "open") /\ FreeSlots(proc[t]) # {}
    /\ \E f \in Regular :
         /\ refs[f] = 0
         /\ refs' = [refs EXCEPT ![f] = 1]
         /\ desc' = [desc EXCEPT ![proc[t]] = Install(proc[t], f)]
    /\ opens' = opens + 1
    /\ UNCHANGED <<tasks, cpu, pc, len, held, waiting_lock, readers, writers, pipe, lost>>

\* SYS_CLOSE.
Close(t, d) ==
    /\ Calls(t, "close") /\ Object(t, d) # None
    /\ desc' = [desc EXCEPT ![proc[t]][d] = None]
    /\ Release(Each({Object(t, d)}))
    /\ UNCHANGED <<tasks, cpu, pc, len, held, lost>>

\* SYS_DUP with room in the table.
Dup(t, d) ==
    /\ Calls(t, "dup") /\ Object(t, d) # None /\ FreeSlots(proc[t]) # {}
    /\ Retain(Each({Object(t, d)}))
    /\ desc' = [desc EXCEPT ![proc[t]] = Install(proc[t], Object(t, d))]
    /\ UNCHANGED <<tasks, cpu, pc, len, held, lost>>

\* The same, but the replaced object keeps its reference.
Dup2_keeps(t, d, e) ==
    /\ Calls(t, "dup2") /\ d # e /\ Object(t, d) # None
    /\ desc' = [desc EXCEPT ![proc[t]][e] = Object(t, d)]
    /\ Retain(Each({Object(t, d)}))
    /\ UNCHANGED <<tasks, cpu, pc, len, held, lost>>

\* SYS_DUP2: the new reference first, then the release of what it replaces.
Dup2(t, d, e) ==
    /\ Calls(t, "dup2") /\ d # e /\ Object(t, d) # None
    /\ desc' = [desc EXCEPT ![proc[t]][e] = Object(t, d)]
    /\ Exchange(Each({Object(t, d)}), Each({Object(t, e)}), pipe, waiting_lock)
    /\ UNCHANGED <<tasks, cpu, pc, len, held, lost>>

\* A call that takes a reference and gives it back at once: a read or write of
\* a regular file or of the wrong end, a write of 0 bytes or without memory or
\* from a bad address, dup with a full table, dup2 onto itself.
Touch(t, d) ==
    /\ Calls(t, "touch") /\ Object(t, d) # None
    /\ Exchange(Each({Object(t, d)}), Each({Object(t, d)}), pipe, waiting_lock)
    /\ UNCHANGED <<tasks, cpu, pc, len, held, desc, lost>>

\* SYS_READ without memory for the data: it returns with its reference.
ReadNoMemory(t, d) ==
    /\ Calls(t, "nomem") /\ Object(t, d) # None
    /\ lost[Object(t, d)] < MaxLost
    /\ Retain(Each({Object(t, d)}))
    /\ lost' = [lost EXCEPT ![Object(t, d)] = @ + 1]
    /\ UNCHANGED <<tasks, cpu, pc, len, held, desc>>

\* SYS_PIPE: pipe_create makes a pipe and an object for each end.  When memory
\* ends half way it frees what it has.
PipeCreate(t) ==
    /\ Calls(t, "pipe")
    /\ \E q \in Pipe :
         /\ readers[q] = 0 /\ writers[q] = 0
         /\ readers' = [readers EXCEPT ![q] = 1]
         /\ writers' = [writers EXCEPT ![q] = 1]
         /\ refs' = [f \in File |-> IF f \in {q} \X End THEN 1 ELSE refs[f]]
         /\ held' = [held EXCEPT ![t] = {q} \X End]
    /\ cpu' = t /\ pc' = [pc EXCEPT ![t] = "pipe"]
    /\ UNCHANGED <<tasks, len, waiting_lock, desc, opens, pipe, lost>>

\* Both ends are installed and their descriptors copied to the user.
PipeInstall(t) ==
    LET p == proc[t]
        first == Lowest(FreeSlots(p))
        second == Lowest(FreeSlots(p) \ {first})
    IN  /\ cpu = t /\ pc[t] = "pipe" /\ Cardinality(FreeSlots(p)) >= 2
        /\ \E q \in Pipe :
             /\ held[t] = {q} \X End
             /\ desc' = [desc EXCEPT ![p][first] = <<q, "read">>,
                                     ![p][second] = <<q, "write">>]
        /\ held' = [held EXCEPT ![t] = {}]
        /\ cpu' = None /\ pc' = [pc EXCEPT ![t] = "user"]
        /\ UNCHANGED <<tasks, len, waiting_lock, objects, pipe, lost>>

\* The table is full or the address is bad: installed descriptors are taken
\* back and both ends released.
PipeFails(t) ==
    /\ cpu = t /\ pc[t] = "pipe"
    /\ Release(Each(held[t]))
    /\ held' = [held EXCEPT ![t] = {}]
    /\ cpu' = None /\ pc' = [pc EXCEPT ![t] = "user"]
    /\ UNCHANGED <<tasks, len, desc, lost>>

-----------------------------------------------------------------------------
(* Reading and writing a pipe.                                             *)

\* How many bytes programs ask for.
Lengths == IF "long" \in calls THEN 1..MaxLength ELSE {1}

\* SYS_READ of a read end and SYS_WRITE to a write end of a pipe.
ReadWriteCall(t, d, n) ==
    /\ Calls(t, "readwrite") /\ Object(t, d) \in Pipe \X End
    /\ Retain(Each({Object(t, d)}))
    /\ held' = [held EXCEPT ![t] = {Object(t, d)}]
    /\ len' = [len EXCEPT ![t] = n]
    /\ cpu' = t /\ pc' = [pc EXCEPT ![t] = Object(t, d)[2]]
    /\ UNCHANGED <<tasks, desc, lost>>

\* Thread t runs the loop of pipe_read (e = "read") or pipe_write on pipe q: it
\* has just called it, or it has been woken and is scheduled.
Loop(t, e, q) ==
    /\ cpu \in {t, None} /\ pc[t] = e /\ waiting_lock[t] = None
    /\ held[t] = {<<q, e>>}

\* The call ends: its reference is given back.
Returns(t, f, ring, w) ==
    /\ Exchange(Nothing, Each({f}), ring, w)
    /\ held' = [held EXCEPT ![t] = {}] /\ len' = [len EXCEPT ![t] = 0]
    /\ cpu' = None /\ pc' = [pc EXCEPT ![t] = "user"]
    /\ UNCHANGED <<tasks, desc, lost>>

\* thread_block_with_lock.
Blocks(t, q) ==
    /\ waiting_lock' = [waiting_lock EXCEPT ![t] = q] /\ cpu' = None
    /\ UNCHANGED <<tasks, pc, len, held, desc, objects, pipe, lost>>

Smaller(a, b) == IF a < b THEN a ELSE b

\* The ring after n bytes were taken out, or put in.
TakeBytes(r, n) ==
    [r EXCEPT !.head = (@ + n) % Capacity, !.count = @ - n, !.taken = (@ + n) % Wrap]

\* The same, but bytes beyond the end of the array are not stored at its start.
PutBytes_unwrapped(r, n) ==
    [r EXCEPT !.data = [i \in 0..Capacity-1 |->
                          IF i \in r.tail..(r.tail + n - 1)
                          THEN (r.sent + i - r.tail) % Wrap ELSE @[i]],
              !.tail = (@ + n) % Capacity, !.count = @ + n, !.sent = (@ + n) % Wrap]

PutBytes(r, n) ==
    [r EXCEPT !.data = [i \in 0..Capacity-1 |->
                          LET k == (i - r.tail + Capacity) % Capacity
                          IN  IF k < n THEN (r.sent + k) % Wrap ELSE @[i]],
              !.tail = (@ + n) % Capacity, !.count = @ + n, !.sent = (@ + n) % Wrap]

\* pipe_read finds bytes.  They are gone even when the copy to the user fails.
PipeRead(t, q) ==
    LET n == Smaller(len[t], pipe[q].count)
    IN  /\ Loop(t, "read", q) /\ pipe[q].count # 0
        /\ Returns(t, <<q, "read">>, [pipe EXCEPT ![q] = TakeBytes(@, n)],
                   Woken(waiting_lock, {q}))

\* No byte will ever come.
PipeReadEnd(t, q) ==
    /\ Loop(t, "read", q) /\ pipe[q].count = 0 /\ writers[q] = 0
    /\ Returns(t, <<q, "read">>, pipe, waiting_lock)

\* The same, but nobody looks whether a writer is left.
PipeReadBlocks_unchecked(t, q) ==
    /\ Loop(t, "read", q) /\ pipe[q].count = 0
    /\ Blocks(t, q)

PipeReadBlocks(t, q) ==
    /\ Loop(t, "read", q) /\ pipe[q].count = 0 /\ writers[q] # 0
    /\ Blocks(t, q)

\* pipe_write puts in what there is room for.
PipeWrite(t, q) ==
    LET n == Smaller(len[t], Capacity - pipe[q].count)
    IN  /\ Loop(t, "write", q) /\ readers[q] # 0 /\ pipe[q].count < Capacity
        /\ Returns(t, <<q, "write">>, [pipe EXCEPT ![q] = PutBytes(@, n)],
                   Woken(waiting_lock, {q}))

\* Nobody can read any more.
PipeWriteBroken(t, q) ==
    /\ Loop(t, "write", q) /\ readers[q] = 0
    /\ Returns(t, <<q, "write">>, pipe, waiting_lock)

PipeWriteBlocks(t, q) ==
    /\ Loop(t, "write", q) /\ readers[q] # 0 /\ pipe[q].count = Capacity
    /\ Blocks(t, q)

-----------------------------------------------------------------------------
(* Threads and processes.                                                  *)

\* A process gets a second thread.
ThreadCreate(t, u) ==
    /\ Calls(t, "create") /\ proc[u] = None
    /\ proc' = [proc EXCEPT ![u] = proc[t]]
    /\ UNCHANGED <<calls, parent, main_thread, used, exit_requested, cpu, pc, len, held, waiting_lock,
                   desc, objects, pipe, lost>>

\* process_fork of a process with one thread: the child, with thread u, has the
\* same descriptors.
Fork(t, u, c) ==
    /\ Calls(t, "fork") /\ Threads(proc[t]) = {t} /\ proc[u] = None /\ c \notin used
    /\ Retain(Table(proc[t]))
    /\ desc' = [desc EXCEPT ![c] = desc[proc[t]]]
    /\ proc' = [proc EXCEPT ![u] = c] /\ used' = used \cup {c}
    /\ parent' = [parent EXCEPT ![c] = proc[t]] /\ main_thread' = [main_thread EXCEPT ![c] = u]
    /\ UNCHANGED <<calls, exit_requested, cpu, pc, len, held, lost>>

\* No thread object for the child: its table is closed again.
ForkFails(t) ==
    /\ Calls(t, "forkfails") /\ Threads(proc[t]) = {t}
    /\ Exchange(Table(proc[t]), Table(proc[t]), pipe, waiting_lock)
    /\ UNCHANGED <<tasks, cpu, pc, len, held, desc, lost>>

\* request_process_termination: by another process, or a key.  Threads that
\* wait for a pipe go round its loop once more.
Kill(p) ==
    /\ "kill" \in calls /\ cpu = None /\ Threads(p) # {}
    /\ exit_requested' = [exit_requested EXCEPT ![p] = TRUE]
    /\ waiting_lock' = [t \in Thread |-> IF proc[t] = p THEN None ELSE waiting_lock[t]]
    /\ UNCHANGED <<calls, proc, parent, main_thread, used, cpu, pc, len, held, desc, objects, pipe, lost>>

\* process_exit by thread t: the other threads are freed where they are, and
\* what they hold is never given back; the table is closed; the main thread of
\* the parent is woken from whatever it waits for.
ProcessExit(t) ==
    LET p == proc[t]
        gone == Threads(p)
        On(f) == {u \in gone : f \in held[u]}
        woken == gone \cup {u \in Thread : parent[p] # None /\ u = main_thread[parent[p]]}
        w == [u \in Thread |-> IF u \in woken THEN None ELSE waiting_lock[u]]
    IN  /\ User(t)
        /\ Exchange(Nothing, Table(p), pipe, w)
        /\ lost' = [f \in File |-> lost[f] + Cardinality(On(f))]
        /\ held' = [u \in Thread |-> IF u \in gone THEN {} ELSE held[u]]
        /\ len' = [u \in Thread |-> IF u \in gone THEN 0 ELSE len[u]]
        /\ pc' = [u \in Thread |-> IF u \in gone THEN "user" ELSE pc[u]]
        /\ proc' = [u \in Thread |-> IF u \in gone THEN None ELSE proc[u]]
        /\ desc' = [desc EXCEPT ![p] = [d \in Fd |-> None]]
        /\ parent' = [c \in Process |-> IF c = p \/ parent[c] = p THEN None ELSE parent[c]]
        /\ main_thread' = [main_thread EXCEPT ![p] = None]
        /\ UNCHANGED <<calls, used, exit_requested, cpu>>

LoopStep(t) ==
    \E q \in Pipe : \/ PipeRead(t, q) \/ PipeReadEnd(t, q) \/ PipeReadBlocks(t, q)
                    \/ PipeWrite(t, q) \/ PipeWriteBroken(t, q) \/ PipeWriteBlocks(t, q)

PipeEnds(t) == PipeInstall(t) \/ PipeFails(t)

Next ==
    \/ \E t \in Thread :
         \/ Open(t) \/ PipeCreate(t) \/ PipeEnds(t) \/ LoopStep(t)
         \/ ForkFails(t) \/ ProcessExit(t)
         \/ \E d \in Fd : Close(t, d) \/ Dup(t, d) \/ Touch(t, d) \/ ReadNoMemory(t, d)
         \/ \E d, e \in Fd : Dup2(t, d, e)
         \/ \E d \in Fd, n \in Lengths : ReadWriteCall(t, d, n)
         \/ \E u \in Thread : ThreadCreate(t, u)
         \/ \E u \in Thread, c \in Process : Fork(t, u, c)
    \/ \E p \in Process : Kill(p)

\* Round robin gives the CPU to every ready thread again and again, and kernel
\* code runs on to its next blocking point.
Spec == Init /\ [][Next]_vars /\ \A t \in Thread : SF_vars(LoopStep(t)) /\ WF_vars(PipeEnds(t))

-----------------------------------------------------------------------------
(* Properties.                                                             *)

\* The state has the types of the code's structures.
TypeOK ==
    /\ calls \in Programs
    /\ proc \in [Thread -> Process \cup {None}]
    /\ parent \in [Process -> Process \cup {None}]
    /\ main_thread \in [Process -> Thread \cup {None}]
    /\ used \subseteq Process
    /\ exit_requested \in [Process -> BOOLEAN]
    /\ cpu \in Thread \cup {None}
    /\ pc \in [Thread -> {"user", "pipe"} \cup End]
    /\ len \in [Thread -> 0..MaxLength]
    /\ held \in [Thread -> SUBSET File]
    /\ waiting_lock \in [Thread -> Pipe \cup {None}]
    /\ desc \in [Process -> [Fd -> File \cup {None}]]
    /\ refs \in [File -> Nat] /\ lost \in [File -> Nat]
    /\ readers \in [Pipe -> Nat] /\ writers \in [Pipe -> Nat]
    /\ opens \in Nat
    /\ pipe \in [Pipe -> [data : [0..Capacity-1 -> 0..Wrap-1],
                          head : 0..Capacity-1, tail : 0..Capacity-1,
                          count : 0..Capacity, sent : 0..Wrap-1, taken : 0..Wrap-1]]

Descriptors(f) == {x \in Process \X Fd : desc[x[1]][x[2]] = f}
Holders(f) == {t \in Thread : f \in held[t]}

\* After any order of dup2, close, fork, failed fork, exit and kill, refs of a file
\* object is the number of descriptors and calls that use it, plus the
\* references whose holder is gone; the two ends of a pipe count the same
\* references, and each regular object in use holds its inode open once.  So
\* nothing in use is freed, and nothing else is kept.
RefsExact ==
    /\ TypeOK
    /\ \A f \in File :
         refs[f] = Cardinality(Descriptors(f)) + Cardinality(Holders(f)) + lost[f]
    /\ \A q \in Pipe : readers[q] = refs[<<q, "read">>] /\ writers[q] = refs[<<q, "write">>]
    /\ opens = Cardinality({f \in Regular : refs[f] > 0})

\* A thread sleeps in pipe_read only while the pipe is empty and somebody may
\* write, and in pipe_write only while it is full and somebody may read: no
\* wake-up is missed ("check, queue and block must be atomic", says
\* thread_block_with_lock), however ends are closed and processes end.
SleepJustified ==
    \A t \in Thread, q \in Pipe : waiting_lock[t] = q =>
        \/ held[t] = {<<q, "read">>} /\ pipe[q].count = 0 /\ writers[q] > 0
        \/ held[t] = {<<q, "write">>} /\ pipe[q].count = Capacity /\ readers[q] > 0

\* The ring of a pipe holds the bytes written and not yet read, in the order of
\* the writes, across the wrap of head and tail.
BytesInOrder ==
    \A q \in Pipe : LET r == pipe[q] IN
        /\ r.tail = (r.head + r.count) % Capacity
        /\ r.sent = (r.taken + r.count) % Wrap
        /\ \A i \in 0..(r.count - 1) :
             r.data[(r.head + i) % Capacity] = (r.taken + i) % Wrap

\* When the other end is closed, a thread in pipe_read or pipe_write returns (or
\* ends with its process).
EndIsSeen ==
    \A t \in Thread :
        (\E q \in Pipe : \/ held[t] = {<<q, "read">>} /\ writers[q] = 0
                         \/ held[t] = {<<q, "write">>} /\ readers[q] = 0) ~> (pc[t] = "user")
====
