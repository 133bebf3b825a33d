--------------------------- MODULE PrivateMemory ---------------------------
(***************************************************************************)
(* What user memory promises: every process has a memory of its own.  No   *)
(* frames, no sharing, no page faults.  A request to the kernel (req) is   *)
(* taken up, and has its whole effect when it completes or none at all;    *)
(* only munmap and the end of a process remove memory on the way.          *)
(***************************************************************************)
CONSTANTS AS, VA, Value, Zero, None

VARIABLES
    mem,    \* mem[a][v]: contents of page v of a, None if it is not mapped
    req     \* the request in progress: [kind, as, src, rng]

Empty == [v \in VA |-> None]
Request(k, a, b, r) == [kind |-> k, as |-> a, src |-> b, rng |-> r]
NoRequest == Request("idle", None, None, {})

Init == mem = [a \in AS |-> Empty] /\ req = NoRequest

Idle == req.kind = "idle"
Serving(k) == req.kind = k

\* Pages r of a become x; nothing else changes.
Set(a, r, x) == mem' = [mem EXCEPT ![a] =
                          [v \in VA |-> IF v \in r THEN x ELSE mem[a][v]]]

-----------------------------------------------------------------------------
(* User code, between requests                                             *)

Store(a, v, x) == mem[a][v] # None /\ Set(a, {v}, x)
\* Stack growth, a new thread's stack; the end of a thread.
Extend(a, v) == mem[a][v] = None /\ Set(a, {v}, Zero)
Shrink(a, v) == Set(a, {v}, None)

-----------------------------------------------------------------------------
(* Requests                                                                *)

Accept(k, a, b, r) ==
    /\ req' = Request(k, a, b, r) /\ UNCHANGED mem
    /\ k \in {"load", "fork"} => mem[a] = Empty

\* exit, kill: the memory is gone when the teardown starts.
Exit(a) ==
    /\ Idle /\ req' = Request("destroy", a, None, {})
    /\ mem' = [mem EXCEPT ![a] = Empty]

\* A request that fails, and a teardown that ends, change no memory.
Finish ==
    /\ req.kind \in {"mmap", "munmap", "copy", "destroy"}
    /\ req' = NoRequest /\ UNCHANGED mem
Abandon ==
    /\ req.kind \in {"load", "fork"}
    /\ req' = Request("destroy", req.as, None, {}) /\ UNCHANGED mem

\* A program is loaded: for a new process, or (exec) in place of req.src.
Loaded ==
    /\ Serving("load")
    /\ mem'[req.as] \in [VA -> Value \cup {None}]
    /\ mem' = [a \in AS |-> IF a = req.as THEN mem'[req.as]
                            ELSE IF a = req.src THEN Empty ELSE mem[a]]
    /\ req' = IF req.src = None THEN NoRequest
              ELSE Request("destroy", req.src, None, {})

\* fork: the child's memory is the parent's.
Forked ==
    /\ Serving("fork")
    /\ mem' = [mem EXCEPT ![req.as] = mem[req.src]] /\ req' = NoRequest

Mapped ==
    /\ Serving("mmap") /\ \A v \in req.rng : mem[req.as][v] = None
    /\ Set(req.as, req.rng, Zero) /\ req' = NoRequest

Unmapping(v) ==
    /\ Serving("munmap") /\ v \in req.rng
    /\ Set(req.as, {v}, None) /\ UNCHANGED req

\* copy_to_user: all of the range or none of it.
Copied(x) ==
    /\ Serving("copy") /\ \A v \in req.rng : mem[req.as][v] # None
    /\ Set(req.as, req.rng, x) /\ req' = NoRequest

Next ==
    \/ /\ Idle /\ UNCHANGED req
       /\ \E a \in AS, v \in VA : \/ \E x \in Value : Store(a, v, x)
                                  \/ Extend(a, v) \/ Shrink(a, v)
    \/ \E a \in AS : Exit(a)
    \/ /\ Idle
       /\ \E k \in {"load", "fork", "mmap", "munmap", "copy"}, a \in AS,
             b \in AS \cup {None}, r \in SUBSET VA : Accept(k, a, b, r)
    \/ Finish \/ Abandon \/ Loaded \/ Forked \/ Mapped
    \/ \E v \in VA : Unmapping(v)
    \/ \E x \in Value : Copied(x)

Spec == Init /\ [][Next]_<<mem, req>>
=============================================================================
