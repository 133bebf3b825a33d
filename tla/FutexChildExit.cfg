CONSTANTS
    p1 = p1
    m1 = m1
    t1 = t1
    None = None
    Process = {p1}
    Thread = {m1, t1}
    ProcOf <- MCProcOf
    MainOf <- MCMainOf
    Addr = {1, 2}
    Buckets = 2
    Hash <- MCHash
    MaxWake = 2
    Parents = {p1}
SPECIFICATION SpecWithChildren
INVARIANTS BlockedWaitersQueued
