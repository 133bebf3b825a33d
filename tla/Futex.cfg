CONSTANTS
    p1 = p1
    p2 = p2
    m1 = m1
    m2 = m2
    t1 = t1
    t2 = t2
    None = None
    Process = {p1, p2}
    Thread = {m1, m2, t1, t2}
    ProcOf <- MCProcOf
    MainOf <- MCMainOf
    Addr = {1, 2}
    Buckets = 2
    Hash <- MCHash
    MaxWake = 2
SPECIFICATION Spec
INVARIANTS WaitersExact
PROPERTIES WakeComplete LoopsEnd
