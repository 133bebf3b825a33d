CONSTANTS
    Waiter = {w1, w2}
    Main = main
    WakeCount = 2
    MaxSeq = 3
    None = None
SPECIFICATION Spec
INVARIANTS MutualExclusion  NoLostBroadcast
