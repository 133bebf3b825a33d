CONSTANTS
    t1 = t1
    t2 = t2
    t3 = t3
    p1 = p1
    p2 = p2
    q1 = q1
    f1 = f1
    None = None
    Thread = {t1, t2, t3}
    Process = {p1, p2}
    Boot = t1
    Shell = p1
    Pipe = {q1}
    Regular = {f1}
    Std <- MCStd
    Slot <- MCSlot
    Capacity = 2
    MaxLength = 2
    Wrap = 3
    MaxLost = 1
    Programs <- MCPrograms

SPECIFICATION Spec
INVARIANTS RefsExact SleepJustified BytesInOrder
PROPERTY EndIsSeen

CHECK_DEADLOCK FALSE
