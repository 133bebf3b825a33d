CONSTANTS
    Thread = {t1, t2, t3}
    Process = {sh, p2, p3}
    Idle = idle
    Shell = sh
    First = t1
    AnyChild = any
    Calls = {"spawn", "wait", "kill", "sleep"}
    None = None
SPECIFICATION Spec
INVARIANTS WaitNotLost 
PROPERTIES KillEnds OrphansReclaimed
