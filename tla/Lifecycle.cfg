CONSTANTS
    Thread = {t1, t2, t3}
    Process = {sh, p2}
    Idle = idle
    Shell = sh
    First = t1
    AnyChild = any
    Calls = {"create", "join", "detach", "spawn", "kill"}
    None = None
SYMMETRY Symmetry
SPECIFICATION Spec
INVARIANTS StructureExact JoinSafe
