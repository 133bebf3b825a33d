CONSTANTS
    Page = {p1, p2, p3, p4}
    AS = {a1, a2}
    VA = {1, 2, 3, 4}
    Value = {0}
    Zero = 0
    MaxRefs = 2
    Calls = {"mmap", "munmap"}
    None = None
SYMMETRY Symmetry
SPECIFICATION Spec
INVARIANTS VmasDisjoint ThreadPagesMapped
