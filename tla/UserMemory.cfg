CONSTANTS
    Page = {p1, p2, p3}
    AS = {a1, a2}
    VA = {1, 2, 3}
    Value = {0, 1}
    Zero = 0
    MaxRefs = 2
    Calls = {"segment", "fork", "kernel", "mmap", "munmap", "copyout"}
    None = None
SYMMETRY Symmetry
SPECIFICATION Spec
INVARIANTS Accounting WritableIsPrivate FreeIsClear 
PROPERTIES PrivateSpec
