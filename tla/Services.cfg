CONSTANTS
    c1 = c1
    c2 = c2
    Tty = Tty
    Fs = Fs
    Kernel = Kernel
    IPC_ANY = IPC_ANY
    None = None
    Client <- MCClient
    Thread <- MCThread
    Pid <- MCPid
    PidOf <- MCPidOf
    Type <- MCType
    Val <- MCVal
    NoMessage <- MCNoMessage
    MaxLength = 2
    Length <- MCLength
    MaxKeys = 2
    QueueSize = 1
    Programs <- MCPrograms
    TypeAhead = FALSE
SPECIFICATION Spec
INVARIANTS  NoMissedPartner LockHeld  
 
CHECK_DEADLOCK FALSE
