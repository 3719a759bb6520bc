CONSTANTS
    r1 = r1  r2 = r2  r3 = r3
    Runs = {r1, r2, r3}
    Procs = {r1, r2, r3}
    ProcOf <- ToolRuns
    Inodes = {i1, i2, i3}
    None = None
SPECIFICATION Spec
CHECK_DEADLOCK FALSE
INVARIANTS
    TypeOK
    HolderHasFlock
    ExclusiveOnPath
    
PROPERTIES
    RunsEnd
