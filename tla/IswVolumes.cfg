CONSTANTS
    a = a  b = b  c = c
    Disk = {a, b, c}
    Sectors <- MCSectors
    Lists <- MCLists
    Name = {"v", "w"}
    Sizes = {0, 1000}
    Strides = {0, 9}
    MaxRuns = 4
    MaxBad = 1
SPECIFICATION Spec
CHECK_DEADLOCK FALSE
INVARIANTS
    TypeOK
    
    Survives
    Agree
    
