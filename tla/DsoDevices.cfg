CONSTANTS
    r5 = r5  r1 = r1
    d1 = d1  d2 = d2  d3 = d3  d4 = d4  d5 = d5  d6 = d6
    Sets = {r5, r1}
    Devices = {d1, d2, d3, d4, d5, d6}
    Kind <- MCKind
    Initially <- MCInitially
    ByName <- MCByName
    MaxDead = 2
SPECIFICATION Spec
CHECK_DEADLOCK FALSE
INVARIANTS
    TypeOK
    DistinctDevices
    LineCovered
    
    
PROPERTIES
    OnlyDeadRemoved
