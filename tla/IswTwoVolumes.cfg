CONSTANTS
    a = a  b = b  s = s  n = n
    Tool = Tool
    Disk = {a, b, s, n}
    Original <- MCOriginal
    Spares = {s}
    NumVols = 2
    Monitored = {0, 1}
    Mortal = {a, b}
    MaxFail = 1
    MaxBad = 0
    MaxKill = 0
    MaxBoot = 0
    MaxRuns = 0
SPECIFICATION Spec
CHECK_DEADLOCK FALSE
INVARIANT FailedRemoved
