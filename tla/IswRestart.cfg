CONSTANTS
    a = a  b = b  s = s  n = n
    Tool = Tool
    Disk = {a, b, s, n}
    Original <- MCOriginal
    Spares = {s}
    NumVols = 1
    Monitored = {0}
    Mortal = {a, b}
    MaxFail = 1
    MaxBad = 0
    MaxKill = 0
    MaxBoot = 1
    MaxRuns = 1
SPECIFICATION Spec
CHECK_DEADLOCK FALSE
INVARIANT CopiedFromMaster
