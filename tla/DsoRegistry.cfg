CONSTANTS
    t1 = t1  t2 = t2  t3 = t3
    n1 = n1  n2 = n2
    a1 = a1  a2 = a2
    Null = Null
    Threads = {t1, t2, t3}
    Names <- MCNames
    Addrs <- MCAddrs
    Registrars = {t1, t3}
    Unregistrars = {t2, t3}
    Monitors <- OwnMonitor
    MaxCalls = 5
    MaxTargets = 1
SPECIFICATION Spec
CHECK_DEADLOCK FALSE
INVARIANTS
    TypeOK
    UniqueNames
    EventSetLive
    OneOwner
PROPERTIES
    ImplementsMonitoredSets
    CallsReturn
