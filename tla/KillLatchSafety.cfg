CONSTANTS
    o1 = o1
    f1 = f1
    kis = kis
    upbit = upbit
    Ordinary = {o1}
    Functional = {f1}
    Natives = {n1}
    Operator = operator
    Recovery = recovery
    NoOne = noone
    RouteLocks <- MCRouteLocks
    RouteOf <- MCRouteOf
    LatchFaults = {"write", "lost", "corrupt", "dirlost"}
    MaxRequests = 3
    MaxFaults = 1
    MaxCrashes = 1
SPECIFICATION Spec
INVARIANTS
    TypeOK
    NoPostUnderKill
    NoOrdinaryPostUnderSwitch
    LatchInvariant
PROPERTIES
    ReleaseOnlySampledKill
