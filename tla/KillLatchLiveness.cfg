CONSTANTS
    o1 = o1
    f1 = f1
    kis = kis
    upbit = upbit
    Ordinary = {o1}
    Functional = {}
    Natives = {n1}
    Operator = operator
    Recovery = recovery
    NoOne = noone
    RouteLocks <- MCRouteLocks
    RouteOf <- MCRouteOf
    LatchFaults = {"lost"}
    MaxRequests = 3
    MaxFaults = 2
    MaxCrashes = 1
SPECIFICATION FairSpec
PROPERTIES
    EngageReturnsEventually
    ReadableKillPublished
