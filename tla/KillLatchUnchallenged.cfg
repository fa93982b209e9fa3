CONSTANTS
    o1 = o1
    f1 = f1
    kis = kis
    upbit = upbit
    Ordinary = {o1}
    Functional = {}
    Natives = {n1}
    Operator = operator
    Recovery = recovery
    NoOne = noone
    RouteLocks <- MCRouteLocks
    RouteOf <- MCRouteOf
    LatchFaults = {}
    MaxRequests = 2
    MaxFaults = 0
    MaxCrashes = 0
SPECIFICATION Spec
PROPERTY ReleaseIsChallenged
