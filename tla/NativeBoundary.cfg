SPECIFICATION Spec
CONSTANTS
    first = first
    second = second
    later = later
    stream = stream
    Signals = {first, second, later}
    StreamOf <- OneStream
    StartOf <- TwoOpens
    Deployments <- Reviewed
    Deadline = 1
    NoSignal = nosignal
    MaxTime = 3
    MaxFaults = 2
    MaxCrashes = 1
INVARIANT BoundaryInvariant
INVARIANT SentOnce
INVARIANT NothingOverdue
PROPERTY SentAtItsOpen
PROPERTY OldSignalsStay
PROPERTY HeldByOldSignal
PROPERTY FailureDropsAll
