SPECIFICATION Spec
CONSTANTS
    stock = stock
    crypto = crypto
    first = first
    second = second
    Workers = {crypto}
    Desks = {}
    Commands = {first, second}
    Keys = {1, 2}
    HomeOf <- OneJournal
    KeyOf <- OwnKeys
    Reducing = {}
    Mutators = {}
    Stoppers = {}
    Reconciler = reconciler
    NoOne = none
    NoCommand = nothing
    NoKey = keyless
    MaxEpoch = 1
    MaxFaults = 2
    MaxCrashes = 0
PROPERTY UnrecordedOutcomeHolds
