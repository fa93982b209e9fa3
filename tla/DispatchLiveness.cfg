SPECIFICATION FairSpec
CONSTANTS
    stock = stock
    crypto = crypto
    first = first
    second = second
    Workers = {crypto}
    Desks = {}
    Commands = {first}
    Keys = {1}
    HomeOf <- OneCommand
    KeyOf <- OneKey
    Reducing = {}
    Mutators = {mode}
    Stoppers = {stop}
    Reconciler = reconciler
    NoOne = none
    NoCommand = nothing
    NoKey = keyless
    MaxEpoch = 3
    MaxFaults = 2
    MaxCrashes = 0
PROPERTY ControlReturns
PROPERTY AttemptEnds
