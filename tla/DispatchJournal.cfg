SPECIFICATION Spec
CONSTANTS
    stock = stock
    crypto = crypto
    first = first
    second = second
    Workers = {crypto}
    Desks = {}
    Commands = {first, second}
    Keys = {1, 2}
    HomeOf <- OneJournal
    KeyOf <- OwnKeys
    Reducing = {}
    Mutators = {mode}
    Stoppers = {stop}
    Reconciler = reconciler
    NoOne = none
    NoCommand = nothing
    NoKey = keyless
    MaxEpoch = 3
    MaxFaults = 2
    MaxCrashes = 1
INVARIANT FencedSend
INVARIANT RowsAgreeWithLedger
PROPERTY SendIsReserved
PROPERTY UncertaintyHolds
PROPERTY OldRowsOnlyResolve
