SPECIFICATION Spec
CONSTANTS
    stock = stock
    crypto = crypto
    first = first
    second = second
    Workers = {crypto, stock}
    Desks = {manual}
    Commands = {first, second}
    Keys = {1}
    HomeOf <- TwoJournals
    KeyOf <- SharedKey
    Reducing = {}
    Mutators = {}
    Stoppers = {}
    Reconciler = reconciler
    NoOne = none
    NoCommand = nothing
    NoKey = keyless
    MaxEpoch = 1
    MaxFaults = 1
    MaxCrashes = 1
INVARIANT DispatchInvariant
INVARIANT RowsInvariant
INVARIANT OnePostPerKey
PROPERTY KeepsPromise
SYMMETRY EitherJournal
