SPECIFICATION Spec
CONSTANTS
    a = a
    buy = buy
    sell = sell
    s = s
    Sessions = {a}
    Others = {gpt}
    NoOne = NoOne
    Symbols = {s}
    Orders = {buy, sell}
    OwnerOf <- MCOwnerOf
    SymbolOf <- MCSymbolOf
    SideOf <- MCSideOf
    Reducing = {sell}
    Senders = {t1, t2}
    Retirers = {r1}
SYMMETRY Interchangeable
INVARIANTS
    CoordinationInvariant
    PostedOnce
    NothingLeftBehind
    NothingStillOwned
PROPERTY PostsOwnSymbol
