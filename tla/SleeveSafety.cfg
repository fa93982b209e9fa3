SPECIFICATION Spec
CONSTANTS
    SleeveCount = 2
    MaxOrders = 2
    MaxQuantity = 3
    BuySize <- TwoAndOne
    Disturbances = {"restart", "record", "evict", "ack", "accept", "notice"}
    MaxDisturbances = 1
    Noticed = {2}
INVARIANTS
    SleeveInvariant
    NoSleeveShort
    ValidIsTrue
    Conserved
    AccountInvariant
    OneOpenOrder
PROPERTY ReachesTargets
