SPECIFICATION Spec
CONSTANTS
    SleeveCount = 2
    MaxOrders = 1
    MaxQuantity = 3
    BuySize <- TwoAndOne
    Disturbances = {"restart"}
    MaxDisturbances = 1
    Noticed = {}
INVARIANT BookedIsExecuted
