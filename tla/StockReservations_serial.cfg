SPECIFICATION SerialFairSpec
CONSTANTS
    Orders = {1, 2, 3}
    Variants = {1}
    Measured = {}
    Baskets <- OneUnit
    StockLevels = {1, 2}
    Ttl = 2
    ReactivationTtl = 1
    MaxReactivations = 1
    BatchLimit = 1
CHECK_DEADLOCK FALSE
INVARIANTS NoOversell
PROPERTIES SubmittedIsResolved
