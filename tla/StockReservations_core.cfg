SPECIFICATION Spec
CONSTANTS
    Orders = {1, 2}
    Variants = {1, 2, 3}
    Measured = {3}
    Baskets <- OneOrAll
    StockLevels = {1}
    Ttl = 1
    ReactivationTtl = 1
    MaxReactivations = 1
    BatchLimit = 6
INVARIANTS TypeOK Backed PaidInFull CancelledHoldsNothing
PROPERTIES RenewalIsCovered ImplementsLifecycle
CHECK_DEADLOCK FALSE
