SPECIFICATION Spec
CONSTANTS
    Payments = {1, 2}
    Methods = {"mercadopago", "bank_transfer"}
    Lines = {1, 2}
    Measured = {2}
    Handlers = {h1, h2}
    h1 = h1
    h2 = h2
    Sources = {"webhook", "reconcile"}
    MaxRenewals = 1
SYMMETRY HandlerSymmetry
INVARIANTS
    TypeOK
    RowsFollowOrder
    MoneyIsAccounted
    OnePendingPerMethod
PROPERTIES
    ImplementsLedger
CHECK_DEADLOCK FALSE
