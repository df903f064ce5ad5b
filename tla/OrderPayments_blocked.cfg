SPECIFICATION Spec
CONSTANTS
    Payments = {1, 2}
    Methods = {"mercadopago", "bank_transfer"}
    Lines = {1, 2}
    Measured = {2}
    Handlers = {h1}
    h1 = h1
    Sources = {"webhook", "reconcile"}
    MaxRenewals = 1
INVARIANTS
    OrderCanBePaid
CHECK_DEADLOCK FALSE
