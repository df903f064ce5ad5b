SPECIFICATION Spec
CONSTANTS
    Payments = {1, 2}
    Methods = {"mercadopago", "bank_transfer"}
    Lines = {1, 2}
    Measured = {2}
    Handlers = {h1, h2}
    h1 = h1
    h2 = h2
    Sources = {"webhook", "reconcile"}
    MaxRenewals = 1
SYMMETRY HandlerSymmetry
INVARIANTS
    DoublePaymentIsReviewed
CHECK_DEADLOCK FALSE
