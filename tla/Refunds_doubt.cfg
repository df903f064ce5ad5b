SPECIFICATION Spec
CONSTANTS
    Admins = {a1, a2}
    Paid = 3
    MaxIncidents = 2
SYMMETRY Symmetry
INVARIANTS
    TypeOK
    OneRefundApproved
    ReturnsAreOnRecord
PROPERTY
    DecisionsAreFinal
CHECK_DEADLOCK FALSE
