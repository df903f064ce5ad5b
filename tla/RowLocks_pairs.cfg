SPECIFICATION Spec
CONSTANTS
    Orders = {1, 2}
    Variants = {7, 8}
    Lines <- TwoBaskets
    Users = {9}
    Transactions = {t1, t2}
SYMMETRY Permuted
INVARIANTS
    TypeOK
    CyclesAreInverted
    
