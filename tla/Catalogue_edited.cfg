SPECIFICATION Spec
CONSTANTS
    None = None
    c1 = c1
    p1 = p1
    Categories = {c1}
    Products = {p1}
    Discounts = {1}
    Orders = {1, 2}
    Workers = {w1, w2}
    Prices = {3, 5}
    Values = {50, 150}
    Quantities = {1}
    Patches <- MCPatches
    MaxChanges = 2
    MaxBaskets = 3
SYMMETRY Symmetry
INVARIANT TypeOK
INVARIANT ReferencesHold
PROPERTY SubmittedStays
CHECK_DEADLOCK FALSE
