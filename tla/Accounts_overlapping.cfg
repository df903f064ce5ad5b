SPECIFICATION Spec
CONSTANTS
    Clients = {c1, c2}
    Passwords = {p1, p2}
    Emails = {e1, e2}
    MaxVersion = 3
    MaxLinks = 2
SYMMETRY Symmetry
INVARIANTS
    TypeOK
    EndedStaysEnded
    LastPasswordWins
    NewestLinkOnly
    VerifiedIsProven
CHECK_DEADLOCK FALSE
