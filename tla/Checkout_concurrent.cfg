SPECIFICATION FairSpec
CONSTANTS
    Keys = {web, counter}
    CounterKeys = {counter}
    Payloads = {card, cash}
    Online = {card}
    Orders = {o1, o2}
    Requests = {r1, r2, r3}
INVARIANTS
    TypeOK
    OneOrderPerKey
    AnswerIsMine
    CompletedCanBePaid
PROPERTIES
    ClosedStaysClosed
    InProgressEnds
CHECK_DEADLOCK FALSE
