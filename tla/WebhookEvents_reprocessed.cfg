SPECIFICATION JobSpec
CONSTANTS
    Events = {1, 2, 3}
    MaxAttempts = 3
    OldFailures = {1, 2}
INVARIANTS
    TypeOK
    DeadLettersAreExhausted
    ProcessedOnce
PROPERTIES
    ProcessedIsFinal
    FailedIsResolved
CHECK_DEADLOCK FALSE
