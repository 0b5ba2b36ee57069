\* Two callers with clocks apart, each retrying once; the row fails once.
SPECIFICATION FairSpec
CONSTANTS
    c1 = c1
    c2 = c2
    Callers = {c1, c2}
    Skew <- Ahead
    Spacing = 2
    MaxWait = 3
    MaxContention = 3
    MaxAttempts = 2
    MaxFaults = 1
    MaxTime = 5
INVARIANTS
    TypeOK
    RequestsOwnSpacedSlots
    SlotsAreTimely
    RefusalsMeanProgress
PROPERTIES
    AcquireEnds
CHECK_DEADLOCK FALSE
