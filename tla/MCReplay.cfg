\* Two slates and three requests through the one slot.
SPECIFICATION Spec
CONSTANTS
    w1 = w1
    w2 = w2
    c1 = c1
    c2 = c2
    d1 = d1
    d2 = d2
    Workers = {w1, w2}
    Callers = {c1, c2}
    Slates = {d1, d2}
    Incident = d1
    Games = 1
    Timeout = 1
    Margin = 1
    MinRemaining = 1
    ProofMaxAge = 1
    MaxRequests = 3
    NoWorker = NoWorker
    NoSlate = NoSlate
SYMMETRY Symmetry
INVARIANTS
    TypeOK
    OneReplayAtATime
    NoRequestLost
    AcknowledgementsAreTrue
    ReceiptsStayTrue
    ReviewLiftedOnce
PROPERTIES
    CurrentSlateFirst
CHECK_DEADLOCK FALSE
