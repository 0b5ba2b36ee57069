\* The lease expires under a live run: what survives without the fence.
SPECIFICATION Spec
CONSTANTS
    Runs = {r1, r2}
    Dispatches = {d1}
    e1 = e1
    s1 = s1
    Events = {e1}
    Identities = {i1, i2}
    Sports = {s1}
    EventsOf <- OneEvent
    LeaseSeconds = 1
    FunctionTimeout = 2
    MaxAge = 2
    FutureSkew = 0
    OmissionLimit = 1
    MaxTime = 2
    NoRun = NoRun
    NoIdentity = NoIdentity
    NoSport = NoSport
SYMMETRY Symmetry
INVARIANTS
    CompletedGenerationIsWhole
    StampMatchesRevision
PROPERTIES
    NoRepaintByOlderObservation
    OmissionsAreDistinctAnswers
CHECK_DEADLOCK FALSE
