\* A half that was itself halved before its parent was recorded.
SPECIFICATION Spec
CONSTANTS
    Workers = {w1, w2}
    Discover = Discover
    NoWorker = NoWorker
    b1 = b1
    b2 = b2
    a = a
    b = b
    a1 = a1
    a2 = a2
    p1 = p1
    p2 = p2
    MaxGen = 1
    Batches = {b1}
    Jobs = {b1, a, b, a1, a2}
    Children <- HalvedTwice
    PartialJobs = {}
    Pairs = {p1}
    Required = {p1}
    ScopeOf <- HalvedTwiceScope
    LeasesLapse = FALSE
    MayClose = TRUE
    MaxFaults = 0
SYMMETRY Symmetry
INVARIANTS
    NoSplitStranded
CHECK_DEADLOCK FALSE
