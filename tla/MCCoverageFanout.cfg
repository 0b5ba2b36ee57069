\* Two batches of one generation under crashes and duplicates.
SPECIFICATION Spec
CONSTANTS
    Workers = {w1, w2}
    Discover = Discover
    NoWorker = NoWorker
    b1 = b1
    b2 = b2
    a = a
    b = b
    a1 = a1
    a2 = a2
    p1 = p1
    p2 = p2
    MaxGen = 1
    Batches = {b1, b2}
    Jobs = {b1, b2}
    Children <- Unsplit
    PartialJobs = {}
    Pairs = {p1, p2}
    Required = {p1}
    ScopeOf <- OnePairEach
    LeasesLapse = TRUE
    MayClose = FALSE
    MaxFaults = 1
SYMMETRY Symmetry
INVARIANTS
    TypeOK
    NoBatchLost
CHECK_DEADLOCK FALSE
