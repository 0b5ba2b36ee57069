\* One batch halved once, by region, under crashes, duplicates and lapsing leases.
SPECIFICATION Spec
CONSTANTS
    Workers = {w1, w2}
    Discover = Discover
    NoWorker = NoWorker
    b1 = b1
    b2 = b2
    a = a
    b = b
    a1 = a1
    a2 = a2
    p1 = p1
    p2 = p2
    MaxGen = 1
    Batches = {b1}
    Jobs = {b1, a, b}
    Children <- Halved
    PartialJobs = {a, b}
    Pairs = {p1}
    Required = {p1}
    ScopeOf <- RegionScope
    LeasesLapse = TRUE
    MayClose = FALSE
    MaxFaults = 1
SYMMETRY SplitSymmetry
VIEW Essential
CONSTRAINT FaultsWhileFetching
INVARIANTS
    NoHalfOmitted
    StrandedByRecordOnly
PROPERTIES
    KeepsLedger
CHECK_DEADLOCK FALSE
