\* Progress of one generation under crashes and duplicates.
SPECIFICATION FairSpec
CONSTANTS
    Workers = {w1, w2}
    Discover = Discover
    NoWorker = NoWorker
    b1 = b1
    b2 = b2
    a = a
    b = b
    a1 = a1
    a2 = a2
    p1 = p1
    p2 = p2
    MaxGen = 1
    Batches = {b1}
    Jobs = {b1}
    Children <- SingleBatch
    PartialJobs = {}
    Pairs = {p1}
    Required = {p1}
    ScopeOf <- SinglePair
    LeasesLapse = FALSE
    MayClose = TRUE
    MaxFaults = 1
PROPERTIES
    GenerationSettles
CHECK_DEADLOCK FALSE
