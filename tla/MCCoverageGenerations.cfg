\* Two overlapping generations of one batch.
SPECIFICATION Spec
CONSTANTS
    Workers = {w1, w2}
    Discover = Discover
    NoWorker = NoWorker
    b1 = b1
    b2 = b2
    a = a
    b = b
    a1 = a1
    a2 = a2
    p1 = p1
    p2 = p2
    MaxGen = 2
    Batches = {b1}
    Jobs = {b1}
    Children <- SingleBatch
    PartialJobs = {}
    Pairs = {p1}
    Required = {p1}
    ScopeOf <- SinglePair
    LeasesLapse = FALSE
    MayClose = FALSE
    MaxFaults = 1
SYMMETRY Symmetry
INVARIANTS
    NoGenerationStranded
    CertificateIsSound
PROPERTIES
    EvidenceIsKept
CHECK_DEADLOCK FALSE
