\* Two overlapping inventory runs, one dispatcher; the lease outlives a run.
SPECIFICATION Spec
CONSTANTS
    Runs = {r1, r2}
    Dispatches = {d1}
    e1 = e1
    s1 = s1
    Events = {e1}
    Identities = {i1, i2}
    Sports = {s1}
    EventsOf <- OneEvent
    LeaseSeconds = 2
    FunctionTimeout = 1
    MaxAge = 2
    FutureSkew = 0
    OmissionLimit = 1
    MaxTime = 3
    NoRun = NoRun
    NoIdentity = NoIdentity
    NoSport = NoSport
SYMMETRY Symmetry
INVARIANTS
    TypeOK
    MutatorsAreFenced
    AuthoritativeManifestMatchesSchedule
CHECK_DEADLOCK FALSE
