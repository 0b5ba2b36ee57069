\* Two overlapping freezes, two controller cycles, a champion and a challenger,
\* and a fixture that may be rescheduled, rewritten or completed once.
SPECIFICATION Spec
CONSTANTS
    f1 = f1
    f2 = f2
    m1 = m1
    m2 = m2
    c1 = c1
    c2 = c2
    Freezes = {f1, f2}
    Controllers = {c1, c2}
    Models = {m1, m2}
    Revisions = {1, 2}
    Opens <- OneWindow
    Deadline <- Ends12
    MaxAge = 1
    MaxMeta = 2
    MaxTime = 2
    NoModel = NoModel
    NoFreeze = NoFreeze
SYMMETRY Symmetry
INVARIANTS
    TypeOK
    PicksAreWhole
    OneEvidence
    PicksPassTheApi
PROPERTIES
    EvidenceIsImmutable
    AuthorityMovesForward
    KeepsPromise
CHECK_DEADLOCK FALSE
