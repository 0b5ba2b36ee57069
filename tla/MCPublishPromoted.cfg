\* A challenger promoted inside the window meets its own shadow row.
SPECIFICATION Spec
CONSTANTS
    f1 = f1
    f2 = f2
    m1 = m1
    m2 = m2
    c1 = c1
    c2 = c2
    Freezes = {f1, f2}
    Controllers = {c1}
    Models = {m1, m2}
    Revisions = {1}
    Opens <- OneWindow
    Deadline <- EndsAt3
    MaxAge = 3
    MaxMeta = 1
    MaxTime = 3
    NoModel = NoModel
    NoFreeze = NoFreeze
SYMMETRY Symmetry
PROPERTIES
    FirstChampionIsBound
CHECK_DEADLOCK FALSE
