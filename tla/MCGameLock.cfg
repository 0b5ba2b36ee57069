SPECIFICATION Spec
CONSTANTS
    r1 = r1
    r2 = r2
    NoRun = NoRun
    Runs = {r1, r2}
    Games <- MCGames
    Cutoff <- MCCutoff
    Start <- MCStart
    Rosters <- MCRosters
    Opens = 1
    MaxTries = 2
    MaxTime = 4
    MaxPulls = 2
    MaxPredictions = 2
    MaxFeed = 3
    MaxBegins = 2
    MaxFaults = 1
SYMMETRY MCSymmetry
INVARIANTS
    TypeOK
    OneTerminal
    NothingOverlooked
    DailyCardIsWhole
    MarkersStayTrue
CHECK_DEADLOCK FALSE
