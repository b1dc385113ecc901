SPECIFICATION Spec
CONSTANTS
    Errors = {e1, e2}
    Programs = {p1}
    Periods = {1, 2}
    Half = 1
    Horizon = 4
    Offsets <- Zones
    MaxDumps = 4
    MaxRows = 3
    MinOccurrences = 2
    Repeats = 1
    Few = 2
    Many = 3
    Burst = 1
    Enough = 1
SYMMETRY Symmetric
INVARIANTS
    TypeOK
    RecentClaims
    LowIsQuiet
    IncreasingIsTrue
