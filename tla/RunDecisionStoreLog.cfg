CONSTANTS
    Runs = {r1, r2, r3}
    TtlMs = 2
    MaxRuns = 2
    HistoryLimit = 3
    ConsecutiveDenyLimit = 2
    RollingDenyLimit = 2
    MaxClock = 3
    MaxLog = 4
    Submissions <- MCSubmissions
SYMMETRY MCSymmetry
SPECIFICATION LogSpec
INVARIANTS
    TypeOK
    CapacityRespected
    ResidentsAreLive
    OrderFollowsAccess
    UntrippedBelowLimits
    HistoryIsLogSuffix
PROPERTIES
    TripSurvives
    BreakerSpec
