CONSTANTS
    Calls = {c1, c2}
    Runs = {r1, r2}
    TtlMs = 1
    MaxRuns = 1
    HistoryLimit = 1
    ConsecutiveDenyLimit = 1
    RollingDenyLimit = 1
    MaxClock = 1
    JudgeCodes = {"out_of_scope", "sensitive_data"}
    Configurations <- MCConfigurations
    Situations <- MCSituations
    Answers <- MCAnswers
SYMMETRY MCSymmetry
SPECIFICATION Spec
INVARIANTS
    TypeOK
    RunsAreGrounded
    DenialsAreFinal
    BridgeAgreesWithHook
PROPERTIES
    BreakerHolds
    HistoryTellsOutcomes
CHECK_DEADLOCK FALSE
