CONSTANTS
    Calls = {c1, c2}
    Runs = {r1, r2}
    TtlMs = 1
    MaxRuns = 1
    HistoryLimit = 1
    ConsecutiveDenyLimit = 1
    RollingDenyLimit = 1
    MaxClock = 1
    JudgeCodes = {"out_of_scope", "sensitive_data"}
    Configurations <- MCConfigurations
    Situations <- MCSituations
    Answers <- MCAnswers
SPECIFICATION Spec
INVARIANT GatewayHearsTheJudge
CHECK_DEADLOCK FALSE
