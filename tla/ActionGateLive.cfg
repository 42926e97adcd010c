CONSTANTS
    Calls = {c1, c2}
    Runs = {r1}
    TtlMs = 1
    MaxRuns = 1
    HistoryLimit = 1
    ConsecutiveDenyLimit = 1
    RollingDenyLimit = 1
    MaxClock = 0
    JudgeCodes = {"out_of_scope", "sensitive_data"}
    Configurations <- MCOne
    Situations <- MCFew
    Answers <- MCAnswers
SPECIFICATION FairSpec
PROPERTIES
    EveryCallReturns
CHECK_DEADLOCK FALSE
