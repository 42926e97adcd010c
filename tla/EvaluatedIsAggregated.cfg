CONSTANTS
    JudgeCodes = {"out_of_scope", "other_policy_risk", "sensitive_data"}
SPECIFICATION ESpec
INVARIANT EvaluatedIsAggregated
CHECK_DEADLOCK FALSE
