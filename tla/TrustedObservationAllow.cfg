CONSTANTS
    JudgeCodes = {"out_of_scope", "other_policy_risk", "sensitive_data"}
SPECIFICATION Spec
INVARIANT TrustedObservationAllow
CHECK_DEADLOCK FALSE
