SPECIFICATION ESpec
CONSTANTS
    JudgeCodes = {"out_of_scope", "other_policy_risk", "sensitive_data"}
INVARIANTS
    AllowsAreGrounded
    AuditAgreesWithHook
    MetadataIsAccepted
    FailureLoosensOnlyReviews
    AcceptedIsProducible
    ProducedIsAccepted
    HarnessAgreesWithGate
CHECK_DEADLOCK FALSE
