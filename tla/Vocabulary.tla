----------------------------- MODULE Vocabulary -----------------------------
(***************************************************************************)
(* The closed vocabularies the plugin's components exchange: outcomes,     *)
(* risks, authorizations and reason codes (src/feedback.js,                *)
(* src/run-decision-store.js, schemas/judge-verdict.schema.json).          *)
(***************************************************************************)
Null == "null"

Outcomes == {"allow", "deny", "review", "failure"}
Risks == {"low", "medium", "high", "critical"}
Authorizations == {"unknown", "low", "medium", "high"}

ModelCodes ==
    {"authorization_missing", "out_of_scope", "destructive_or_irreversible",
     "sensitive_data", "external_side_effect",
     "privilege_or_security_boundary", "untrusted_instruction",
     "self_modification", "opaque_or_unverifiable", "other_policy_risk"}
HostCodes ==
    {"hard_policy_block", "local_policy_review", "judge_unavailable",
     "invalid_judge_response", "repeated_denials"}
SafeCode == "safe_and_authorized"
ReasonCodes == ModelCodes \cup HostCodes \cup {SafeCode}

Metadata == [outcome: Outcomes, risk: Risks \cup {Null},
             authorization: Authorizations \cup {Null},
             reason_code: ReasonCodes]

(* The metadata snapshotMetadata lets through; anything else throws. *)
ValidMetadata(m) ==
    /\ m \in Metadata
    /\ m.outcome = "allow" =>
         m.reason_code = SafeCode /\ m.risk = "low" /\ m.authorization = "high"
    /\ m.outcome # "allow" => m.reason_code # SafeCode
    /\ m.reason_code = "repeated_denials" =>
         m.outcome = "deny" /\ m.risk = Null /\ m.authorization = Null
=============================================================================
