------------------------------ MODULE Verdict ------------------------------
(***************************************************************************)
(* From a judge's reply to the value a hook returns: normalisation, the    *)
(* local downgrades and the one local upgrade (src/decision.js), the       *)
(* feedback code (src/feedback.js), the mapping to a hook value and what   *)
(* is delivered of it, the decision source and the store's metadata        *)
(* (src/plugin.js) and the audit event (src/audit.js).  Everything here is *)
(* synchronous and stateless.                                              *)
(*                                                                         *)
(* An action is known by three traits: whether its tool is on the          *)
(* observation list, whether its redacted parameters contain redaction     *)
(* marks (opaque), and whether the tool tables of the local guard would    *)
(* send an allow of it to review (unsafe).                                 *)
(***************************************************************************)
EXTENDS Vocabulary

CONSTANT JudgeCodes    \* the reason codes the judge may give, of ModelCodes

ASSUME JudgeCodesAssumption == JudgeCodes \subseteq ModelCodes

(* Verdicts that validateJudgeVerdict accepts: safe code exactly on allow. *)
Verdicts ==
    {v \in [decision: {"allow", "deny", "review"}, risk: Risks,
            authorization: Authorizations, confident: BOOLEAN,
            reason_code: JudgeCodes \cup {SafeCode}] :
        v.decision = "allow" <=> v.reason_code = SafeCode}

NoVerdict == [decision |-> Null, risk |-> Null, authorization |-> Null,
              confident |-> FALSE, reason_code |-> Null]

FailureCodes == {"judge_unavailable", "invalid_judge_response"}

Traits == [observation: BOOLEAN, opaque: BOOLEAN, unsafe: BOOLEAN]

Configs == [mode: {"autonomous", "supervised"},
            enforcement: {"enforce", "shadow"}]

-----------------------------------------------------------------------------
(* Results.  mark is the one of opaque, local_guard, trusted_observation   *)
(* that is set; code is the host's feedback_code; gated says that reason   *)
(* is the text "judge allow did not satisfy local safety gate".            *)
ModelResult(kind, v, mark) ==
    [kind |-> kind, verdict |-> v, mark |-> mark, code |-> Null,
     gated |-> FALSE]

HostResult(kind, code) ==
    [kind |-> kind, verdict |-> NoVerdict, mark |-> Null, code |-> code,
     gated |-> FALSE]

Failure(code) == HostResult("failure", code)
RepeatedDenials == HostResult("deny", "repeated_denials")
HardPolicyBlock == HostResult("deny", "hard_policy_block")

LocallySafeAllow(v) ==
    /\ v.decision = "allow"
    /\ v.risk = "low"
    /\ v.authorization = "high"
    /\ v.confident

NormalizeVerdict(v) ==
    IF v.decision = "allow" /\ ~LocallySafeAllow(v)
    THEN [ModelResult("review", v, Null) EXCEPT !.gated = TRUE]
    ELSE ModelResult(v.decision, v, Null)

(* The gate keeps kind and verdict of what the normaliser returns and not  *)
(* its reason, and refuses a kind the verdict does not support.            *)
NormalizedSnapshot(n) ==
    IF \/ n.kind = "allow" /\ ~LocallySafeAllow(n.verdict)
       \/ n.kind = "deny" /\ n.verdict.decision # "deny"
       \/ /\ n.kind = "review"
          /\ n.verdict.decision # "review"
          /\ n.verdict.decision # "allow" \/ LocallySafeAllow(n.verdict)
    THEN Failure("invalid_judge_response")
    ELSE ModelResult(n.kind, n.verdict, Null)

ApplyOpaqueDowngrade(r, a) ==
    IF r.kind = "allow" /\ a.opaque
    THEN ModelResult("review", r.verdict, "opaque") ELSE r

ApplyLocalSafetyDowngrade(r, a) ==
    IF r.kind = "allow" /\ a.unsafe
    THEN ModelResult("review", r.verdict, "local_guard") ELSE r

OverrideReasons == {"out_of_scope", "authorization_missing", "other_policy_risk"}

(* The probe is an allow sent through the local guard, not the opaque one. *)
Overridable(r, a) ==
    /\ r.kind = "review"
    /\ a.observation
    /\ r.mark \notin {"opaque", "local_guard"}
    /\ r.verdict.risk = "low"
    /\ \/ r.verdict.decision = "allow" /\ r.gated
       \/ r.verdict.decision = "review" /\ r.verdict.reason_code \in OverrideReasons

(* Mutant: the upgrade is not sent through the local guard. *)
UpgradeUnprobed(r, a) ==
    IF Overridable(r, a)
    THEN ModelResult("allow", r.verdict, "trusted_observation") ELSE r

ApplyTrustedObservationAllow(r, a) ==
    LET upgraded == ModelResult("allow", r.verdict, "trusted_observation")
    IN  IF Overridable(r, a)
           /\ ApplyLocalSafetyDowngrade(upgraded, a).kind = "allow"
        THEN upgraded ELSE r

(* What the gate makes of a verdict it parsed. *)
GuardedResult(v, a) ==
    ApplyTrustedObservationAllow(
        ApplyLocalSafetyDowngrade(
            ApplyOpaqueDowngrade(NormalizedSnapshot(NormalizeVerdict(v)), a),
            a),
        a)

-----------------------------------------------------------------------------
(* Null when there is nothing to report. *)
SelectFeedbackCode(r) ==
    IF r.mark = "opaque" THEN "opaque_or_unverifiable"
    ELSE IF r.mark = "local_guard" THEN "local_policy_review"
    ELSE IF r.code # Null THEN r.code
    ELSE IF r.kind = "allow" THEN Null
    ELSE IF r.kind = "failure" THEN "invalid_judge_response"
    ELSE IF r.kind = "review" /\ r.verdict.decision = "allow"
         THEN "local_policy_review"
    ELSE IF r.verdict.reason_code \in ModelCodes THEN r.verdict.reason_code
    ELSE "invalid_judge_response"

SelectFeedbackOutcome(r) ==
    IF r.kind = "allow" /\ SelectFeedbackCode(r) # Null THEN "deny" ELSE r.kind

FeedbackRequiresBlock(code) == code \in {"hard_policy_block", "repeated_denials"}

(* The hook values: nothing (undefined), the parameters to run with, a     *)
(* block, or a request for a human's approval, with the feedback code.     *)
HookValue(kind, code) == [kind |-> kind, code |-> code]
NoHookValue == HookValue("undefined", Null)

MapVerdict(config, r) ==
    LET code == SelectFeedbackCode(r)
        final == r.kind \in {"allow", "deny"} \/ FeedbackRequiresBlock(code)
    IN  IF config.enforcement = "shadow" THEN NoHookValue
        ELSE IF r.kind = "allow" /\ code = Null THEN HookValue("params", Null)
        ELSE IF config.mode = "supervised" /\ ~final
             THEN HookValue("approval", code)
        ELSE HookValue("block", code)

-----------------------------------------------------------------------------
(* From the mapped hook value to the delivered one, once the audit write   *)
(* has settled.  active: the run or its session is marked for autoapprove. *)
IsTechnicalJudgeFailure(r) ==
    r.kind = "failure" /\ SelectFeedbackCode(r) \in FailureCodes

(* Mutant: an autoapproved chat is never held up by a refusal. *)
FailOpenAlways(active, r, hook) ==
    IF active /\ hook.kind \in {"block", "approval"}
    THEN HookValue("params", Null) ELSE hook

(* In an autoapproved chat a technical failure lets the tool run. *)
FailOpen(active, r, hook) ==
    IF active /\ hook.kind \in {"block", "approval"}
       /\ IsTechnicalJudgeFailure(r)
    THEN HookValue("params", Null) ELSE hook

(* Mutant: the bridge is told before the failure is opened. *)
BridgeDecisionEarly(active, r, hook) ==
    IF hook.kind = "params" THEN "allow-once" ELSE "deny"

BridgeDecision(active, r, hook) ==
    IF FailOpen(active, r, hook).kind = "params" THEN "allow-once" ELSE "deny"

(* Mutant: an approval is asked for in an autoapproved chat too. *)
DeliveredAsking(active, r, hook) == FailOpen(active, r, hook)

(* No approval is asked for in an autoapproved chat. *)
Delivered(active, r, hook) ==
    LET opened == FailOpen(active, r, hook)
    IN  IF active /\ opened.kind = "approval"
        THEN HookValue("block", opened.code) ELSE opened

-----------------------------------------------------------------------------
(* judge is the verdict the gate accepted, or NoVerdict. *)
OrdinaryDecisionSource(r, judge) ==
    IF r.kind = "failure" THEN "failure"
    ELSE IF \/ r.mark \in {"opaque", "local_guard"}
            \/ judge.decision = "allow" /\ r.kind # "allow"
         THEN "local_downgrade"
    ELSE "llm"

(* Mutant: a repeated denial keeps what the judge said of the call. *)
MetadataOfJudge(r, judge) ==
    LET outcome == SelectFeedbackOutcome(r)
    IN  [outcome |-> outcome, risk |-> judge.risk,
         authorization |-> judge.authorization,
         reason_code |-> IF outcome = "allow" THEN SafeCode
                                              ELSE SelectFeedbackCode(r)]

DecisionMetadata(r, judge) ==
    LET outcome == SelectFeedbackOutcome(r)
        code == IF outcome = "allow" THEN SafeCode ELSE SelectFeedbackCode(r)
        repeated == code = "repeated_denials"
    IN  [outcome |-> outcome,
         risk |-> IF repeated THEN Null ELSE judge.risk,
         authorization |-> IF repeated THEN Null ELSE judge.authorization,
         reason_code |-> code]

(* Mutant: a technical failure replaces whatever was decided. *)
FailureReplaces(r, source) ==
    [result |-> Failure("invalid_judge_response"), source |-> "failure"]

(* A technical failure after a decision: denials stay what they are.       *)
TechnicalFailure(r, source) ==
    IF source \in {"circuit_breaker", "hard_boundary"} \/ r.kind = "deny"
    THEN [result |-> r, source |-> source]
    ELSE [result |-> Failure("invalid_judge_response"), source |-> "failure"]

-----------------------------------------------------------------------------
ExpectedFeedbackStatus(mode, outcome, code) ==
    IF outcome = "deny" \/ FeedbackRequiresBlock(code) THEN "blocked"
    ELSE IF outcome = "allow" THEN Null
    ELSE IF mode = "autonomous" THEN "blocked" ELSE "approval_required"

(* The part of an audit event that its semantic check relates.  safePath   *)
(* is Null, or whether the safe path and the outcome disagree.             *)
RawAuditEvent(config, r, judge, source, safePath) ==
    LET outcome == SelectFeedbackOutcome(r)
        reports == config.enforcement = "enforce" /\ outcome # "allow"
        code == IF reports THEN SelectFeedbackCode(r) ELSE Null
    IN  [judge |-> judge, outcome |-> outcome, source |-> source,
         code |-> code, safePath |-> safePath,
         status |-> IF reports
                    THEN ExpectedFeedbackStatus(config.mode, outcome, code)
                    ELSE Null]

SourceValid(e) ==
    CASE e.source \in {"hard_boundary", "circuit_breaker"} -> e.outcome = "deny"
      [] e.source = "local_downgrade" ->
           e.outcome = "review" /\ e.judge.decision = "allow"
      [] e.source = "failure" -> e.outcome = "failure"
      [] e.source = "llm" ->
           e.judge # NoVerdict /\ e.judge.decision = e.outcome

FeedbackValid(config, e) ==
    IF config.enforcement = "shadow" \/ (e.source = "llm" /\ e.outcome = "allow")
    THEN e.code = Null /\ e.status = Null
    ELSE /\ e.status = ExpectedFeedbackStatus(config.mode, e.outcome, e.code)
         /\ CASE e.source = "hard_boundary" -> e.code = "hard_policy_block"
              [] e.source = "circuit_breaker" -> e.code = "repeated_denials"
              [] e.source = "local_downgrade" ->
                   e.code \in {"local_policy_review", "opaque_or_unverifiable"}
              [] e.source = "failure" -> e.code \in FailureCodes
              [] e.source = "llm" ->
                   e.code \in ModelCodes /\ e.code = e.judge.reason_code

SafePathValid(e) ==
    e.safePath # Null =>
        /\ e.source # "hard_boundary"
        /\ \/ e.source = "circuit_breaker"
           \/ e.safePath = (IF e.outcome = "allow" THEN "agrees" ELSE "disagrees")

(* An event whose parts contradict each other is recorded as a failure.    *)
CollapsedAuditEvent(config) ==
    LET code == IF config.enforcement = "enforce" THEN "invalid_judge_response"
                                                  ELSE Null
    IN  [judge |-> NoVerdict, outcome |-> "failure", source |-> "failure",
         code |-> code, safePath |-> Null,
         status |-> IF code = Null THEN Null
                    ELSE ExpectedFeedbackStatus(config.mode, "failure", code)]

BuildAuditEvent(config, r, judge, source, safePath) ==
    LET e == RawAuditEvent(config, r, judge, source, safePath)
    IN  IF SourceValid(e) /\ FeedbackValid(config, e) /\ SafePathValid(e)
        THEN e ELSE CollapsedAuditEvent(config)
=============================================================================
