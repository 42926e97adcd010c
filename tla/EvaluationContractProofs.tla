------------------------ MODULE EvaluationContractProofs ------------------------
(***************************************************************************)
(* Proofs about one gated call as a function of the judge's reply, the     *)
(* action and the configuration, and about the harness beside it: for      *)
(* every choice of the reason codes a judge may give.  The invariant says  *)
(* that output and attempt are what the input comes to; the properties are *)
(* facts about that function, by the shape of the guarded result.          *)
(***************************************************************************)
EXTENDS EvaluationContract, DecisionLemmas

-----------------------------------------------------------------------------
(* What the gate makes of the input i.                                      *)
Outcome(i) ==
    LET d == Settled(i)
    IN  [result |-> d.result,
         source |-> d.source,
         hook |-> Delivered(i.active, d.result, MapVerdict(i.config, d.result)),
         audit |-> BuildAuditEvent(i.config, d.result, i.reply.verdict,
                                   d.source, SafePathVerdict(i, d))]

PipelineInv ==
    /\ input \in Inputs
    /\ output \in {{}, {Outcome(input)}}

(* What was written to the file is an attempt of the harness, and once it   *)
(* was tampered with, an attempt of which one part is another.              *)
ContractInv ==
    /\ PipelineInv
    /\ changed \in BOOLEAN
    /\ changed => attempt # {}
    /\ attempt # {} =>
         /\ output = {Outcome(input)}
         /\ IsEvaluated(input)
         /\ \E r \in ResponsesTo(input.reply) :
              LET t == EvaluateAttempt(r, input.action)
              IN  \/ ~changed /\ attempt = {t}
                  \/ \E part \in Changes : changed /\ attempt = {Overwrite(t, part)}

LEMMA ContractInit == EInit => ContractInv
  BY DEF EInit, Init, ContractInv, PipelineInv

LEMMA ContractStep == ContractInv /\ [ENext]_evars => ContractInv'
<1> SUFFICES ASSUME ContractInv, [ENext]_evars PROVE ContractInv'
  OBVIOUS
<1>1. CASE EDecide
  <2>1. /\ input' = input /\ attempt' = attempt /\ changed' = changed
        /\ attempt = {} /\ output' = {Outcome(input)}
    BY <1>1 DEF EDecide, Decide, Outcome
  <2> QED
    BY <2>1 DEF ContractInv, PipelineInv
<1>2. CASE Evaluate
  <2>1. PICK r \in ResponsesTo(input.reply) :
          attempt' = {EvaluateAttempt(r, input.action)}
    BY <1>2 DEF Evaluate
  <2>2. /\ input' = input /\ output' = output /\ changed' = changed
        /\ output # {} /\ IsEvaluated(input)
    BY <1>2 DEF Evaluate
  <2>3. ~changed
    BY <1>2 DEF Evaluate, ContractInv
  <2> QED
    BY <2>1, <2>2, <2>3 DEF ContractInv, PipelineInv
<1>3. CASE Tamper
  <2>1. PICK t \in attempt, part \in Changes : attempt' = {Overwrite(t, part)}
    BY <1>3 DEF Tamper
  <2>2. ~changed /\ changed' = TRUE /\ input' = input /\ output' = output
    BY <1>3 DEF Tamper
  <2>3. PICK r \in ResponsesTo(input.reply) :
          attempt = {EvaluateAttempt(r, input.action)}
    BY <2>1, <2>2 DEF ContractInv
  <2>4. attempt' = {Overwrite(EvaluateAttempt(r, input.action), part)}
    BY <2>1, <2>3
  <2> QED
    BY <2>1, <2>2, <2>3, <2>4 DEF ContractInv, PipelineInv
<1>4. CASE UNCHANGED evars
  BY <1>4 DEF evars, ContractInv, PipelineInv
<1> QED
  BY <1>1, <1>2, <1>3, <1>4 DEF ENext

-----------------------------------------------------------------------------
LEMMA InputIs ==
    ASSUME NEW i \in Inputs
    PROVE  /\ i.config.mode \in {"autonomous", "supervised"}
           /\ i.config.enforcement \in {"enforce", "shadow"}
           /\ i.action \in Traits /\ i.safePath \in BOOLEAN
           /\ i.active \in BOOLEAN
           /\ i.intervention \in
                {"none", "technical", "tripped_later", "tripped", "hard"}
           /\ i.safePath => i.intervention # "hard"
           /\ \/ i.reply.code = Null /\ i.reply.verdict \in Verdicts
              \/ i.reply.code \in FailureCodes /\ i.reply.verdict = NoVerdict
<1>1. i.config \in Configs /\ i.reply \in Replies /\ i.action \in Traits
      /\ i.active \in BOOLEAN /\ i.safePath \in BOOLEAN
      /\ i.intervention \in Interventions
      /\ (i.safePath => i.intervention # "hard")
  BY DEF Inputs
<1> QED
  BY <1>1 DEF Configs, Replies, Interventions

LEMMA NoVerdictIs ==
    /\ NoVerdict \notin Verdicts
    /\ NoVerdict.decision = Null /\ NoVerdict.risk = Null
    /\ NoVerdict.authorization = Null
    /\ \A code \in FailureCodes : code # Null
  BY VerdictType DEF NoVerdict, Null, FailureCodes

(* The ways a decision d about the verdict v can stand: on the judge's word *)
(* alone, on the judge's allow that a guard sends to review, on the host's  *)
(* own grounds, or on the trusted-observation upgrade.                      *)
JudgedAs(d, v) ==
    /\ d.source = "llm" /\ d.result = ModelResult(v.decision, v, Null)
    /\ v \in Verdicts
    /\ v.decision = "allow" => LocallySafeAllow(v)

DowngradedAs(d, v) ==
    /\ d.source = "local_downgrade" /\ v \in Verdicts /\ v.decision = "allow"
    /\ \E mark \in {Null, "opaque", "local_guard"} :
         d.result = ModelResult("review", v, mark)

FailedAs(d) ==
    d.source = "failure" /\ \E code \in FailureCodes : d.result = Failure(code)

RefusedAs(d) ==
    \/ d.source = "hard_boundary" /\ d.result = HardPolicyBlock
    \/ d.source = "circuit_breaker" /\ d.result = RepeatedDenials

UpgradedAs(d, v) ==
    /\ d.source = "llm" /\ d.result = ModelResult("allow", v, "trusted_observation")
    /\ v \in Verdicts /\ v.decision = "review" /\ v.risk = "low"

Ordinary(i) ==
    [result |-> Judged(i),
     source |-> OrdinaryDecisionSource(Judged(i), i.reply.verdict)]

LEMMA ModelSource ==
    ASSUME NEW kind \in {"allow", "deny", "review"}, NEW mark, NEW v
    PROVE  LET r == ModelResult(kind, v, mark)
           IN  /\ r.kind = kind /\ r.mark = mark /\ r.verdict = v /\ r.code = Null
               /\ OrdinaryDecisionSource(r, v) =
                    IF mark \in {"opaque", "local_guard"}
                       \/ (v.decision = "allow" /\ kind # "allow")
                    THEN "local_downgrade" ELSE "llm"
  BY DEF ModelResult, OrdinaryDecisionSource

LEMMA OrdinaryIs ==
    ASSUME NEW i \in Inputs
    PROVE  LET v == i.reply.verdict
           IN  /\ \/ JudgedAs(Ordinary(i), v) \/ DowngradedAs(Ordinary(i), v)
                  \/ UpgradedAs(Ordinary(i), v)
                  \/ FailedAs(Ordinary(i)) /\ i.reply.code # Null
               /\ ResultOK(Judged(i)) /\ v \in JudgeOrNone
<1> DEFINE v == i.reply.verdict
           o == Ordinary(i)
<1>0. o.result = Judged(i) /\ o.source = OrdinaryDecisionSource(Judged(i), v)
  BY DEF Ordinary
<1> HIDE DEF o
<1>1. CASE i.reply.code \in FailureCodes /\ v = NoVerdict
  <2>1. i.reply.code # Null /\ Judged(i) = Failure(i.reply.code)
    BY <1>1, NoVerdictIs DEF Judged
  <2>2. ResultOK(Judged(i)) /\ Judged(i).kind = "failure"
    BY <1>1, <2>1, HostResultsOK
  <2>3. OrdinaryDecisionSource(Judged(i), v) = "failure"
    BY <2>2 DEF OrdinaryDecisionSource
  <2> QED
    BY <1>0, <1>1, <2>1, <2>2, <2>3 DEF FailedAs, JudgeOrNone, o
<1>2. CASE i.reply.code = Null /\ v \in Verdicts
  <2>1. Judged(i) = GuardedResult(v, i.action) /\ i.action \in Traits
    BY <1>2, InputIs DEF Judged
  <2>2. ResultOK(Judged(i))
    BY <1>2, <2>1, GuardedResultOK
  <2>3. PICK kind \in {"allow", "deny", "review"},
             mark \in {Null, "opaque", "local_guard", "trusted_observation"} :
          /\ GuardedResult(v, i.action) = ModelResult(kind, v, mark)
          /\ kind = "deny" <=> v.decision = "deny"
          /\ kind = "deny" => mark = Null
          /\ kind = "allow" =>
               \/ mark = Null /\ LocallySafeAllow(v)
               \/ /\ mark = "trusted_observation"
                  /\ v.decision = "review" /\ v.risk = "low"
          /\ kind = "review" =>
               \/ v.decision = "allow" /\ mark \in {Null, "opaque", "local_guard"}
               \/ v.decision = "review" /\ mark = Null
    BY <1>2, <2>1, GuardedShape
  <2>4. o.result = ModelResult(kind, v, mark)
        /\ o.source = IF mark \in {"opaque", "local_guard"}
                         \/ (v.decision = "allow" /\ kind # "allow")
                      THEN "local_downgrade" ELSE "llm"
    BY <1>0, <2>1, <2>3, ModelSource
  <2>5. kind = "allow" /\ mark = Null => v.decision = "allow"
    BY <2>3 DEF LocallySafeAllow, Null
  <2>6. JudgedAs(o, v) \/ DowngradedAs(o, v) \/ UpgradedAs(o, v)
    BY <1>2, <2>3, <2>4, <2>5
       DEF JudgedAs, DowngradedAs, UpgradedAs, Null
  <2> QED
    BY <1>2, <2>2, <2>6 DEF JudgeOrNone, o
<1> QED
  BY <1>1, <1>2, InputIs

-----------------------------------------------------------------------------
FailedDecision ==
    [result |-> Failure("invalid_judge_response"), source |-> "failure"]

LEMMA FailedDecisionIs ==
    /\ FailedAs(FailedDecision) /\ ResultOK(FailedDecision.result)
    /\ FailedDecision.result.kind = "failure"
  BY HostResultsOK DEF FailedAs, FailedDecision, FailureCodes

(* The ways a decision can stand tell its kind. *)
LEMMA StandingKinds ==
    ASSUME NEW d, NEW v
    PROVE  /\ JudgedAs(d, v) => ResultOK(d.result) /\ d.result.kind = v.decision
           /\ DowngradedAs(d, v) => ResultOK(d.result) /\ d.result.kind = "review"
           /\ UpgradedAs(d, v) => ResultOK(d.result) /\ d.result.kind = "allow"
           /\ FailedAs(d) => ResultOK(d.result) /\ d.result.kind = "failure"
           /\ RefusedAs(d) => ResultOK(d.result) /\ d.result.kind = "deny"
<1>1. ASSUME JudgedAs(d, v)
      PROVE  ResultOK(d.result) /\ d.result.kind = v.decision
  <2>1. v.decision \in {"allow", "deny", "review"}
        /\ (v.decision # "allow" => v.reason_code \in ModelCodes)
    BY <1>1, VerdictType DEF JudgedAs
  <2>2. d.result.kind = v.decision /\ d.result.mark = Null
        /\ d.result.code = Null /\ d.result.verdict = v
    BY <1>1 DEF JudgedAs, ModelResult
  <2>3. SelectFeedbackCode(d.result) =
          IF v.decision = "allow" THEN Null ELSE v.reason_code
    BY <2>1, <2>2 DEF SelectFeedbackCode, Null
  <2> QED
    BY <2>1, <2>2, <2>3
       DEF ResultOK, Outcomes, FeedbackRequiresBlock, ModelCodes, Null
<1>2. ASSUME DowngradedAs(d, v)
      PROVE  ResultOK(d.result) /\ d.result.kind = "review"
  <2>1. PICK mark \in {Null, "opaque", "local_guard"} :
          d.result = ModelResult("review", v, mark) /\ v.decision = "allow"
    BY <1>2 DEF DowngradedAs
  <2>2. d.result.kind = "review" /\ d.result.mark = mark
        /\ d.result.code = Null /\ d.result.verdict = v
    BY <2>1 DEF ModelResult
  <2>3. SelectFeedbackCode(d.result) =
          IF mark = "opaque" THEN "opaque_or_unverifiable"
                             ELSE "local_policy_review"
    BY <2>1, <2>2 DEF SelectFeedbackCode, Null
  <2> QED
    BY <2>2, <2>3
       DEF ResultOK, Outcomes, FeedbackRequiresBlock, ModelCodes, HostCodes
<1>3. ASSUME UpgradedAs(d, v)
      PROVE  ResultOK(d.result) /\ d.result.kind = "allow"
  <2>1. d.result.kind = "allow" /\ d.result.mark = "trusted_observation"
        /\ d.result.code = Null
    BY <1>3 DEF UpgradedAs, ModelResult
  <2>2. SelectFeedbackCode(d.result) = Null
    BY <2>1 DEF SelectFeedbackCode
  <2> QED
    BY <2>1, <2>2 DEF ResultOK, Outcomes, FeedbackRequiresBlock, Null
<1>4. FailedAs(d) => ResultOK(d.result) /\ d.result.kind = "failure"
  BY HostResultsOK DEF FailedAs
<1>5. RefusedAs(d) => ResultOK(d.result) /\ d.result.kind = "deny"
  BY HostResultsOK DEF RefusedAs
<1> QED
  BY <1>1, <1>2, <1>3, <1>4, <1>5

(* A technical failure leaves a denial of the judge and nothing else.       *)
LEMMA DecidedIs ==
    ASSUME NEW i \in Inputs
    PROVE  /\ i.intervention = "none" => Decided(i) = Ordinary(i)
           /\ i.intervention = "technical" =>
                Decided(i) = IF Judged(i).kind = "deny" THEN Ordinary(i)
                             ELSE FailedDecision
           /\ i.intervention \in {"hard", "tripped", "tripped_later"} =>
                RefusedAs(Decided(i))
           /\ i.intervention = "hard" <=> Decided(i).source = "hard_boundary"
<1> DEFINE v == i.reply.verdict
           source == OrdinaryDecisionSource(Judged(i), v)
<1>1. source \in {"failure", "local_downgrade", "llm"}
  BY DEF OrdinaryDecisionSource
<1> HIDE DEF source
<1>2. Ordinary(i) = [result |-> Judged(i), source |-> source]
      /\ Ordinary(i).source = source
  BY DEF Ordinary, source
<1>3. CASE i.intervention = "none"
  <2>1. Decided(i) = Ordinary(i)
    BY <1>2, <1>3 DEF Decided, source
  <2> QED
    BY <1>1, <1>2, <1>3, <2>1
<1>4. CASE i.intervention = "technical"
  <2>1. Decided(i) = TechnicalFailure(Judged(i), source)
    BY <1>4 DEF Decided, source
  <2>2. Decided(i) = IF Judged(i).kind = "deny" THEN Ordinary(i)
                     ELSE FailedDecision
    BY <1>1, <1>2, <2>1 DEF TechnicalFailure, FailedDecision
  <2>3. FailedDecision.source = "failure"
    BY DEF FailedDecision
  <2> QED
    BY <1>1, <1>2, <1>4, <2>2, <2>3
<1>5. CASE i.intervention = "hard"
  <2>1. Decided(i) = [result |-> HardPolicyBlock, source |-> "hard_boundary"]
    BY <1>5 DEF Decided
  <2> QED
    BY <1>5, <2>1 DEF RefusedAs
<1>6. CASE i.intervention \in {"tripped", "tripped_later"}
  <2>1. Decided(i) = [result |-> RepeatedDenials, source |-> "circuit_breaker"]
    BY <1>6 DEF Decided
  <2> QED
    BY <1>6, <2>1 DEF RefusedAs
<1> QED
  BY <1>3, <1>4, <1>5, <1>6, InputIs

(* How the decision stands, and what the store's refusal makes of it: only  *)
(* an upgrade can be refused.                                               *)
LEMMA DecidedStands ==
    ASSUME NEW i \in Inputs
    PROVE  LET d == Decided(i)
               v == i.reply.verdict
           IN  /\ \/ JudgedAs(d, v) \/ DowngradedAs(d, v) \/ UpgradedAs(d, v)
                  \/ FailedAs(d) \/ RefusedAs(d)
               /\ ResultOK(d.result) /\ v \in JudgeOrNone
<1> DEFINE d == Decided(i)
           v == i.reply.verdict
<1>1. \/ JudgedAs(d, v) \/ DowngradedAs(d, v) \/ UpgradedAs(d, v)
      \/ FailedAs(d) \/ RefusedAs(d)
  BY InputIs, OrdinaryIs, DecidedIs, FailedDecisionIs
<1> HIDE DEF d, v
<1>2. ResultOK(d.result)
  BY <1>1, StandingKinds
<1> QED
  BY <1>1, <1>2, OrdinaryIs DEF d, v

LEMMA SettledIs ==
    ASSUME NEW i \in Inputs
    PROVE  LET d == Decided(i)
               v == i.reply.verdict
           IN  /\ ValidMetadata(DecisionMetadata(d.result, v)) <=>
                    ~(UpgradedAs(d, v) /\ v.authorization # "high")
               /\ Settled(i) = IF UpgradedAs(d, v) /\ v.authorization # "high"
                               THEN FailedDecision ELSE d
<1> DEFINE d == Decided(i)
           v == i.reply.verdict
           valid == ValidMetadata(DecisionMetadata(d.result, v))
<1>1. /\ \/ JudgedAs(d, v) \/ DowngradedAs(d, v) \/ UpgradedAs(d, v)
         \/ FailedAs(d) \/ RefusedAs(d)
      /\ ResultOK(d.result) /\ v \in JudgeOrNone
  BY DecidedStands
<1>2. Settled(i) = IF valid THEN d ELSE TechnicalFailure(d.result, d.source)
  BY DEF Settled
<1> HIDE DEF d, v
<1>3. d.result.kind # "allow" => valid
  BY <1>1, MetadataOK
<1>4. v.risk = "low" /\ v.authorization = "high" => valid
  BY <1>1, MetadataOK
<1>5. d.result.kind = "allow" /\ valid => v.authorization = "high"
  BY <1>1, AcceptedAllow
<1>6. UpgradedAs(d, v) => d.result.kind = "allow" /\ v.risk = "low"
                          /\ d.source = "llm"
  BY StandingKinds DEF UpgradedAs
<1>7. JudgedAs(d, v) /\ d.result.kind = "allow" =>
        v.risk = "low" /\ v.authorization = "high"
  BY StandingKinds DEF JudgedAs, LocallySafeAllow
<1>8. d.result.kind = "allow" => JudgedAs(d, v) \/ UpgradedAs(d, v)
  BY <1>1, StandingKinds
<1> HIDE DEF valid
<1>9. valid <=> ~(UpgradedAs(d, v) /\ v.authorization # "high")
  BY <1>3, <1>4, <1>5, <1>6, <1>7, <1>8
<1>10. UpgradedAs(d, v) => TechnicalFailure(d.result, d.source) = FailedDecision
  BY <1>6 DEF TechnicalFailure, FailedDecision
<1> QED
  BY <1>2, <1>9, <1>10 DEF d, v, valid

-----------------------------------------------------------------------------
LEMMA OutcomeFields ==
    ASSUME NEW i
    PROVE  LET o == Outcome(i)
               d == Settled(i)
           IN  /\ o.result = d.result /\ o.source = d.source
               /\ o.hook = Delivered(i.active, d.result,
                                      MapVerdict(i.config, d.result))
               /\ o.audit = BuildAuditEvent(i.config, d.result, i.reply.verdict,
                              d.source, SafePathVerdict(i, d))
  BY DEF Outcome

LEMMA OutputIs ==
    ASSUME PipelineInv, NEW o \in output
    PROVE  o = Outcome(input) /\ input \in Inputs
  BY DEF PipelineInv

(* The marks and traits under which a verdict becomes an allow.             *)
Grounded(v, a) ==
    /\ v.risk = "low" /\ v.authorization = "high"
    /\ ~a.unsafe
    /\ \/ v.decision = "allow" /\ v.confident /\ ~a.opaque
       \/ /\ v.decision = "review" /\ a.observation
          /\ v.reason_code \in OverrideReasons

LEMMA GuardedAllows ==
    ASSUME NEW v \in Verdicts, NEW a \in Traits
    PROVE  /\ GuardedResult(v, a).kind = "allow" /\ v.risk = "low"
                /\ v.authorization = "high" => Grounded(v, a)
           /\ Grounded(v, a) => GuardedResult(v, a).kind = "allow"
<1>1. PICK kind \in {"allow", "deny", "review"},
           mark \in {Null, "opaque", "local_guard", "trusted_observation"} :
        /\ GuardedResult(v, a) = ModelResult(kind, v, mark)
        /\ kind = "deny" <=> v.decision = "deny"
        /\ kind = "allow" =>
             /\ ~a.unsafe
             /\ \/ mark = Null /\ LocallySafeAllow(v) /\ ~a.opaque
                \/ /\ mark = "trusted_observation"
                   /\ v.decision = "review" /\ v.risk = "low"
                   /\ a.observation /\ v.reason_code \in OverrideReasons
        /\ kind = "review" =>
             \/ v.decision = "allow"
                /\ (mark = Null => ~LocallySafeAllow(v))
                /\ mark \in {Null, "opaque", "local_guard"}
                /\ (mark = "opaque" => a.opaque)
                /\ (mark = "local_guard" => a.unsafe)
             \/ /\ v.decision = "review" /\ mark = Null
                /\ ~(/\ v.risk = "low" /\ a.observation /\ ~a.unsafe
                     /\ v.reason_code \in OverrideReasons)
  BY GuardedShape
<1>2. GuardedResult(v, a).kind = kind
  BY <1>1, ModelSource
<1>3. kind = "allow" /\ v.risk = "low" /\ v.authorization = "high"
        => Grounded(v, a)
  BY <1>1 DEF Grounded, LocallySafeAllow
<1>4. ASSUME Grounded(v, a), kind = "review" PROVE FALSE
  <2>1. CASE v.decision = "allow"
    BY <1>1, <1>4, <2>1 DEF Grounded, LocallySafeAllow
  <2>2. CASE v.decision = "review"
    BY <1>1, <1>4, <2>2 DEF Grounded
  <2> QED
    BY <1>4, <2>1, <2>2 DEF Grounded
<1>5. Grounded(v, a) => kind # "deny"
  BY <1>1 DEF Grounded
<1> QED
  BY <1>2, <1>3, <1>4, <1>5

LEMMA PipelineAllows == PipelineInv => AllowsAreGrounded
<1> SUFFICES ASSUME PipelineInv, NEW o \in output, input.intervention = "none"
             PROVE  LET v == input.reply.verdict
                        a == input.action
                    IN  o.result.kind = "allow" <=> Grounded(v, a)
  BY DEF AllowsAreGrounded, Grounded
<1> DEFINE v == input.reply.verdict
           a == input.action
           d == Decided(input)
           n == Settled(input)
<1>1. o.result = n.result /\ input \in Inputs
  BY OutputIs, OutcomeFields
<1>2. d.result = Judged(input) /\ ResultOK(d.result) /\ v \in JudgeOrNone
  BY <1>1, DecidedIs, OrdinaryIs DEF Ordinary
<1>3. /\ n = IF UpgradedAs(d, v) /\ v.authorization # "high"
             THEN FailedDecision ELSE d
      /\ ValidMetadata(DecisionMetadata(d.result, v)) <=>
           ~(UpgradedAs(d, v) /\ v.authorization # "high")
  BY <1>1, SettledIs
<1> HIDE DEF d, n
<1>4. n.result.kind = "allow" =>
        /\ d.result.kind = "allow"
        /\ v.risk = "low" /\ v.authorization = "high"
  BY <1>2, <1>3, FailedDecisionIs, AcceptedAllow
<1>5. d.result.kind = "allow" /\ v.authorization = "high"
        => n.result.kind = "allow"
  BY <1>3
<1>6. CASE v \in Verdicts /\ input.reply.code = Null
  <2>1. d.result = GuardedResult(v, a) /\ a \in Traits
    BY <1>1, <1>2, <1>6, InputIs DEF Judged
  <2>2. Grounded(v, a) => v.authorization = "high"
    BY DEF Grounded
  <2> HIDE DEF v, a
  <2>3. n.result.kind = "allow" <=> Grounded(v, a)
    BY <1>4, <1>5, <1>6, <2>1, <2>2, GuardedAllows
  <2> QED
    BY <1>1, <2>3 DEF v, a
<1>7. CASE v = NoVerdict
  <2>1. ~Grounded(v, a) /\ v.risk # "low"
    BY <1>7, NoVerdictIs DEF Grounded, Null
  <2> QED
    BY <1>1, <1>4, <2>1
<1> QED
  BY <1>1, <1>6, <1>7, InputIs

LEMMA PipelineMetadata == PipelineInv => MetadataIsAccepted
<1> SUFFICES ASSUME PipelineInv PROVE MetadataIsAccepted
  OBVIOUS
<1> DEFINE v == input.reply.verdict
           d == Decided(input)
<1>1. input \in Inputs
  BY DEF PipelineInv
<1>2. \/ ValidMetadata(DecisionMetadata(d.result, v))
      \/ UpgradedAs(d, v) /\ v.authorization # "high"
  BY <1>1, SettledIs
<1> HIDE DEF d
<1>3. UpgradedAs(d, v) => Overridden(d)
  BY DEF UpgradedAs, Overridden, ModelResult
<1> QED
  BY <1>2, <1>3 DEF MetadataIsAccepted, d

(* What the hook delivers for a result: with the marker a failure is opened *)
(* and no approval is asked for.                                            *)
LEMMA DeliveredIs ==
    ASSUME NEW g, NEW active \in BOOLEAN, NEW r, ResultOK(r)
    PROVE  LET hook == Delivered(active, r, MapVerdict(g, r))
               code == SelectFeedbackCode(r)
           IN  IF g.enforcement = "shadow" THEN hook = NoHookValue
               ELSE hook =
                 IF r.kind = "allow" \/ (active /\ r.kind = "failure")
                 THEN HookValue("params", Null)
                 ELSE IF ~active /\ g.mode = "supervised" /\ r.kind # "deny"
                      THEN HookValue("approval", code)
                 ELSE HookValue("block", code)
<1> DEFINE mapped == MapVerdict(g, r)
           opened == FailOpen(active, r, mapped)
           code == SelectFeedbackCode(r)
<1>1. ASSUME NEW kind, NEW c
      PROVE  HookValue(kind, c).kind = kind /\ HookValue(kind, c).code = c
  BY DEF HookValue
<1>2. NoHookValue.kind = "undefined"
  BY DEF NoHookValue, HookValue
<1>3. IsTechnicalJudgeFailure(r) <=> r.kind = "failure"
  BY DEF IsTechnicalJudgeFailure, ResultOK
<1>4. opened = IF active /\ mapped.kind \in {"block", "approval"} /\ r.kind = "failure"
               THEN HookValue("params", Null) ELSE mapped
  BY <1>3 DEF FailOpen
<1>5. Delivered(active, r, mapped) =
        IF active /\ opened.kind = "approval"
        THEN HookValue("block", opened.code) ELSE opened
  BY DEF Delivered
<1>6. g.enforcement = "shadow" => mapped = NoHookValue
  BY MappedIs
<1>7. g.enforcement # "shadow" =>
        mapped = IF r.kind = "allow" THEN HookValue("params", Null)
                 ELSE IF g.mode = "supervised" /\ r.kind # "deny"
                      THEN HookValue("approval", code)
                 ELSE HookValue("block", code)
  BY MappedExactly
<1> HIDE DEF mapped, opened, code
<1>8. CASE g.enforcement = "shadow"
  BY <1>2, <1>4, <1>5, <1>6, <1>8 DEF mapped
<1>9. CASE g.enforcement # "shadow"
  <2>1. CASE r.kind = "allow"
    BY <1>1, <1>4, <1>5, <1>7, <1>9, <2>1 DEF mapped
  <2>2. CASE r.kind # "allow" /\ active /\ r.kind = "failure"
    BY <1>1, <1>4, <1>5, <1>7, <1>9, <2>2 DEF mapped
  <2>3. CASE r.kind # "allow" /\ ~(active /\ r.kind = "failure")
    <3>1. opened = mapped
      BY <1>4, <2>3
    <3> QED
      BY <1>1, <1>5, <1>7, <1>9, <2>3, <3>1 DEF mapped, code
  <2> QED
    BY <2>1, <2>2, <2>3
<1> QED
  BY <1>8, <1>9

LEMMA PipelineFailures == PipelineInv => FailureLoosensOnlyReviews
<1> SUFFICES ASSUME PipelineInv, NEW o \in output,
                    input.intervention = "technical"
             PROVE  LET r == Judged(input)
                        unfailed == Delivered(input.active, r,
                                              MapVerdict(input.config, r))
                    IN  Permits(o.hook) > Permits(unfailed) <=>
                          /\ input.active /\ input.config.enforcement = "enforce"
                          /\ r.kind = "review"
  BY DEF FailureLoosensOnlyReviews
<1> DEFINE g == input.config
           active == input.active
           r == Judged(input)
           d == Decided(input)
           f == FailedDecision.result
           n == IF r.kind = "deny" THEN r ELSE f
           unfailed == Delivered(active, r, MapVerdict(g, r))
<1>1. /\ o.hook = Delivered(active, Settled(input).result,
                            MapVerdict(g, Settled(input).result))
      /\ input \in Inputs
  BY OutputIs, OutcomeFields
<1>2. ResultOK(r) /\ d = IF r.kind = "deny" THEN Ordinary(input)
                         ELSE FailedDecision
  BY <1>1, DecidedIs, OrdinaryIs
<1>3. Settled(input) = d
  <2>1. UpgradedAs(d, input.reply.verdict) => d.result.kind = "allow"
    BY StandingKinds
  <2>2. d.result.kind \in {"deny", "failure"}
    BY <1>2, FailedDecisionIs DEF Ordinary
  <2> QED
    BY <1>1, <2>1, <2>2, SettledIs
<1>4. d.result = n
  BY <1>2 DEF Ordinary
<1>5. ResultOK(n) /\ ResultOK(f) /\ f.kind = "failure"
  BY <1>2, FailedDecisionIs
<1>6. /\ \A code : Permits(HookValue("params", code)) = 2
      /\ \A code : Permits(HookValue("approval", code)) = 1
      /\ \A code : Permits(HookValue("block", code)) = 0
      /\ Permits(NoHookValue) = 2
  BY DEF Permits, HookValue, NoHookValue
<1>7. /\ g.mode \in {"autonomous", "supervised"}
      /\ g.enforcement \in {"enforce", "shadow"} /\ active \in BOOLEAN
      /\ r.kind \in {"allow", "deny", "review", "failure"}
  BY <1>1, <1>2, InputIs DEF ResultOK, Outcomes
<1>8. o.hook = Delivered(active, n, MapVerdict(g, n))
  BY <1>1, <1>3, <1>4
<1>9. n.kind = IF r.kind = "deny" THEN "deny" ELSE "failure"
  BY <1>5
<1> HIDE DEF g, active, r, d, f, n
<1>10. CASE g.enforcement = "shadow"
  <2>1. o.hook = NoHookValue /\ unfailed = NoHookValue
    BY <1>2, <1>5, <1>7, <1>8, <1>10, DeliveredIs
  <2> QED
    BY <1>6, <1>10, <2>1 DEF g, active, r
<1>11. CASE g.enforcement = "enforce"
  <2> DEFINE Level(k) == IF k = "allow" \/ (active /\ k = "failure") THEN 2
                         ELSE IF ~active /\ g.mode = "supervised" /\ k # "deny"
                              THEN 1 ELSE 0
  <2>1. ASSUME NEW x, ResultOK(x)
        PROVE  Permits(Delivered(active, x, MapVerdict(g, x))) = Level(x.kind)
    BY <1>6, <1>7, <1>11, <2>1, DeliveredIs
  <2>2. Permits(o.hook) = Level(n.kind) /\ Permits(unfailed) = Level(r.kind)
    BY <1>2, <1>5, <1>8, <2>1
  <2>3. Level(n.kind) > Level(r.kind) <=> active /\ r.kind = "review"
    BY <1>7, <1>9
  <2> QED
    BY <1>11, <2>2, <2>3 DEF g, active, r
<1> QED
  BY <1>7, <1>10, <1>11

-----------------------------------------------------------------------------
(* The code with which each decision is reported.                           *)
LEMMA StandingCodes ==
    ASSUME NEW d, NEW v
    PROVE  LET code == SelectFeedbackCode(d.result)
           IN  /\ JudgedAs(d, v) /\ v.decision # "allow" =>
                    code \in ModelCodes /\ code = v.reason_code
               /\ DowngradedAs(d, v) =>
                    code \in {"local_policy_review", "opaque_or_unverifiable"}
               /\ FailedAs(d) => code \in FailureCodes
               /\ RefusedAs(d) =>
                    code = IF d.source = "hard_boundary"
                           THEN "hard_policy_block" ELSE "repeated_denials"
<1> DEFINE code == SelectFeedbackCode(d.result)
<1>1. ASSUME JudgedAs(d, v), v.decision # "allow"
      PROVE  code \in ModelCodes /\ code = v.reason_code
  <2>1. v.decision \in {"deny", "review"} /\ v.reason_code \in ModelCodes
    BY <1>1, VerdictType DEF JudgedAs
  <2>2. d.result.kind = v.decision /\ d.result.mark = Null
        /\ d.result.code = Null /\ d.result.verdict = v
    BY <1>1 DEF JudgedAs, ModelResult
  <2> QED
    BY <2>1, <2>2 DEF SelectFeedbackCode, Null
<1>2. ASSUME DowngradedAs(d, v)
      PROVE  code \in {"local_policy_review", "opaque_or_unverifiable"}
  <2>1. PICK mark \in {Null, "opaque", "local_guard"} :
          d.result = ModelResult("review", v, mark) /\ v.decision = "allow"
    BY <1>2 DEF DowngradedAs
  <2>2. d.result.kind = "review" /\ d.result.mark = mark
        /\ d.result.code = Null /\ d.result.verdict = v
    BY <2>1 DEF ModelResult
  <2> QED
    BY <2>1, <2>2 DEF SelectFeedbackCode, Null
<1>3. FailedAs(d) => code \in FailureCodes
  BY HostResultsOK DEF FailedAs
<1>4. RefusedAs(d) => code = IF d.source = "hard_boundary"
                             THEN "hard_policy_block" ELSE "repeated_denials"
  BY HostResultsOK DEF RefusedAs
<1> QED
  BY <1>1, <1>2, <1>3, <1>4

LEMMA SettledStands ==
    ASSUME NEW i \in Inputs, Settled(i).result.mark # "trusted_observation"
    PROVE  LET d == Settled(i)
               v == i.reply.verdict
           IN  /\ \/ JudgedAs(d, v) \/ DowngradedAs(d, v)
                  \/ FailedAs(d) \/ RefusedAs(d)
               /\ ResultOK(d.result)
               /\ i.safePath => d.source # "hard_boundary"
<1> DEFINE d == Decided(i)
           n == Settled(i)
           v == i.reply.verdict
<1>1. /\ \/ JudgedAs(d, v) \/ DowngradedAs(d, v) \/ UpgradedAs(d, v)
         \/ FailedAs(d) \/ RefusedAs(d)
      /\ n = IF UpgradedAs(d, v) /\ v.authorization # "high"
             THEN FailedDecision ELSE d
      /\ i.safePath => d.source # "hard_boundary"
  BY DecidedStands, SettledIs, DecidedIs, InputIs
<1>2. FailedDecision.source # "hard_boundary"
  BY DEF FailedDecision
<1> HIDE DEF d, n, v
<1>3. UpgradedAs(n, v) => n.result.mark = "trusted_observation"
  BY DEF UpgradedAs, ModelResult
<1>4. \/ JudgedAs(n, v) \/ DowngradedAs(n, v) \/ FailedAs(n) \/ RefusedAs(n)
  BY <1>1, <1>3, FailedDecisionIs DEF n
<1>5. ResultOK(n.result)
  BY <1>4, StandingKinds
<1> QED
  BY <1>1, <1>2, <1>4, <1>5 DEF n, v

(* The event of such a decision contradicts itself nowhere.                 *)
LEMMA EventIsValid ==
    ASSUME NEW i \in Inputs, Settled(i).result.mark # "trusted_observation"
    PROVE  LET d == Settled(i)
               v == i.reply.verdict
               safePath == SafePathVerdict(i, d)
           IN  BuildAuditEvent(i.config, d.result, v, d.source, safePath)
                 = RawAuditEvent(i.config, d.result, v, d.source, safePath)
<1> DEFINE g == i.config
           d == Settled(i)
           r == d.result
           v == i.reply.verdict
           code == SelectFeedbackCode(r)
           safePath == SafePathVerdict(i, d)
           e == RawAuditEvent(g, r, v, d.source, safePath)
           reports == g.enforcement = "enforce" /\ r.kind # "allow"
<1>1. /\ \/ JudgedAs(d, v) \/ DowngradedAs(d, v) \/ FailedAs(d) \/ RefusedAs(d)
      /\ ResultOK(r)
      /\ i.safePath => d.source # "hard_boundary"
  BY SettledStands
<1>2. g.enforcement \in {"enforce", "shadow"}
  BY InputIs
<1>3. /\ ~i.safePath => safePath = Null
      /\ d.source # "circuit_breaker" =>
           safePath \in {Null, IF r.kind = "allow" THEN "agrees" ELSE "disagrees"}
  BY DEF SafePathVerdict
<1> HIDE DEF d, v, g, safePath, code
<1>4. /\ e.judge = v /\ e.outcome = r.kind /\ e.source = d.source
      /\ e.code = IF reports THEN code ELSE Null
      /\ e.safePath = safePath
      /\ e.status = IF reports THEN ExpectedFeedbackStatus(g.mode, r.kind, code)
                               ELSE Null
  BY <1>1, OutcomeIsKind DEF RawAuditEvent, code
<1> HIDE DEF e
<1>5. /\ JudgedAs(d, v) => r.kind = v.decision
      /\ DowngradedAs(d, v) => r.kind = "review"
      /\ FailedAs(d) => r.kind = "failure"
      /\ RefusedAs(d) => r.kind = "deny"
  BY StandingKinds
<1>6. /\ JudgedAs(d, v) /\ v.decision # "allow" =>
           code \in ModelCodes /\ code = v.reason_code
      /\ DowngradedAs(d, v) =>
           code \in {"local_policy_review", "opaque_or_unverifiable"}
      /\ FailedAs(d) => code \in FailureCodes
      /\ RefusedAs(d) =>
           code = IF d.source = "hard_boundary"
                  THEN "hard_policy_block" ELSE "repeated_denials"
  BY StandingCodes DEF code
<1>7. /\ JudgedAs(d, v) => d.source = "llm" /\ v # NoVerdict
      /\ DowngradedAs(d, v) => d.source = "local_downgrade" /\ v.decision = "allow"
      /\ FailedAs(d) => d.source = "failure"
      /\ RefusedAs(d) => d.source \in {"hard_boundary", "circuit_breaker"}
  BY NoVerdictIs DEF JudgedAs, DowngradedAs, FailedAs, RefusedAs
<1>8. SourceValid(e)
  <2>1. CASE JudgedAs(d, v)
    BY <1>4, <1>5, <1>7, <2>1 DEF SourceValid
  <2>2. CASE DowngradedAs(d, v)
    BY <1>4, <1>5, <1>7, <2>2 DEF SourceValid
  <2>3. CASE FailedAs(d)
    BY <1>4, <1>5, <1>7, <2>3 DEF SourceValid
  <2>4. CASE RefusedAs(d)
    BY <1>4, <1>5, <1>7, <2>4 DEF SourceValid
  <2> QED
    BY <1>1, <2>1, <2>2, <2>3, <2>4
<1>9. FeedbackValid(g, e)
  <2>1. CASE g.enforcement = "shadow"
    BY <1>4, <2>1 DEF FeedbackValid
  <2>2. CASE g.enforcement = "enforce" /\ r.kind = "allow"
    <3>1. d.source = "llm"
      BY <1>1, <1>5, <1>7, <2>2
    <3> QED
      BY <1>4, <2>2, <3>1 DEF FeedbackValid
  <2>3. CASE g.enforcement = "enforce" /\ r.kind # "allow"
    <3>1. e.code = code /\ e.outcome # "allow"
          /\ e.status = ExpectedFeedbackStatus(g.mode, e.outcome, e.code)
      BY <1>4, <2>3
    <3>2. CASE JudgedAs(d, v)
      BY <1>4, <1>5, <1>6, <1>7, <2>3, <3>1, <3>2 DEF FeedbackValid
    <3>3. CASE DowngradedAs(d, v)
      BY <1>4, <1>6, <1>7, <2>3, <3>1, <3>3 DEF FeedbackValid
    <3>4. CASE FailedAs(d)
      BY <1>4, <1>6, <1>7, <2>3, <3>1, <3>4 DEF FeedbackValid
    <3>5. CASE RefusedAs(d)
      BY <1>4, <1>6, <1>7, <2>3, <3>1, <3>5 DEF FeedbackValid
    <3> QED
      BY <1>1, <3>2, <3>3, <3>4, <3>5
  <2> QED
    BY <1>2, <2>1, <2>2, <2>3
<1>10. SafePathValid(e)
  BY <1>1, <1>3, <1>4 DEF SafePathValid
<1> QED
  BY <1>8, <1>9, <1>10 DEF BuildAuditEvent, e, g, d, v, safePath

LEMMA PipelineAudit == PipelineInv => AuditAgreesWithHook
<1> SUFFICES ASSUME PipelineInv, NEW o \in output, ~Overridden(o)
             PROVE  LET opened == input.active /\ o.audit.outcome = "failure"
                        approval == IF input.active THEN "block" ELSE "approval"
                    IN
                    /\ o.audit.source = o.source
                    /\ o.audit.judge = input.reply.verdict
                    /\ o.audit.outcome = SelectFeedbackOutcome(o.result)
                    /\ input.config.enforcement = "enforce" =>
                         /\ o.hook.kind =
                              IF opened \/ o.audit.status = Null THEN "params"
                              ELSE IF o.audit.status = "blocked" THEN "block"
                              ELSE approval
                         /\ ~opened => o.hook.code = o.audit.code
                         /\ opened => o.audit.status # Null
  BY DEF AuditAgreesWithHook
<1> DEFINE g == input.config
           d == Settled(input)
           r == d.result
           v == input.reply.verdict
           code == SelectFeedbackCode(r)
           active == input.active
           e == RawAuditEvent(g, r, v, d.source, SafePathVerdict(input, d))
           reports == g.enforcement = "enforce" /\ r.kind # "allow"
<1>1. /\ o.result = r /\ o.source = d.source
      /\ o.hook = Delivered(active, r, MapVerdict(g, r))
      /\ o.audit = BuildAuditEvent(g, r, v, d.source, SafePathVerdict(input, d))
      /\ input \in Inputs
  BY OutputIs, OutcomeFields
<1>2. r.mark # "trusted_observation"
  BY <1>1 DEF Overridden
<1>3. ResultOK(r) /\ o.audit = e
  BY <1>1, <1>2, SettledStands, EventIsValid
<1>4. g.mode \in {"autonomous", "supervised"} /\ active \in BOOLEAN
  BY <1>1, InputIs
<1> HIDE DEF g, d, v, code, active
<1>5. /\ e.judge = v /\ e.outcome = SelectFeedbackOutcome(r)
      /\ e.source = d.source
      /\ e.code = IF reports THEN code ELSE Null
      /\ e.status = IF reports THEN ExpectedFeedbackStatus(g.mode, r.kind, code)
                               ELSE Null
      /\ e.outcome = r.kind
  BY <1>3, OutcomeIsKind DEF RawAuditEvent, code
<1> HIDE DEF e
<1>6. ASSUME g.enforcement = "enforce"
      PROVE  LET opened == active /\ r.kind = "failure"
             IN  /\ o.hook.kind =
                       IF opened \/ e.status = Null THEN "params"
                       ELSE IF e.status = "blocked" THEN "block"
                       ELSE IF active THEN "block" ELSE "approval"
                 /\ ~opened => o.hook.code = e.code
                 /\ opened => e.status # Null
  <2> DEFINE opened == active /\ r.kind = "failure"
  <2>1. o.hook = IF r.kind = "allow" \/ opened THEN HookValue("params", Null)
                 ELSE IF ~active /\ g.mode = "supervised" /\ r.kind # "deny"
                      THEN HookValue("approval", code)
                 ELSE HookValue("block", code)
    BY <1>1, <1>3, <1>4, <1>6, DeliveredIs DEF code
  <2>2. FeedbackRequiresBlock(code) => r.kind = "deny"
    BY <1>3 DEF ResultOK, code
  <2>3. ASSUME NEW kind, NEW c
        PROVE  HookValue(kind, c).kind = kind /\ HookValue(kind, c).code = c
    BY DEF HookValue
  <2>4. CASE r.kind = "allow"
    BY <1>5, <2>1, <2>3, <2>4
  <2>5. CASE r.kind # "allow"
    <3>1. e.code = code
          /\ e.status = IF g.mode = "supervised" /\ r.kind # "deny"
                        THEN "approval_required" ELSE "blocked"
      BY <1>4, <1>5, <1>6, <2>2, <2>5 DEF ExpectedFeedbackStatus
    <3>2. e.status # Null
      BY <3>1 DEF Null
    <3> QED
      BY <1>4, <2>1, <2>3, <2>5, <3>1, <3>2
  <2> QED
    BY <2>4, <2>5
<1> QED
  BY <1>1, <1>3, <1>5, <1>6 DEF g, d, v, active

-----------------------------------------------------------------------------
(* Output and attempt are always what the input comes to, or that with one  *)
(* part changed.                                                            *)
THEOREM ContractSound == ESpec => []ContractInv
  BY ContractInit, ContractStep, PTL DEF ESpec

(* gateToolCall decides to allow for a verdict of low risk and high         *)
(* authorization on an action the local guard does not object to, when it  *)
(* is a confident allow of readable parameters or one of three reviews of   *)
(* an observation, and for no other.                                        *)
THEOREM AllowsStandOnGrounds == ESpec => []AllowsAreGrounded
<1>1. ContractInv => AllowsAreGrounded
  BY PipelineAllows DEF ContractInv
<1> QED
  BY <1>1, ContractSound, PTL

(* The event buildAuditEvent makes of a gated call says what the hook       *)
(* returns after the fail-open of plugin.js, whatever the configuration,    *)
(* in an autoapproved chat or not, and however it was decided: a status is  *)
(* the block or approval with its code, none is the parameters, and with    *)
(* the marker an approval is a block and a refused failure the parameters.  *)
THEOREM AuditTellsTheHook == ESpec => []AuditAgreesWithHook
<1>1. ContractInv => AuditAgreesWithHook
  BY PipelineAudit DEF ContractInv
<1> QED
  BY <1>1, ContractSound, PTL

(* The store refuses the metadata of no decision but an upgrade without     *)
(* high authorization.                                                      *)
THEOREM StoreTakesDecisions == ESpec => []MetadataIsAccepted
<1>1. ContractInv => MetadataIsAccepted
  BY PipelineMetadata DEF ContractInv
<1> QED
  BY <1>1, ContractSound, PTL

(* When a step after the decision throws, what the hook returns permits     *)
(* more than it would have exactly for a review in an autoapproved chat.    *)
THEOREM FailuresLoosenReviews == ESpec => []FailureLoosensOnlyReviews
<1>1. ContractInv => FailureLoosensOnlyReviews
  BY PipelineFailures DEF ContractInv
<1> QED
  BY <1>1, ContractSound, PTL

-----------------------------------------------------------------------------
(* The kind of result the harness comes to: a denial stays one, and of the  *)
(* rest what is safe without the judge's help or overridable is an allow.   *)
HarnessUpgrades(v, a) ==
    /\ a.observation /\ ~a.unsafe /\ v.risk = "low"
    /\ v.decision = "review" => v.reason_code \in OverrideReasons

HarnessKind(v, a) ==
    IF v.decision = "deny" THEN "deny"
    ELSE IF LocallySafeAllow(v)
         THEN IF a.opaque \/ a.unsafe THEN "review" ELSE "allow"
    ELSE IF HarnessUpgrades(v, a) THEN "allow" ELSE "review"

LEMMA HarnessShape ==
    ASSUME NEW v, v.decision \in {"allow", "deny", "review"}, NEW a
    PROVE  LET r == HarnessResult(v, a)
           IN  /\ r.kind = HarnessKind(v, a)
               /\ r.code = Null /\ r.mark \in
                    {Null, "opaque", "local_guard", "trusted_observation"}
               /\ r.kind = "allow" => r.mark \in {Null, "trusted_observation"}
<1> DEFINE n == NormalizeVerdict(v)
           r1 == ApplyOpaqueDowngrade(n, a)
           r2 == ApplyLocalSafetyDowngrade(r1, a)
           upgraded == ModelResult("allow", v, "trusted_observation")
<1>0. HarnessResult(v, a) = ApplyTrustedObservationAllow(r2, a)
  BY DEF HarnessResult
<1>1. /\ n.verdict = v /\ n.mark = Null /\ n.code = Null
      /\ n.kind = (IF v.decision = "allow" /\ ~LocallySafeAllow(v)
                   THEN "review" ELSE v.decision)
      /\ n.gated <=> (v.decision = "allow" /\ ~LocallySafeAllow(v))
  BY DEF NormalizeVerdict, ModelResult
<1> HIDE DEF n
<1>2. LocallySafeAllow(v) => v.decision = "allow"
  BY DEF LocallySafeAllow
<1>3. \A kind, mark :
        LET r == ModelResult(kind, v, mark)
        IN  r.kind = kind /\ r.verdict = v /\ r.mark = mark
            /\ r.code = Null /\ r.gated = FALSE
  BY DEF ModelResult
<1>4. ApplyLocalSafetyDowngrade(upgraded, a).kind =
        IF a.unsafe THEN "review" ELSE "allow"
  BY DEF ModelResult, ApplyLocalSafetyDowngrade
<1>5. upgraded.kind = "allow" /\ upgraded.mark = "trusted_observation"
      /\ upgraded.code = Null
  BY <1>3
<1>6. r2.verdict = v /\ r2.code = Null
  <2>1. r1.verdict = v /\ r1.code = Null
    BY <1>1, <1>3 DEF ApplyOpaqueDowngrade
  <2> HIDE DEF r1
  <2> QED
    BY <2>1, <1>3 DEF ApplyLocalSafetyDowngrade
<1>7. CASE LocallySafeAllow(v) /\ (a.opaque \/ a.unsafe)
  <2>1. n.kind = "allow" /\ n.mark = Null
    BY <1>1, <1>2, <1>7
  <2>2. r1.kind = (IF a.opaque THEN "review" ELSE "allow")
        /\ r1.mark = (IF a.opaque THEN "opaque" ELSE Null) /\ r1.verdict = v
    BY <1>1, <1>3, <2>1 DEF ApplyOpaqueDowngrade
  <2> HIDE DEF r1
  <2>3. r2.kind = "review" /\ r2.mark \in {"opaque", "local_guard"}
    BY <1>1, <1>3, <1>7, <2>2 DEF ApplyLocalSafetyDowngrade
  <2> HIDE DEF r2
  <2>4. HarnessResult(v, a) = r2
    BY <1>0, <2>3 DEF ApplyTrustedObservationAllow, Overridable
  <2>5. HarnessKind(v, a) = "review"
    BY <1>2, <1>7 DEF HarnessKind
  <2> QED
    BY <1>6, <2>3, <2>4, <2>5
<1>8. CASE LocallySafeAllow(v) /\ ~a.opaque /\ ~a.unsafe
  <2>1. n.kind = "allow"
    BY <1>1, <1>2, <1>8
  <2>2. r1 = n
    BY <1>8 DEF ApplyOpaqueDowngrade
  <2>3. r2 = n
    BY <1>8, <2>2 DEF ApplyLocalSafetyDowngrade
  <2> HIDE DEF r1, r2
  <2>4. HarnessResult(v, a) = n
    BY <1>0, <2>1, <2>3 DEF ApplyTrustedObservationAllow, Overridable
  <2>5. HarnessKind(v, a) = "allow"
    BY <1>2, <1>8 DEF HarnessKind
  <2> QED
    BY <1>1, <2>1, <2>4, <2>5
<1>9. CASE ~LocallySafeAllow(v)
  <2>1. n.kind \in {"deny", "review"}
        /\ (n.kind = "deny" <=> v.decision = "deny")
    BY <1>1, <1>9
  <2>2. r1 = n
    BY <2>1 DEF ApplyOpaqueDowngrade
  <2>3. r2 = n
    BY <2>1, <2>2 DEF ApplyLocalSafetyDowngrade
  <2> HIDE DEF r1, r2
  <2>4. Overridable(n, a) <=>
          /\ v.decision # "deny" /\ a.observation /\ v.risk = "low"
          /\ v.decision = "review" => v.reason_code \in OverrideReasons
    BY <1>1, <1>9, <2>1 DEF Overridable, Null
  <2>5. Overridable(n, a) /\ ~a.unsafe <=>
          v.decision # "deny" /\ HarnessUpgrades(v, a)
    BY <2>4 DEF HarnessUpgrades
  <2>6. HarnessResult(v, a) =
          IF Overridable(n, a) /\ ~a.unsafe THEN upgraded ELSE n
    BY <1>0, <1>1, <1>4, <2>3 DEF ApplyTrustedObservationAllow
  <2>7. HarnessKind(v, a) =
          IF v.decision = "deny" THEN "deny"
          ELSE IF HarnessUpgrades(v, a) THEN "allow" ELSE "review"
    BY <1>9 DEF HarnessKind
  <2> HIDE DEF upgraded
  <2> QED
    BY <1>1, <1>5, <2>1, <2>5, <2>6, <2>7
<1> QED
  BY <1>7, <1>8, <1>9

-----------------------------------------------------------------------------
(* The responses the gate can have seen, by how they end.                   *)
LEMMA ResponseIs ==
    ASSUME NEW r \in Responses
    PROVE  /\ r.ending \in Stages \cup {"verdict"} /\ r.usage \in BOOLEAN
           /\ r.ending \in {"verdict", "normalizer"} => r.verdict \in Verdicts
           /\ r.ending \in {"reviewer", "transport", "parser"} =>
                r.verdict = NoVerdict
           /\ r.ending \in {"reviewer", "transport"} => r.usage = FALSE
           /\ r.ending = "verdict" => r.code = Null
           /\ r.ending = "reviewer" => r.code = "reviewer_failure"
           /\ r.ending = "parser" => r.code = "parser_failure"
           /\ r.ending = "normalizer" => r.code = "normalizer_failure"
           /\ r.ending = "transport" => r.code \in TransportCodes
<1>1. \/ r = Response("reviewer", "reviewer_failure", NoVerdict, FALSE)
      \/ r \in {Response("transport", c, NoVerdict, FALSE) : c \in TransportCodes}
      \/ r \in {Response("parser", "parser_failure", NoVerdict, u) : u \in BOOLEAN}
      \/ r \in Answered("verdict", Null)
      \/ r \in Answered("normalizer", "normalizer_failure")
  BY DEF Responses
<1>2. CASE r = Response("reviewer", "reviewer_failure", NoVerdict, FALSE)
  BY <1>2 DEF Response, Stages
<1>3. CASE r \in {Response("transport", c, NoVerdict, FALSE) : c \in TransportCodes}
  <2>1. PICK c \in TransportCodes : r = Response("transport", c, NoVerdict, FALSE)
    BY <1>3
  <2> QED
    BY <2>1 DEF Response, Stages
<1>4. CASE r \in {Response("parser", "parser_failure", NoVerdict, u) : u \in BOOLEAN}
  <2>1. PICK u \in BOOLEAN : r = Response("parser", "parser_failure", NoVerdict, u)
    BY <1>4
  <2> QED
    BY <2>1 DEF Response, Stages
<1>5. CASE r \in Answered("verdict", Null)
  <2>1. PICK v \in Verdicts, u \in BOOLEAN : r = Response("verdict", Null, v, u)
    BY <1>5 DEF Answered
  <2> QED
    BY <2>1 DEF Response, Stages
<1>6. CASE r \in Answered("normalizer", "normalizer_failure")
  <2>1. PICK v \in Verdicts, u \in BOOLEAN :
          r = Response("normalizer", "normalizer_failure", v, u)
    BY <1>6 DEF Answered
  <2> QED
    BY <2>1 DEF Response, Stages
<1> QED
  BY <1>1, <1>2, <1>3, <1>4, <1>5, <1>6

LEMMA RawIs ==
    /\ NoRaw.decision = Null
    /\ \A v : /\ RawOf(v).decision = v.decision /\ RawOf(v).risk = v.risk
              /\ RawOf(v).authorization = v.authorization
              /\ RawOf(v).confident = v.confident
    /\ \A v \in Verdicts : RawOf(v) # NoRaw
<1>1. NoRaw.decision = Null
  BY NoVerdictIs DEF NoRaw, RawOf
<1>2. \A v \in Verdicts : RawOf(v).decision # Null
  BY VerdictType DEF RawOf, Null
<1> QED
  BY <1>1, <1>2 DEF RawOf

LEMMA RespondedIs ==
    ASSUME NEW reply, NEW r \in ResponsesTo(reply)
    PROVE  /\ r \in Responses
           /\ r.ending \in {"verdict", "normalizer"} => r.verdict = reply.verdict
           /\ r.ending \notin {"verdict", "normalizer"} => reply.code # Null
<1>1. /\ r \in Responses
      /\ CASE r.ending \in {"verdict", "normalizer"} -> r.verdict = reply.verdict
           [] r.ending = "parser" \/ r.code = "invalid_response" ->
                reply.code = "invalid_judge_response"
           [] OTHER -> reply.code = "judge_unavailable"
  BY DEF ResponsesTo
<1>2. CASE r.ending \in {"verdict", "normalizer"}
  <2>1. ~(r.ending = "parser" \/ r.code = "invalid_response")
    BY <1>1, <1>2, ResponseIs DEF Null
  <2> QED
    BY <1>1, <1>2, <2>1
<1>3. CASE r.ending \notin {"verdict", "normalizer"}
  BY <1>1, <1>3 DEF Null
<1> QED
  BY <1>2, <1>3

(* An attempt on a verdict and one on a failure.                            *)
LEMMA AttemptIs ==
    ASSUME NEW r \in Responses, NEW a
    PROVE  LET t == EvaluateAttempt(r, a)
               kind == HarnessKind(r.verdict, a)
           IN  /\ t.own = TRUE /\ t.raw = RawOf(r.verdict) /\ t.usage = r.usage
               /\ DOMAIN t = {"own", "raw", "kind", "autonomous", "supervised",
                              "schema_valid", "stage", "code", "usage"}
               /\ r.ending = "verdict" =>
                    /\ r.verdict \in Verdicts
                    /\ t.kind = kind /\ kind \in {"allow", "deny", "review"}
                    /\ t.autonomous = (IF kind = "allow"
                                       THEN "executed_without_human"
                                       ELSE "blocked")
                    /\ t.supervised = SupervisedOutcome(kind)
                    /\ t.schema_valid = TRUE /\ t.stage = Null /\ t.code = Null
               /\ r.ending # "verdict" =>
                    /\ t.kind = "failure" /\ t.autonomous = "blocked"
                    /\ t.supervised = "sent_to_human"
                    /\ t.schema_valid = (r.ending = "normalizer")
                    /\ t.stage = r.ending /\ t.code = r.code
<1> DEFINE t == EvaluateAttempt(r, a)
           kind == HarnessKind(r.verdict, a)
           h == HarnessResult(r.verdict, a)
<1>1. CASE r.ending = "verdict"
  <2>1. r.verdict \in Verdicts
    BY <1>1, ResponseIs
  <2>2. r.verdict.decision \in {"allow", "deny", "review"}
    BY <2>1, VerdictType
  <2>3. /\ h.kind = kind /\ h.code = Null
        /\ h.mark \in {Null, "opaque", "local_guard", "trusted_observation"}
        /\ h.kind = "allow" => h.mark \in {Null, "trusted_observation"}
    BY <2>2, HarnessShape
  <2>4. t = [own |-> TRUE, raw |-> RawOf(r.verdict), kind |-> h.kind,
             autonomous |-> AutonomousOutcome(h),
             supervised |-> SupervisedOutcome(h.kind),
             schema_valid |-> TRUE, stage |-> Null, code |-> Null,
             usage |-> r.usage]
    BY <1>1 DEF EvaluateAttempt
  <2> HIDE DEF h
  <2>5. kind \in {"allow", "deny", "review"}
    BY DEF HarnessKind
  <2> HIDE DEF kind, t
  <2>6. AutonomousOutcome(h) =
          IF kind = "allow" THEN "executed_without_human" ELSE "blocked"
    <3>1. h.kind = "allow" => SelectFeedbackCode(h) = Null
      BY <2>3 DEF SelectFeedbackCode, Null
    <3>2. MapVerdict([mode |-> "autonomous", enforcement |-> "enforce"], h) =
            IF h.kind = "allow" THEN HookValue("params", Null)
            ELSE HookValue("block", SelectFeedbackCode(h))
      BY <3>1 DEF MapVerdict
    <3> QED
      BY <2>3, <3>2 DEF AutonomousOutcome, HookValue
  <2> QED
    BY <1>1, <2>1, <2>3, <2>4, <2>5, <2>6 DEF t, kind
<1>2. CASE r.ending # "verdict"
  BY <1>2 DEF EvaluateAttempt, FailedAttempt
<1> QED
  BY <1>1, <1>2

(* The kind that is replayed from the stored fields alone, without the      *)
(* reason code: no review is upgraded.                                      *)
Replayed(raw) ==
    [decision |-> raw.decision, risk |-> raw.risk,
     authorization |-> raw.authorization, confident |-> raw.confident,
     reason_code |-> Null]

LEMMA ReplayIs ==
    ASSUME NEW v \in Verdicts, NEW a
    PROVE  HarnessResult(Replayed(RawOf(v)), a).kind =
             IF v.decision = "review" THEN "review" ELSE HarnessKind(v, a)
<1> DEFINE w == Replayed(RawOf(v))
<1>1. /\ w.decision = v.decision /\ w.risk = v.risk
      /\ w.authorization = v.authorization /\ w.confident = v.confident
      /\ w.reason_code = Null
  BY RawIs DEF Replayed
<1>2. v.decision \in {"allow", "deny", "review"}
  BY VerdictType
<1> HIDE DEF w
<1>3. HarnessResult(w, a).kind = HarnessKind(w, a)
  BY <1>1, <1>2, HarnessShape
<1>4. LocallySafeAllow(w) <=> LocallySafeAllow(v)
  BY <1>1 DEF LocallySafeAllow
<1>5. v.decision = "review" => ~LocallySafeAllow(w)
  BY <1>1 DEF LocallySafeAllow
<1>6. v.decision # "review" => (HarnessUpgrades(w, a) <=> HarnessUpgrades(v, a))
  BY <1>1 DEF HarnessUpgrades
<1>7. v.decision = "review" => ~HarnessUpgrades(w, a)
  BY <1>1 DEF HarnessUpgrades, OverrideReasons, Null
<1> QED
  BY <1>1, <1>2, <1>3, <1>4, <1>5, <1>6, <1>7 DEF HarnessKind, w

(* What the aggregation and the inference check say of an attempt of the    *)
(* harness that upgrades no review.                                         *)
LEMMA AttemptAccepted ==
    ASSUME NEW r \in Responses, NEW a, ~UpgradedReview(EvaluateAttempt(r, a))
    PROVE  LET t == EvaluateAttempt(r, a)
           IN  AggregateAccepts(t) /\ InferenceAccepts(t, a)
<1> DEFINE t == EvaluateAttempt(r, a)
           kind == HarnessKind(r.verdict, a)
           v == r.verdict
<1>1. CASE r.ending = "verdict"
  <2>1. /\ v \in Verdicts /\ t.own = TRUE /\ t.raw = RawOf(v)
        /\ t.kind = kind /\ kind \in {"allow", "deny", "review"}
        /\ t.autonomous = (IF kind = "allow" THEN "executed_without_human"
                                             ELSE "blocked")
        /\ t.supervised = SupervisedOutcome(kind)
        /\ t.schema_valid = TRUE /\ t.stage = Null /\ t.code = Null
    BY <1>1, AttemptIs
  <2>2. /\ v.decision \in {"allow", "deny", "review"}
        /\ t.raw.decision = v.decision /\ t.raw # NoRaw
    BY <2>1, VerdictType, RawIs
  <2>3. v.decision = "review" => kind = "review"
    <3>1. v.decision = "review" => kind # "allow"
      BY <2>1, <2>2 DEF UpgradedReview
    <3>2. v.decision = "review" => kind # "deny"
      BY DEF HarnessKind
    <3> QED
      BY <2>1, <3>1, <3>2
  <2>4. v.decision = "deny" => kind = "deny"
    BY DEF HarnessKind
  <2>5. v.decision = "allow" => kind \in {"allow", "review"}
    BY DEF HarnessKind
  <2>6. HarnessResult(Replayed(t.raw), a).kind = kind
    BY <2>1, <2>3, ReplayIs
  <2> HIDE DEF t, kind, v
  <2>7. FailureFieldsAreConsistent(t)
    BY <2>1 DEF FailureFieldsAreConsistent
  <2>8. VerdictFieldsAreConsistent(t)
    BY <2>1, <2>2, <2>3, <2>4, <2>5 DEF VerdictFieldsAreConsistent
  <2>9. OutcomeFieldsAreConsistent(t)
    BY <2>1 DEF OutcomeFieldsAreConsistent
  <2>10. UsageIsConsistent(t)
    BY <2>1 DEF UsageIsConsistent, Null
  <2>11. ProductionKindIsConsistent(t, a)
    BY <2>1, <2>6 DEF ProductionKindIsConsistent, Replayed
  <2> QED
    BY <2>1, <2>7, <2>8, <2>9, <2>10, <2>11
       DEF AggregateAccepts, InferenceAccepts, t
<1>2. CASE r.ending # "verdict"
  <2>1. /\ t.own = TRUE /\ t.raw = RawOf(v) /\ t.usage = r.usage
        /\ t.kind = "failure" /\ t.autonomous = "blocked"
        /\ t.supervised = "sent_to_human"
        /\ t.schema_valid = (r.ending = "normalizer")
        /\ t.stage = r.ending /\ t.code = r.code
    BY <1>2, AttemptIs
  <2>2. r.ending \in Stages
    BY <1>2, ResponseIs
  <2>3. r.ending = "normalizer" => t.raw # NoRaw
    BY <2>1, RawIs, ResponseIs
  <2>4. r.ending # "normalizer" => t.raw = NoRaw
    BY <2>1, <2>2, ResponseIs DEF Stages, NoRaw
  <2> HIDE DEF t, v
  <2>5. FailureFieldsAreConsistent(t)
    <3>1. t.stage # Null /\ t.code # Null
      BY <2>1, <2>2, ResponseIs DEF Stages, Null, TransportCodes
    <3> QED
      BY <2>1, <2>2, <3>1, ResponseIs DEF FailureFieldsAreConsistent, Stages
  <2>6. VerdictFieldsAreConsistent(t)
    BY <2>1, <2>3, <2>4 DEF VerdictFieldsAreConsistent
  <2>7. OutcomeFieldsAreConsistent(t)
    BY <2>1 DEF OutcomeFieldsAreConsistent, SupervisedOutcome
  <2>8. UsageIsConsistent(t)
    BY <2>1, ResponseIs DEF UsageIsConsistent
  <2>9. ProductionKindIsConsistent(t, a)
    BY <2>1 DEF ProductionKindIsConsistent
  <2> QED
    BY <2>1, <2>5, <2>6, <2>7, <2>8, <2>9
       DEF AggregateAccepts, InferenceAccepts, t
<1> QED
  BY <1>1, <1>2

LEMMA AnchorAccepted ==
    ASSUME NEW r \in Responses, NEW disposition,
           r.ending \in {"transport", "parser", "verdict"}
    PROVE  LET t == Anchor(r, disposition)
           IN  /\ AnchorAccepts(t, disposition)
               /\ CapabilityPasses({t}) <=> r.ending = "verdict"
<1> DEFINE t == Anchor(r, disposition)
           v == r.verdict
<1>1. CASE r.ending = "verdict"
  <2>1. /\ t.own = TRUE /\ t.transport = TRUE /\ t.schema_valid = TRUE
        /\ t.raw = RawOf(v) /\ t.code = Null
        /\ t.kind = NormalizeVerdict(v).kind
        /\ t.match = (v.decision = disposition)
    BY <1>1 DEF Anchor
  <2>2. v \in Verdicts /\ t.raw.decision = v.decision
    BY <1>1, <2>1, ResponseIs, RawIs
  <2> HIDE DEF t, v
  <2>3. AnchorAccepts(t, disposition)
    BY <2>1, <2>2 DEF AnchorAccepts
  <2>4. CapabilityPasses({t})
    BY <2>1 DEF CapabilityPasses
  <2> QED
    BY <1>1, <2>3, <2>4 DEF t
<1>2. CASE r.ending \in {"transport", "parser"}
  <2>1. /\ t.own = TRUE /\ t.schema_valid = FALSE /\ t.raw = RawOf(v)
        /\ t.kind = Null /\ t.match = FALSE /\ t.usage = r.usage
        /\ t.code = (IF r.ending = "parser" THEN "invalid_schema" ELSE r.code)
        /\ t.transport = (r.ending # "transport" \/ r.code = "invalid_response")
    BY <1>2 DEF Anchor
  <2>2. v = NoVerdict /\ t.raw = NoRaw
    BY <1>2, <2>1, ResponseIs DEF NoRaw
  <2>3. r.ending = "transport" => r.code \in TransportCodes /\ r.usage = FALSE
    BY ResponseIs
  <2> HIDE DEF t, v
  <2>4. AnchorAccepts(t, disposition)
    BY <1>2, <2>1, <2>2, <2>3 DEF AnchorAccepts, TransportCodes
  <2>5. ~CapabilityPasses({t})
    BY <2>1 DEF CapabilityPasses
  <2> QED
    BY <1>2, <2>4, <2>5 DEF t
<1> QED
  BY <1>1, <1>2

-----------------------------------------------------------------------------
(* Before anybody writes to its file, the attempt is that of a response the *)
(* gate saw as well.                                                        *)
LEMMA AttemptUnchanged ==
    ASSUME ContractInv, ~changed, NEW t \in attempt
    PROVE  /\ input \in Inputs /\ IsEvaluated(input)
           /\ output = {Outcome(input)}
           /\ \E r \in ResponsesTo(input.reply) :
                t = EvaluateAttempt(r, input.action)
  BY DEF ContractInv, PipelineInv

LEMMA ContractProduces == ContractInv => ProducedIsAccepted
<1> SUFFICES ASSUME ContractInv, NEW t \in attempt, ~changed, ~UpgradedReview(t)
             PROVE  /\ AggregateAccepts(t)
                    /\ InferenceAccepts(t, input.action)
                    /\ t.stage # "normalizer" => CompletedAccepts(t, input.action)
                    /\ \A q \in ResponsesTo(input.reply), disposition \in Dispositions :
                          q.ending \in {"transport", "parser", "verdict"} =>
                              /\ AnchorAccepts(Anchor(q, disposition), disposition)
                              /\ CapabilityPasses({Anchor(q, disposition)})
                                   = (q.ending = "verdict")
  BY DEF ProducedIsAccepted
<1>1. PICK r \in ResponsesTo(input.reply) : t = EvaluateAttempt(r, input.action)
  BY AttemptUnchanged
<1>2. ResponsesTo(input.reply) \subseteq Responses
  BY DEF ResponsesTo
<1>3. AggregateAccepts(t) /\ InferenceAccepts(t, input.action)
  BY <1>1, <1>2, AttemptAccepted
<1>4. t.stage # "normalizer" => CompletedAccepts(t, input.action)
  BY <1>3 DEF CompletedAccepts
<1>5. ASSUME NEW q \in ResponsesTo(input.reply), NEW disposition \in Dispositions,
             q.ending \in {"transport", "parser", "verdict"}
      PROVE  /\ AnchorAccepts(Anchor(q, disposition), disposition)
             /\ CapabilityPasses({Anchor(q, disposition)}) = (q.ending = "verdict")
  <2>1. /\ AnchorAccepts(Anchor(q, disposition), disposition)
        /\ CapabilityPasses({Anchor(q, disposition)}) <=> q.ending = "verdict"
    BY <1>2, <1>5, AnchorAccepted
  <2>2. CapabilityPasses({Anchor(q, disposition)}) \in BOOLEAN
    BY DEF CapabilityPasses
  <2> QED
    BY <2>1, <2>2
<1> QED
  BY <1>3, <1>4, <1>5

-----------------------------------------------------------------------------
(* The kind the gate comes to for a verdict: the harness upgrades more.     *)
LEMMA GateKindIs ==
    ASSUME NEW v \in Verdicts, NEW a \in Traits
    PROVE  LET r == GuardedResult(v, a)
           IN  /\ r.kind = IF v.decision = "allow" /\ ~LocallySafeAllow(v)
                           THEN "review" ELSE HarnessKind(v, a)
               /\ r.kind = "allow" /\ v.decision = "review" =>
                    r = ModelResult("allow", v, "trusted_observation")
                    /\ v.risk = "low"
<1>1. PICK kind \in {"allow", "deny", "review"},
           mark \in {Null, "opaque", "local_guard", "trusted_observation"} :
        /\ GuardedResult(v, a) = ModelResult(kind, v, mark)
        /\ kind = "deny" <=> v.decision = "deny"
        /\ kind = "allow" =>
             /\ ~a.unsafe
             /\ \/ mark = Null /\ LocallySafeAllow(v) /\ ~a.opaque
                \/ /\ mark = "trusted_observation"
                   /\ v.decision = "review" /\ v.risk = "low"
                   /\ a.observation /\ v.reason_code \in OverrideReasons
        /\ kind = "review" =>
             \/ v.decision = "allow"
                /\ (mark = Null => ~LocallySafeAllow(v))
                /\ mark \in {Null, "opaque", "local_guard"}
                /\ (mark = "opaque" => a.opaque)
                /\ (mark = "local_guard" => a.unsafe)
             \/ /\ v.decision = "review" /\ mark = Null
                /\ ~(/\ v.risk = "low" /\ a.observation /\ ~a.unsafe
                     /\ v.reason_code \in OverrideReasons)
  BY GuardedShape
<1>2. GuardedResult(v, a).kind = kind
  BY <1>1, ModelSource
<1>3. v.decision \in {"allow", "deny", "review"}
  BY VerdictType
<1>4. LocallySafeAllow(v) => v.decision = "allow"
  BY DEF LocallySafeAllow
<1>5. CASE v.decision = "deny"
  BY <1>1, <1>2, <1>5 DEF HarnessKind
<1>6. CASE LocallySafeAllow(v)
  <2>1. HarnessKind(v, a) = IF a.opaque \/ a.unsafe THEN "review" ELSE "allow"
    BY <1>4, <1>6 DEF HarnessKind
  <2> QED
    BY <1>1, <1>2, <1>4, <1>6, <2>1
<1>7. CASE v.decision = "allow" /\ ~LocallySafeAllow(v)
  BY <1>1, <1>2, <1>7
<1>8. CASE v.decision = "review"
  <2>1. HarnessKind(v, a) = IF HarnessUpgrades(v, a) THEN "allow" ELSE "review"
    BY <1>4, <1>8 DEF HarnessKind
  <2>2. HarnessUpgrades(v, a) <=>
          /\ a.observation /\ ~a.unsafe /\ v.risk = "low"
          /\ v.reason_code \in OverrideReasons
    BY <1>8 DEF HarnessUpgrades
  <2>3. kind = "allow" => mark = "trusted_observation"
    BY <1>1, <1>4, <1>8
  <2>4. kind # "deny"
    BY <1>1, <1>8
  <2>5. kind = HarnessKind(v, a)
    <3>1. CASE kind = "allow"
      BY <1>1, <1>4, <1>8, <2>1, <2>2, <3>1
    <3>2. CASE kind = "review"
      BY <1>1, <1>8, <2>1, <2>2, <3>2
    <3> QED
      BY <2>4, <3>1, <3>2
  <2>6. kind = "allow" =>
          GuardedResult(v, a) = ModelResult("allow", v, "trusted_observation")
          /\ v.risk = "low"
    BY <1>1, <1>4, <1>8, <2>3
  <2> QED
    BY <1>2, <1>8, <2>5, <2>6
<1> QED
  BY <1>3, <1>5, <1>6, <1>7, <1>8

(* What an enforcing gate that nothing intervenes with returns, in either   *)
(* mode.                                                                    *)
LEMMA EvaluatedOutcome ==
    ASSUME NEW i \in Inputs, IsEvaluated(i)
    PROVE  LET o == Outcome(i)
               k == o.result.kind
               hook == MapVerdict([i.config EXCEPT !.mode = "supervised"], o.result)
           IN  /\ k \in Outcomes
               /\ o.hook.kind = IF k = "allow" THEN "params" ELSE "block"
               /\ hook.kind = IF k = "allow" THEN "params"
                              ELSE IF k = "deny" THEN "block" ELSE "approval"
               /\ o.result =
                    IF UpgradedAs(Ordinary(i), i.reply.verdict)
                       /\ i.reply.verdict.authorization # "high"
                    THEN Failure("invalid_judge_response") ELSE Judged(i)
<1> DEFINE o == Outcome(i)
           r == o.result
<1>1. /\ i.config = [mode |-> "autonomous", enforcement |-> "enforce"]
      /\ Decided(i) = Ordinary(i)
  BY DecidedIs DEF IsEvaluated
<1>2. r = Settled(i).result /\ o.hook = Delivered(i.active, r, MapVerdict(i.config, r))
  BY OutcomeFields
<1>3. Settled(i) = IF UpgradedAs(Ordinary(i), i.reply.verdict)
                      /\ i.reply.verdict.authorization # "high"
                   THEN FailedDecision ELSE Ordinary(i)
  BY <1>1, SettledIs
<1>4. Ordinary(i).result = Judged(i)
      /\ FailedDecision.result = Failure("invalid_judge_response")
  BY DEF Ordinary, FailedDecision
<1>5. ResultOK(r)
  BY <1>2, <1>3, <1>4, OrdinaryIs, FailedDecisionIs
<1> HIDE DEF o
<1>6. [i.config EXCEPT !.mode = "supervised"]
        = [mode |-> "supervised", enforcement |-> "enforce"]
  BY <1>1
<1>7. ASSUME NEW c, c.enforcement = "enforce"
      PROVE  MapVerdict(c, r).kind =
               IF r.kind = "allow" THEN "params"
               ELSE IF c.mode = "supervised" /\ r.kind # "deny" THEN "approval"
               ELSE "block"
  BY <1>5, <1>7, MappedExactly DEF HookValue
<1>8. o.hook.kind = IF r.kind = "allow" THEN "params" ELSE "block"
  <2>1. i.active = FALSE
    BY InputIs DEF IsEvaluated
  <2> QED
    <3>1. i.config.enforcement = "enforce" /\ i.config.mode = "autonomous"
      BY <1>1
    <3>2. /\ r.kind = "allow" => o.hook = HookValue("params", Null)
          /\ r.kind # "allow" => o.hook = HookValue("block", SelectFeedbackCode(r))
      BY <1>2, <1>5, <2>1, <3>1, DeliveredIs
    <3> QED
      BY <3>2 DEF HookValue
<1>9. MapVerdict([i.config EXCEPT !.mode = "supervised"], r).kind =
        IF r.kind = "allow" THEN "params"
        ELSE IF r.kind = "deny" THEN "block" ELSE "approval"
  BY <1>6, <1>7
<1>10. r.kind \in Outcomes
  BY <1>5 DEF ResultOK
<1> QED
  BY <1>2, <1>3, <1>4, <1>8, <1>9, <1>10 DEF o

LEMMA ContractAgrees == ContractInv => HarnessAgreesWithGate
<1> SUFFICES ASSUME ContractInv, NEW t \in attempt, NEW o \in output,
                    ~changed, t.stage # "normalizer", ~HarnessOnlyUpgrade(t)
             PROVE  /\ t.kind = o.result.kind
                    /\ t.autonomous = (IF o.hook.kind = "params"
                                       THEN "executed_without_human" ELSE "blocked")
                    /\ t.supervised =
                         LET hook == MapVerdict([input.config EXCEPT !.mode = "supervised"],
                                                o.result)
                         IN  CASE hook.kind = "params" -> "executed_without_human"
                               [] hook.kind = "approval" -> "sent_to_human"
                               [] hook.kind = "block" -> "blocked"
  BY DEF HarnessAgreesWithGate
<1> DEFINE v == input.reply.verdict
           a == input.action
           k == o.result.kind
           hook == MapVerdict([input.config EXCEPT !.mode = "supervised"], o.result)
<1>1. input \in Inputs /\ IsEvaluated(input) /\ o = Outcome(input)
  BY AttemptUnchanged
<1>2. PICK r \in ResponsesTo(input.reply) : t = EvaluateAttempt(r, a)
  BY AttemptUnchanged
<1>3. r \in Responses /\ r.ending # "normalizer"
  <2>1. r \in Responses
    BY RespondedIs
  <2>2. r.ending = "normalizer" => t.stage = "normalizer"
    BY <1>2, <2>1, AttemptIs
  <2> QED
    BY <2>1, <2>2
<1>4. /\ k \in Outcomes
      /\ o.hook.kind = IF k = "allow" THEN "params" ELSE "block"
      /\ hook.kind = IF k = "allow" THEN "params"
                     ELSE IF k = "deny" THEN "block" ELSE "approval"
      /\ o.result = IF UpgradedAs(Ordinary(input), v) /\ v.authorization # "high"
                    THEN Failure("invalid_judge_response") ELSE Judged(input)
  BY <1>1, EvaluatedOutcome
<1>5. SupervisedOutcome(k) = CASE hook.kind = "params" -> "executed_without_human"
                               [] hook.kind = "approval" -> "sent_to_human"
                               [] hook.kind = "block" -> "blocked"
  <2> HIDE DEF hook, k
  <2> QED
    BY <1>4 DEF SupervisedOutcome
<1>6. SUFFICES /\ t.kind = k
               /\ t.autonomous = (IF k = "allow" THEN "executed_without_human"
                                                 ELSE "blocked")
               /\ t.supervised = SupervisedOutcome(k)
  <2> HIDE DEF k, hook
  <2>1. o.hook.kind = "params" <=> k = "allow"
    BY <1>4
  <2> QED
    BY <1>5, <1>6, <2>1 DEF k, hook
<1>7. CASE r.ending = "verdict"
  <2>1. v = r.verdict
    BY <1>7, RespondedIs
  <2>2. v \in Verdicts /\ a \in Traits
    BY <1>1, <1>3, <1>7, <2>1, ResponseIs, InputIs
  <2>3. Judged(input) = GuardedResult(v, a)
    BY <1>1, <2>2, InputIs, NoVerdictIs DEF Judged
  <2>4. /\ t.raw = RawOf(v)
        /\ t.kind = HarnessKind(v, a)
        /\ t.autonomous = (IF t.kind = "allow" THEN "executed_without_human"
                                               ELSE "blocked")
        /\ t.supervised = SupervisedOutcome(t.kind)
    <3> HIDE DEF v, a
    <3>1. /\ t.raw = RawOf(r.verdict)
          /\ t.kind = HarnessKind(r.verdict, a)
          /\ t.autonomous = (IF HarnessKind(r.verdict, a) = "allow"
                             THEN "executed_without_human" ELSE "blocked")
          /\ t.supervised = SupervisedOutcome(HarnessKind(r.verdict, a))
      BY <1>2, <1>3, <1>7, AttemptIs
    <3> QED
      BY <2>1, <3>1
  <2>5. /\ t.raw.decision = v.decision
        /\ t.raw.authorization = v.authorization
        /\ LocallySafeAllow(t.raw) <=> LocallySafeAllow(v)
    BY <2>4, RawIs DEF LocallySafeAllow
  <2>6. LocallySafeAllow(v) => v.decision = "allow"
    BY DEF LocallySafeAllow
  <2>7. t.kind = "allow" /\ ~LocallySafeAllow(v) =>
          v.decision # "allow" /\ v.authorization = "high"
    BY <2>5 DEF HarnessOnlyUpgrade
  <2>8. /\ GuardedResult(v, a).kind =
             IF v.decision = "allow" /\ ~LocallySafeAllow(v)
             THEN "review" ELSE HarnessKind(v, a)
        /\ GuardedResult(v, a).kind = "allow" /\ v.decision = "review" =>
             GuardedResult(v, a) = ModelResult("allow", v, "trusted_observation")
             /\ v.risk = "low"
    BY <2>2, GateKindIs
  <2>9. v.decision = "allow" /\ ~LocallySafeAllow(v) => HarnessKind(v, a) = "review"
    BY <2>4, <2>7 DEF HarnessKind
  <2>10. GuardedResult(v, a).kind = t.kind
    BY <2>4, <2>8, <2>9
  <2>11. UpgradedAs(Ordinary(input), v) =>
           t.kind = "allow" /\ v.decision = "review"
    <3>1. Ordinary(input).result = GuardedResult(v, a)
      BY <2>3 DEF Ordinary
    <3>2. UpgradedAs(Ordinary(input), v) =>
            Ordinary(input).result.kind = "allow" /\ v.decision = "review"
      BY StandingKinds DEF UpgradedAs
    <3> QED
      BY <2>10, <3>1, <3>2
  <2>12. o.result = GuardedResult(v, a)
    BY <1>4, <2>3, <2>6, <2>7, <2>11
  <2> QED
    BY <2>4, <2>10, <2>12
<1>8. CASE r.ending \in {"reviewer", "transport", "parser"}
  <2>1. t.kind = "failure" /\ t.autonomous = "blocked"
        /\ t.supervised = "sent_to_human"
    BY <1>2, <1>3, <1>8, AttemptIs
  <2>2. input.reply.code # Null
    BY <1>8, RespondedIs
  <2>3. v = NoVerdict /\ input.reply.code \in FailureCodes
    BY <1>1, <2>2, InputIs
  <2>4. Judged(input) = Failure(input.reply.code)
    BY <2>2 DEF Judged
  <2>5. ~UpgradedAs(Ordinary(input), v)
    BY <2>3, NoVerdictIs DEF UpgradedAs
  <2>6. k = "failure"
    BY <1>4, <2>3, <2>4, <2>5, HostResultsOK
  <2> QED
    BY <2>1, <2>6 DEF SupervisedOutcome
<1> QED
  BY <1>3, <1>7, <1>8, ResponseIs DEF Stages

-----------------------------------------------------------------------------
(* An attempt in a file: each field is one that some attempt can have.      *)
Stored(t) ==
    /\ t.own \in BOOLEAN /\ t.raw \in RawVerdicts \cup {NoRaw}
    /\ t.kind \in Kinds /\ t.usage \in BOOLEAN
    /\ t.schema_valid \in BOOLEAN /\ t.stage \in Stages \cup {Null}

Fields == {"own", "raw", "kind", "autonomous", "supervised",
           "schema_valid", "stage", "code", "usage"}

LEMMA AttemptStored ==
    ASSUME NEW r \in Responses, NEW a
    PROVE  Stored(EvaluateAttempt(r, a)) /\ DOMAIN EvaluateAttempt(r, a) = Fields
<1> DEFINE t == EvaluateAttempt(r, a)
<1>1. /\ t.own = TRUE /\ t.raw = RawOf(r.verdict) /\ t.usage = r.usage
      /\ DOMAIN t = Fields
  BY AttemptIs DEF Fields
<1>2. r.usage \in BOOLEAN /\ (r.verdict \in Verdicts \/ r.verdict = NoVerdict)
  BY ResponseIs DEF Stages
<1>3. t.raw \in RawVerdicts \cup {NoRaw}
  BY <1>1, <1>2 DEF RawVerdicts, NoRaw
<1>4. CASE r.ending = "verdict"
  <2>1. /\ t.kind \in {"allow", "deny", "review"}
        /\ t.schema_valid = TRUE /\ t.stage = Null
    BY <1>4, AttemptIs
  <2> HIDE DEF t
  <2> QED
    BY <1>1, <1>2, <1>3, <2>1 DEF Stored, Kinds, t
<1>5. CASE r.ending # "verdict"
  <2>1. /\ t.kind = "failure" /\ t.schema_valid = (r.ending = "normalizer")
        /\ t.stage = r.ending
    BY <1>5, AttemptIs
  <2>2. r.ending \in Stages
    BY <1>5, ResponseIs
  <2> HIDE DEF t
  <2> QED
    BY <1>1, <1>2, <1>3, <2>1, <2>2 DEF Stored, Kinds, t
<1> QED
  BY <1>4, <1>5

LEMMA OverwriteIs ==
    ASSUME NEW t, NEW part, DOMAIN t = Fields
    PROVE  LET u == Overwrite(t, part)
           IN  /\ u = [f \in Fields |-> u[f]]
               /\ \A f \in Fields : u[f] = IF f \in DOMAIN part THEN part[f] ELSE t[f]
  BY DEF Overwrite

LEMMA OverwriteStored ==
    ASSUME NEW t, NEW part \in Changes, DOMAIN t = Fields, Stored(t)
    PROVE  Stored(Overwrite(t, part))
<1> DEFINE u == Overwrite(t, part)
<1>1. \A f \in Fields : u[f] = IF f \in DOMAIN part THEN part[f] ELSE t[f]
  BY OverwriteIs
<1> HIDE DEF u
<1>2. /\ u.own = IF "own" \in DOMAIN part THEN part.own ELSE t.own
      /\ u.raw = IF "raw" \in DOMAIN part THEN part.raw ELSE t.raw
      /\ u.kind = IF "kind" \in DOMAIN part THEN part.kind ELSE t.kind
      /\ u.usage = IF "usage" \in DOMAIN part THEN part.usage ELSE t.usage
      /\ u.schema_valid = IF "schema_valid" \in DOMAIN part
                          THEN part.schema_valid ELSE t.schema_valid
      /\ u.stage = IF "stage" \in DOMAIN part THEN part.stage ELSE t.stage
  BY <1>1 DEF Fields
<1>3. /\ "own" \in DOMAIN part => part.own \in BOOLEAN
      /\ "raw" \in DOMAIN part => part.raw \in RawVerdicts \cup {NoRaw}
      /\ "kind" \in DOMAIN part => part.kind \in Kinds
      /\ "usage" \in DOMAIN part => part.usage \in BOOLEAN
      /\ "schema_valid" \in DOMAIN part => part.schema_valid \in BOOLEAN
      /\ "stage" \in DOMAIN part => part.stage \in Stages \cup {Null}
  <2>1. CASE part \in Claims
    BY <2>1 DEF Claims
  <2>2. CASE part \in Faults
    BY <2>2 DEF Faults
  <2>3. CASE part \in [raw: RawVerdicts \cup {NoRaw}]
    BY <2>3
  <2>4. CASE part \in [own: BOOLEAN]
    BY <2>4
  <2>5. CASE part \in [usage: BOOLEAN]
    BY <2>5
  <2> QED
    BY <2>1, <2>2, <2>3, <2>4, <2>5 DEF Changes
<1> QED
  BY <1>2, <1>3 DEF Stored, u

(* A record of an attempt is told by its fields.                            *)
LEMMA AttemptByFields ==
    ASSUME NEW t, t = [f \in Fields |-> t[f]]
    PROVE  t = [own |-> t.own, raw |-> t.raw, kind |-> t.kind,
                autonomous |-> t.autonomous, supervised |-> t.supervised,
                schema_valid |-> t.schema_valid, stage |-> t.stage,
                code |-> t.code, usage |-> t.usage]
  BY DEF Fields

(* The kind a stored verdict is replayed to is one that the harness comes   *)
(* to for some verdict with these fields.                                   *)
LEMMA ReplayProducible ==
    ASSUME NEW raw \in RawVerdicts, NEW a,
           raw.decision = "review" =>
             HarnessResult(Replayed(raw), a).kind = "review"
    PROVE  \E v \in Verdicts :
              RawOf(v) = raw /\ HarnessKind(v, a) = HarnessResult(Replayed(raw), a).kind
<1>1. PICK w \in Verdicts : raw = RawOf(w)
  BY DEF RawVerdicts
<1>2. w.decision \in {"allow", "deny", "review"} /\ raw.decision = w.decision
  BY <1>1, VerdictType, RawIs
<1>3. HarnessResult(Replayed(raw), a).kind =
        IF w.decision = "review" THEN "review" ELSE HarnessKind(w, a)
  BY <1>1, ReplayIs
<1>4. CASE w.decision # "review"
  BY <1>1, <1>3, <1>4
<1>5. CASE w.decision = "review"
  <2>1. PICK c \in JudgeCodes : c \notin OverrideReasons
    BY StandingReasonAssumption
  <2> DEFINE v == [decision |-> "review", risk |-> w.risk,
                   authorization |-> w.authorization, confident |-> w.confident,
                   reason_code |-> c]
  <2>2. w.risk \in Risks /\ w.authorization \in Authorizations
        /\ w.confident \in BOOLEAN
    BY DEF Verdicts
  <2>3. c # SafeCode
    BY <2>1, JudgeCodesAssumption DEF ModelCodes, SafeCode
  <2>4. v \in Verdicts
    BY <2>1, <2>2, <2>3 DEF Verdicts
  <2>5. /\ v.decision = "review" /\ v.risk = w.risk
        /\ v.authorization = w.authorization /\ v.confident = w.confident
        /\ v.reason_code = c
    OBVIOUS
  <2> HIDE DEF v
  <2>6. RawOf(v) = raw
    BY <1>1, <1>5, <2>5 DEF RawOf
  <2>7. HarnessKind(v, a) = "review"
    BY <2>1, <2>5 DEF HarnessKind, HarnessUpgrades, LocallySafeAllow
  <2> QED
    BY <1>3, <1>5, <2>4, <2>6, <2>7
<1> QED
  BY <1>4, <1>5

LEMMA AcceptedProducible ==
    ASSUME NEW t, NEW a, Stored(t), t = [f \in Fields |-> t[f]],
           InferenceAccepts(t, a)
    PROVE  \E r \in Responses :
              /\ r.usage = t.usage /\ RawOf(r.verdict) = t.raw
              /\ EvaluateAttempt(r, a) = t
<1>1. /\ t.own /\ FailureFieldsAreConsistent(t) /\ VerdictFieldsAreConsistent(t)
      /\ OutcomeFieldsAreConsistent(t) /\ UsageIsConsistent(t)
      /\ ProductionKindIsConsistent(t, a)
  BY DEF InferenceAccepts, AggregateAccepts
<1>2. /\ t.supervised = SupervisedOutcome(t.kind)
      /\ t.autonomous = (IF t.kind = "allow" THEN "executed_without_human"
                                            ELSE "blocked")
      /\ t.own = TRUE /\ t.usage \in BOOLEAN /\ t.kind \in Kinds
      /\ t.raw \in RawVerdicts \cup {NoRaw} /\ t.stage \in Stages \cup {Null}
      /\ t.schema_valid \in BOOLEAN
  BY <1>1 DEF OutcomeFieldsAreConsistent, Stored
<1>3. ASSUME NEW r \in Responses, EvaluateAttempt(r, a).kind = t.kind,
             EvaluateAttempt(r, a).autonomous = t.autonomous,
             EvaluateAttempt(r, a).supervised = t.supervised,
             EvaluateAttempt(r, a).schema_valid = t.schema_valid,
             EvaluateAttempt(r, a).stage = t.stage,
             EvaluateAttempt(r, a).code = t.code,
             RawOf(r.verdict) = t.raw, r.usage = t.usage
      PROVE  EvaluateAttempt(r, a) = t
  <2> DEFINE u == EvaluateAttempt(r, a)
  <2>1. u.own = t.own /\ u.raw = t.raw /\ u.usage = t.usage
    BY <1>2, <1>3, AttemptIs
  <2>2. u = [own |-> u.own, raw |-> u.raw, kind |-> u.kind,
             autonomous |-> u.autonomous, supervised |-> u.supervised,
             schema_valid |-> u.schema_valid, stage |-> u.stage,
             code |-> u.code, usage |-> u.usage]
    BY DEF EvaluateAttempt, FailedAttempt
  <2>3. t = [own |-> t.own, raw |-> t.raw, kind |-> t.kind,
             autonomous |-> t.autonomous, supervised |-> t.supervised,
             schema_valid |-> t.schema_valid, stage |-> t.stage,
             code |-> t.code, usage |-> t.usage]
    BY AttemptByFields
  <2> HIDE DEF u
  <2>4. /\ u.kind = t.kind /\ u.autonomous = t.autonomous
        /\ u.supervised = t.supervised /\ u.schema_valid = t.schema_valid
        /\ u.stage = t.stage /\ u.code = t.code
    BY <1>3 DEF u
  <2>5. u = t
    BY <2>1, <2>2, <2>3, <2>4
  <2> QED
    BY <2>5 DEF u
<1>4. CASE t.stage = Null \/ t.code = Null
  <2>1. t.stage = Null /\ t.code = Null /\ t.schema_valid = TRUE
        /\ t.kind # "failure"
    BY <1>1, <1>2, <1>4 DEF FailureFieldsAreConsistent
  <2>2. t.raw \in RawVerdicts
        /\ (t.raw.decision = "review" => t.kind = "review")
    BY <1>1, <1>2, <2>1 DEF VerdictFieldsAreConsistent
  <2>3. t.kind = HarnessResult(Replayed(t.raw), a).kind
    BY <1>1, <2>1 DEF ProductionKindIsConsistent, Replayed, Null
  <2>4. PICK v \in Verdicts : RawOf(v) = t.raw /\ HarnessKind(v, a) = t.kind
    BY <2>2, <2>3, ReplayProducible
  <2> DEFINE r == Response("verdict", Null, v, t.usage)
  <2>5. r \in Answered("verdict", Null)
    BY <1>2 DEF Answered
  <2>6. r \in Responses /\ r.ending = "verdict" /\ r.verdict = v
        /\ r.usage = t.usage
    BY <2>5 DEF Responses, Response
  <2> HIDE DEF r
  <2>7. /\ EvaluateAttempt(r, a).kind = HarnessKind(r.verdict, a)
        /\ EvaluateAttempt(r, a).autonomous =
             (IF HarnessKind(r.verdict, a) = "allow"
              THEN "executed_without_human" ELSE "blocked")
        /\ EvaluateAttempt(r, a).supervised =
             SupervisedOutcome(HarnessKind(r.verdict, a))
        /\ EvaluateAttempt(r, a).schema_valid = TRUE
        /\ EvaluateAttempt(r, a).stage = Null /\ EvaluateAttempt(r, a).code = Null
    BY <2>6, AttemptIs
  <2>8. EvaluateAttempt(r, a) = t
    BY <1>2, <1>3, <2>1, <2>4, <2>6, <2>7
  <2> QED
    BY <2>4, <2>6, <2>8
<1>5. CASE ~(t.stage = Null \/ t.code = Null)
  <2>1. /\ t.kind = "failure" /\ t.schema_valid = (t.stage = "normalizer")
        /\ t.stage \in Stages
        /\ CASE t.stage = "reviewer"   -> t.code = "reviewer_failure"
             [] t.stage = "parser"     -> t.code = "parser_failure"
             [] t.stage = "normalizer" -> t.code = "normalizer_failure"
             [] t.stage = "transport"  -> t.code \in TransportCodes
    BY <1>1, <1>2, <1>5 DEF FailureFieldsAreConsistent
  <2>2. t.stage \in {"reviewer", "transport"} => t.usage = FALSE
    BY <1>1, <1>2 DEF UsageIsConsistent
  <2>3. PICK r \in Responses : /\ r.ending = t.stage /\ r.code = t.code
                              /\ RawOf(r.verdict) = t.raw /\ r.usage = t.usage
    <3>1. CASE t.stage = "normalizer"
      <4>1. t.raw \in RawVerdicts
        BY <1>1, <1>2, <2>1, <3>1 DEF VerdictFieldsAreConsistent
      <4>2. PICK v \in Verdicts : RawOf(v) = t.raw
        BY <4>1 DEF RawVerdicts
      <4> DEFINE r == Response("normalizer", "normalizer_failure", v, t.usage)
      <4>3. r \in Answered("normalizer", "normalizer_failure")
        BY <1>2 DEF Answered
      <4>4. r \in Responses /\ r.ending = "normalizer" /\ r.verdict = v
            /\ r.usage = t.usage /\ r.code = "normalizer_failure"
        BY <4>3 DEF Responses, Response
      <4>5. t.code = "normalizer_failure"
        BY <2>1, <3>1
      <4> HIDE DEF r
      <4> QED
        BY <3>1, <4>2, <4>4, <4>5
    <3>2. t.stage # "normalizer" => t.raw = RawOf(NoVerdict)
      BY <1>1, <2>1 DEF VerdictFieldsAreConsistent, NoRaw
    <3>3. CASE t.stage = "reviewer"
      <4> DEFINE r == Response("reviewer", "reviewer_failure", NoVerdict, FALSE)
      <4>1. r \in Responses /\ r.ending = "reviewer" /\ r.verdict = NoVerdict
            /\ r.usage = FALSE /\ r.code = "reviewer_failure"
        BY DEF Responses, Response
      <4>2. t.code = "reviewer_failure"
        BY <2>1, <3>3
      <4> HIDE DEF r
      <4> QED
        BY <2>2, <3>2, <3>3, <4>1, <4>2
    <3>4. CASE t.stage = "parser"
      <4> DEFINE r == Response("parser", "parser_failure", NoVerdict, t.usage)
      <4>1. r \in {Response("parser", "parser_failure", NoVerdict, u) : u \in BOOLEAN}
        BY <1>2
      <4>2. r \in Responses /\ r.ending = "parser" /\ r.verdict = NoVerdict
            /\ r.usage = t.usage /\ r.code = "parser_failure"
        BY <4>1 DEF Responses, Response
      <4>3. t.code = "parser_failure"
        BY <2>1, <3>4
      <4> HIDE DEF r
      <4> QED
        BY <3>2, <3>4, <4>2, <4>3
    <3>5. CASE t.stage = "transport"
      <4>1. t.code \in TransportCodes
        BY <2>1, <3>5
      <4> DEFINE r == Response("transport", t.code, NoVerdict, FALSE)
      <4>2. r \in {Response("transport", c, NoVerdict, FALSE) : c \in TransportCodes}
        BY <4>1
      <4>3. r \in Responses /\ r.ending = "transport" /\ r.verdict = NoVerdict
            /\ r.usage = FALSE /\ r.code = t.code
        BY <4>2 DEF Responses, Response
      <4> HIDE DEF r
      <4> QED
        BY <2>2, <3>2, <3>5, <4>3
    <3> QED
      BY <2>1, <3>1, <3>3, <3>4, <3>5 DEF Stages
  <2>4. r.ending # "verdict"
    BY <2>1, <2>3 DEF Stages
  <2>5. /\ EvaluateAttempt(r, a).kind = "failure"
        /\ EvaluateAttempt(r, a).autonomous = "blocked"
        /\ EvaluateAttempt(r, a).supervised = "sent_to_human"
        /\ EvaluateAttempt(r, a).schema_valid = (r.ending = "normalizer")
        /\ EvaluateAttempt(r, a).stage = r.ending
        /\ EvaluateAttempt(r, a).code = r.code
    BY <2>4, AttemptIs
  <2>6. t.autonomous = "blocked" /\ t.supervised = "sent_to_human"
    BY <1>2, <2>1 DEF SupervisedOutcome
  <2>7. EvaluateAttempt(r, a) = t
    BY <1>3, <2>1, <2>3, <2>5, <2>6
  <2> QED
    BY <2>3, <2>7
<1> QED
  BY <1>4, <1>5

LEMMA ContractAccepts == ContractInv => AcceptedIsProducible
<1> SUFFICES ASSUME ContractInv, NEW t \in attempt,
                    InferenceAccepts(t, input.action)
             PROVE  \E r \in Responses :
                      /\ r.usage = t.usage
                      /\ RawOf(r.verdict) = t.raw
                      /\ EvaluateAttempt(r, input.action) = t
  BY DEF AcceptedIsProducible
<1>1. PICK r \in ResponsesTo(input.reply) :
        LET t0 == EvaluateAttempt(r, input.action)
        IN  \/ ~changed /\ attempt = {t0}
            \/ \E part \in Changes : changed /\ attempt = {Overwrite(t0, part)}
  BY DEF ContractInv
<1> DEFINE t0 == EvaluateAttempt(r, input.action)
<1>2. r \in Responses
  BY RespondedIs
<1>3. CASE t = t0
  <2>1. r.usage = t.usage /\ RawOf(r.verdict) = t.raw
    BY <1>2, <1>3, AttemptIs
  <2> QED
    BY <1>2, <1>3, <2>1
<1>4. ASSUME NEW part \in Changes, t = Overwrite(t0, part)
      PROVE  \E q \in Responses :
               /\ q.usage = t.usage
               /\ RawOf(q.verdict) = t.raw
               /\ EvaluateAttempt(q, input.action) = t
  <2>1. Stored(t0) /\ DOMAIN t0 = Fields
    BY <1>2, AttemptStored
  <2> HIDE DEF t0
  <2>2. Stored(t) /\ t = [f \in Fields |-> t[f]]
    BY <1>4, <2>1, OverwriteStored, OverwriteIs
  <2> QED
    BY <2>2, AcceptedProducible
<1> QED
  BY <1>1, <1>3, <1>4

-----------------------------------------------------------------------------
(* For every attempt with high authorization or without a local upgrade,    *)
(* evaluateProductionContract reports what gateToolCall does: the outcome   *)
(* and what becomes of the call in either mode.                             *)
THEOREM HarnessMirrorsGate == ESpec => []HarnessAgreesWithGate
<1>1. ContractInv => HarnessAgreesWithGate
  BY ContractAgrees
<1> QED
  BY <1>1, ContractSound, PTL

(* What the harness writes, its own checks accept, but for an upgraded      *)
(* review.                                                                  *)
THEOREM ChecksAcceptTheHarness == ESpec => []ProducedIsAccepted
<1>1. ContractInv => ProducedIsAccepted
  BY ContractProduces
<1> QED
  BY <1>1, ContractSound, PTL

(* What snapshotInferenceAttempt lets pass is an attempt of the harness for *)
(* that very case, whichever part of it was changed in its file.            *)
THEOREM ChecksAcceptNothingElse == ESpec => []AcceptedIsProducible
<1>1. ContractInv => AcceptedIsProducible
  BY ContractAccepts
<1> QED
  BY <1>1, ContractSound, PTL
=============================================================================
