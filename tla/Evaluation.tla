----------------------------- MODULE Evaluation -----------------------------
(***************************************************************************)
(* What the evaluation harness makes of one judge response: the attempt    *)
(* evaluateProductionContract returns (src/evals/lib/attempt.mjs, and      *)
(* evaluateSelectionAttempt in candidate-selection.mjs, which does the     *)
(* same), and the checks through which the harness later lets a stored     *)
(* attempt pass: the one of a resumed run, the one of an inference         *)
(* artifact, and the one of the aggregation (aggregate.mjs).  Last come    *)
(* the anchors, with which a preflight asks whether a candidate can answer *)
(* at all (candidate-preflight.mjs, preflight-artifact.mjs).               *)
(*                                                                         *)
(* The hash of the rationale is there exactly when the raw fields are, and *)
(* own says that identity and oracle fields (run, model, case, repeat,     *)
(* tags) are the ones of the case the attempt is checked against.          *)
(***************************************************************************)
EXTENDS Verdict

TransportCodes ==
    {"invalid_configuration", "invalid_request", "invalid_response",
     "request_failed", "request_timed_out", "http"}

(* How a call of the reviewer ends: it throws or returns no response; the   *)
(* client reports a reason; the text does not parse; it parses, after which *)
(* a function of the pipeline may throw.  usage: the response has a valid   *)
(* account of its tokens.                                                   *)
Response(ending, code, v, usage) ==
    [ending |-> ending, code |-> code, verdict |-> v, usage |-> usage]

(* The responses with a verdict. *)
Answered(ending, code) ==
    {Response(ending, code, v, u) : v \in Verdicts, u \in BOOLEAN}

Responses ==
    {Response("reviewer", "reviewer_failure", NoVerdict, FALSE)}
      \cup {Response("transport", c, NoVerdict, FALSE) : c \in TransportCodes}
      \cup {Response("parser", "parser_failure", NoVerdict, u) : u \in BOOLEAN}
      \cup Answered("verdict", Null)
      \cup Answered("normalizer", "normalizer_failure")

-----------------------------------------------------------------------------
(* Mutant: the harness does not know of opaque actions. *)
HarnessResultTransparent(v, a) ==
    ApplyTrustedObservationAllow(
        ApplyLocalSafetyDowngrade(NormalizeVerdict(v), a), a)

(* The harness passes on what the normaliser returns, reason included, where *)
(* the gate keeps kind and verdict only (NormalizedSnapshot).               *)
HarnessResult(v, a) ==
    ApplyTrustedObservationAllow(
        ApplyLocalSafetyDowngrade(
            ApplyOpaqueDowngrade(NormalizeVerdict(v), a), a), a)

AutonomousOutcome(r) ==
    LET hook == MapVerdict([mode |-> "autonomous", enforcement |-> "enforce"], r)
    IN  IF hook.kind = "block" THEN "blocked" ELSE "executed_without_human"

SupervisedOutcome(kind) ==
    CASE kind = "allow" -> "executed_without_human"
      [] kind = "deny" -> "blocked"
      [] OTHER -> "sent_to_human"

RawOf(v) == [decision |-> v.decision, risk |-> v.risk,
             authorization |-> v.authorization, confident |-> v.confident]

FailedAttempt(response) ==
    [own |-> TRUE, raw |-> RawOf(response.verdict), kind |-> "failure",
     autonomous |-> "blocked", supervised |-> "sent_to_human",
     schema_valid |-> response.ending = "normalizer",
     stage |-> response.ending, code |-> response.code,
     usage |-> response.usage]

EvaluateAttempt(response, a) ==
    LET r == HarnessResult(response.verdict, a)
    IN  IF response.ending # "verdict" THEN FailedAttempt(response)
        ELSE [own |-> TRUE, raw |-> RawOf(response.verdict), kind |-> r.kind,
              autonomous |-> AutonomousOutcome(r),
              supervised |-> SupervisedOutcome(r.kind),
              schema_valid |-> TRUE, stage |-> Null, code |-> Null,
              usage |-> response.usage]

Kinds == {"allow", "review", "deny", "failure"}
Stages == {"reviewer", "transport", "parser", "normalizer"}
RawVerdicts == {RawOf(v) : v \in Verdicts}
NoRaw == RawOf(NoVerdict)

-----------------------------------------------------------------------------
FailureFieldsAreConsistent(t) ==
    IF t.stage = Null \/ t.code = Null
    THEN t.stage = t.code /\ t.schema_valid /\ t.kind # "failure"
    ELSE /\ t.kind = "failure"
         /\ t.schema_valid = (t.stage = "normalizer")
         /\ CASE t.stage = "reviewer"   -> t.code = "reviewer_failure"
              [] t.stage = "parser"     -> t.code = "parser_failure"
              [] t.stage = "normalizer" -> t.code = "normalizer_failure"
              [] t.stage = "transport"  -> t.code \in TransportCodes

(* Mutant: a stored review may have become an allow. *)
VerdictFieldsLax(t) ==
    IF ~t.schema_valid THEN t.raw = NoRaw
    ELSE /\ t.raw # NoRaw
         /\ IF t.kind = "failure" THEN t.stage = "normalizer"
            ELSE t.raw.decision = "deny" => t.kind = "deny"

(* A review of the judge has to be a review afterwards: written for a       *)
(* pipeline that only downgrades.                                           *)
VerdictFieldsAreConsistent(t) ==
    IF ~t.schema_valid THEN t.raw = NoRaw
    ELSE /\ t.raw # NoRaw
         /\ IF t.kind = "failure" THEN t.stage = "normalizer"
            ELSE IF t.raw.decision = "allow" THEN t.kind \in {"allow", "review"}
            ELSE t.kind = t.raw.decision

OutcomeFieldsAreConsistent(t) ==
    /\ t.supervised = SupervisedOutcome(t.kind)
    /\ t.autonomous = IF t.kind = "allow" THEN "executed_without_human"
                                          ELSE "blocked"

(* The verdict is rebuilt from the stored fields, which have no reason code. *)
ProductionKindIsConsistent(t, a) ==
    t.schema_valid /\ t.stage # "normalizer" =>
        t.kind = HarnessResult([decision |-> t.raw.decision,
                                risk |-> t.raw.risk,
                                authorization |-> t.raw.authorization,
                                confident |-> t.raw.confident,
                                reason_code |-> Null], a).kind

(* Mutant: an answer that did not parse has no account of its tokens. *)
UsageOfVerdictsOnly(t) == t.stage # Null => ~t.usage

UsageIsConsistent(t) == t.stage \in {"reviewer", "transport"} => ~t.usage

(* The aggregation sees no case, so it cannot replay the pipeline.          *)
AggregateAccepts(t) ==
    /\ FailureFieldsAreConsistent(t)
    /\ VerdictFieldsAreConsistent(t)
    /\ OutcomeFieldsAreConsistent(t)
    /\ UsageIsConsistent(t)

(* Mutant: the stored kind is believed, not replayed. *)
InferenceBelieves(t, a) == t.own /\ AggregateAccepts(t)

(* snapshotInferenceAttempt, for an attempt of the case with traits a.      *)
InferenceAccepts(t, a) ==
    /\ t.own
    /\ AggregateAccepts(t)
    /\ ProductionKindIsConsistent(t, a)

(* snapshotCompletedAttempt: what broke in the normaliser is tried again.   *)
CompletedAccepts(t, a) == t.stage # "normalizer" /\ InferenceAccepts(t, a)

-----------------------------------------------------------------------------
(* The preflight's record of a call about an anchor, a case whose oracle    *)
(* says disposition: nothing but the normaliser runs, and an answer that    *)
(* cannot be used counts as one that came.                                  *)
Anchor(response, disposition) ==
    LET valid == response.ending = "verdict"
    IN  [own |-> TRUE,
         transport |-> response.ending # "transport"
                         \/ response.code = "invalid_response",
         schema_valid |-> valid,
         raw |-> RawOf(response.verdict),
         kind |-> IF valid THEN NormalizeVerdict(response.verdict).kind ELSE Null,
         match |-> valid /\ response.verdict.decision = disposition,
         code |-> CASE valid -> Null
                    [] response.ending = "parser" -> "invalid_schema"
                    [] response.ending = "transport" -> response.code,
         usage |-> response.usage]

(* A candidate is eligible when every anchor was answered with a verdict. *)
CapabilityPasses(anchors) == \A t \in anchors : t.transport /\ t.schema_valid

AnchorAccepts(t, disposition) ==
    /\ t.own
    /\ IF t.schema_valid
       THEN /\ t.transport /\ t.code = Null
            /\ \E v \in Verdicts : RawOf(v) = t.raw
                                     /\ NormalizeVerdict(v).kind = t.kind
            /\ t.match = (t.raw.decision = disposition)
       ELSE /\ t.raw = NoRaw /\ t.kind = Null /\ ~t.match
            /\ t.code \in TransportCodes \cup {"invalid_schema"}
            /\ t.transport = (t.code \in {"invalid_response", "invalid_schema"})
            /\ t.code # "invalid_schema" => ~t.usage
=============================================================================
