------------------------- MODULE EvaluationContract -------------------------
(***************************************************************************)
(* The gate and the harness side by side: for every reply to every action, *)
(* what the gate does with it (DecisionPipeline) and what the harness      *)
(* writes down, and what the harness's checks say of that attempt when     *)
(* parts of it were changed in a file.                                     *)
(***************************************************************************)
EXTENDS DecisionPipeline, Evaluation

(* The judge can give a reason that no observation overrides, as it can:    *)
(* its codes are all of ModelCodes.                                         *)
ASSUME StandingReasonAssumption == JudgeCodes \ OverrideReasons # {}

VARIABLES
    attempt,    \* empty, then the attempt as it is stored
    changed     \* whether a part of it was changed since

evars == <<input, output, attempt, changed>>

(* The responses that the gate sees as the reply i has. *)
ResponsesTo(reply) ==
    {r \in Responses :
        CASE r.ending \in {"verdict", "normalizer"} -> r.verdict = reply.verdict
          [] r.ending = "parser" \/ r.code = "invalid_response" ->
               reply.code = "invalid_judge_response"
          [] OTHER -> reply.code = "judge_unavailable"}

(* The harness knows no shadow, no safe path, no breaker and no marker. *)
IsEvaluated(i) ==
    /\ i.config = [mode |-> "autonomous", enforcement |-> "enforce"]
    /\ i.intervention = "none"
    /\ ~i.active /\ ~i.safePath

EInit == Init /\ attempt = {} /\ changed = FALSE

EDecide == attempt = {} /\ Decide /\ UNCHANGED <<attempt, changed>>

Evaluate ==
    /\ attempt = {}
    /\ output # {}
    /\ IsEvaluated(input)
    /\ \E r \in ResponsesTo(input.reply) :
          attempt' = {EvaluateAttempt(r, input.action)}
    /\ UNCHANGED <<input, output, changed>>

(* What the attempt claims, what it says of a failure, what the judge said, *)
(* which case it is of, and whether its tokens are known.                   *)
Claims == [kind: Kinds, autonomous: {"blocked", "executed_without_human"},
           supervised: {"blocked", "executed_without_human", "sent_to_human"}]
Faults == [schema_valid: BOOLEAN, stage: Stages \cup {Null},
           code: {"http", "reviewer_failure", "parser_failure",
                  "normalizer_failure", Null}]
Changes == Claims \cup Faults \cup [raw: RawVerdicts \cup {NoRaw}]
             \cup [own: BOOLEAN] \cup [usage: BOOLEAN]

Overwrite(t, part) ==
    [f \in DOMAIN t |-> IF f \in DOMAIN part THEN part[f] ELSE t[f]]

(* Somebody writes to the file in which the attempt is kept. *)
Tamper ==
    /\ ~changed
    /\ \E t \in attempt, part \in Changes :
          /\ Overwrite(t, part) # t
          /\ attempt' = {Overwrite(t, part)}
    /\ changed' = TRUE
    /\ UNCHANGED <<input, output>>

ENext == EDecide \/ Evaluate \/ Tamper

ESpec == EInit /\ [][ENext]_evars

-----------------------------------------------------------------------------
UpgradedReview(t) == t.raw.decision = "review" /\ t.kind = "allow"

(* An attempt that the inference check lets pass is one the harness could   *)
(* have written for that very case: whichever part of it was changed in the *)
(* file, it cannot claim an outcome that the pipeline does not give.        *)
AcceptedIsProducible ==
    \A t \in attempt :
        InferenceAccepts(t, input.action) =>
            \E r \in Responses :
                /\ r.usage = t.usage
                /\ RawOf(r.verdict) = t.raw
                /\ EvaluateAttempt(r, input.action) = t

Dispositions == {"allow", "review", "deny"}

(* What the harness writes, attempt or anchor, its own checks accept: all   *)
(* but a review that the trusted-observation upgrade turned into an allow.  *)
ProducedIsAccepted ==
    \A t \in attempt :
        ~changed /\ ~UpgradedReview(t) =>
            /\ AggregateAccepts(t)
            /\ InferenceAccepts(t, input.action)
            /\ t.stage # "normalizer" => CompletedAccepts(t, input.action)
            /\ \A r \in ResponsesTo(input.reply), disposition \in Dispositions :
                  r.ending \in {"transport", "parser", "verdict"} =>
                      /\ AnchorAccepts(Anchor(r, disposition), disposition)
                      /\ CapabilityPasses({Anchor(r, disposition)}) = (r.ending = "verdict")

(* An upgrade of which the gate knows nothing, or whose metadata the store  *)
(* refuses, so that the gate does not allow the call.                       *)
HarnessOnlyUpgrade(t) ==
    /\ t.kind = "allow"
    /\ ~LocallySafeAllow(t.raw)
    /\ t.raw.decision = "allow" \/ t.raw.authorization # "high"

(* Everything else ends in the harness as it ends in the gate: executed     *)
(* when an enforcing gate returns parameters, sent to a human when a        *)
(* supervised gate asks for approval, blocked when it blocks.               *)
HarnessAgreesWithGate ==
    \A t \in attempt, o \in output :
        ~changed /\ t.stage # "normalizer" /\ ~HarnessOnlyUpgrade(t) =>
            /\ t.kind = o.result.kind
            /\ t.autonomous = (IF o.hook.kind = "params"
                               THEN "executed_without_human" ELSE "blocked")
            /\ t.supervised =
                 LET hook == MapVerdict([input.config EXCEPT !.mode = "supervised"],
                                        o.result)
                 IN  CASE hook.kind = "params" -> "executed_without_human"
                       [] hook.kind = "approval" -> "sent_to_human"
                       [] hook.kind = "block" -> "blocked"

-----------------------------------------------------------------------------
(* test/eval-runner.test.js:384, normalizer and gate can only downgrade a   *)
(* model's allow, which is what the aggregation checks of each attempt: it  *)
(* accepts every attempt the harness itself has evaluated.                  *)
EvaluatedIsAggregated ==
    \A t \in attempt : ~changed => AggregateAccepts(t)
=============================================================================
