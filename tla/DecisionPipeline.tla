-------------------------- MODULE DecisionPipeline --------------------------
(***************************************************************************)
(* One gated call, from what it is about to what is returned, recorded and *)
(* audited, with everything that happens in between in one step: the pure  *)
(* part of gateToolCall, for every reply of the judge, every action, every *)
(* configuration, and chats with and without the autoapprove marker.       *)
(***************************************************************************)
EXTENDS Verdict, Naturals

VARIABLES
    input,   \* the configuration, the reply, the action's traits, what the
             \* route, the breaker and the store's errors do to the result
    output   \* empty, then what the gate made of the input

pvars == <<input, output>>

(* A judge's verdict, or the failure code of a judge that gave none. *)
Replies == [verdict: Verdicts, code: {Null}]
             \cup [verdict: {NoVerdict}, code: FailureCodes]

(* The run is tripped before the judge is asked or after it, the action    *)
(* lies beyond a hard boundary, or the store fails after the decision.     *)
Interventions == {"none", "technical", "tripped", "tripped_later", "hard"}

(* A gate that enforces does not ask about a tripped run or a hard boundary, *)
(* and assesses no route for a tripped run.                                *)
Unasked(i) ==
    i.config.enforcement = "enforce" /\ i.intervention \in {"tripped", "hard"}

NotAsked == [verdict |-> NoVerdict, code |-> "invalid_judge_response"]

(* active: the run or its session is marked for autoapprove. *)
Inputs ==
    {i \in [config: Configs, active: BOOLEAN, reply: Replies, action: Traits,
            safePath: BOOLEAN, intervention: Interventions] :
        /\ i.safePath => i.intervention # "hard" /\ ~i.action.opaque
        /\ Unasked(i) => i.reply = NotAsked /\ ~i.safePath}

Judged(i) ==
    IF i.reply.code # Null THEN Failure(i.reply.code)
                           ELSE GuardedResult(i.reply.verdict, i.action)

Decided(i) ==
    LET r == Judged(i)
        source == OrdinaryDecisionSource(r, i.reply.verdict)
    IN  CASE i.intervention = "none" -> [result |-> r, source |-> source]
          [] i.intervention = "technical" -> TechnicalFailure(r, source)
          [] i.intervention = "hard" ->
               [result |-> HardPolicyBlock, source |-> "hard_boundary"]
          [] i.intervention \in {"tripped", "tripped_later"} ->
               [result |-> RepeatedDenials, source |-> "circuit_breaker"]

(* A decision whose metadata the store refuses is a technical failure.      *)
Settled(i) ==
    LET d == Decided(i)
    IN  IF ValidMetadata(DecisionMetadata(d.result, i.reply.verdict))
        THEN d ELSE TechnicalFailure(d.result, d.source)

Init ==
    /\ input \in Inputs
    /\ output = {}

(* For a repeated denial, what the result said before the breaker did.      *)
SafePathVerdict(i, d) ==
    LET r == IF d.source = "circuit_breaker" THEN Judged(i) ELSE d.result
    IN  IF ~i.safePath THEN Null
        ELSE IF r.kind = "allow" THEN "agrees" ELSE "disagrees"

Decide ==
    /\ output = {}
    /\ output' =
         LET d == Settled(input)
         IN  {[result |-> d.result,
               source |-> d.source,
               hook |-> Delivered(input.active, d.result,
                                  MapVerdict(input.config, d.result)),
               audit |-> BuildAuditEvent(input.config, d.result,
                           input.reply.verdict, d.source,
                           SafePathVerdict(input, d))]}
    /\ UNCHANGED input

Next == Decide

Spec == Init /\ [][Next]_pvars

-----------------------------------------------------------------------------
Overridden(o) == o.result.mark = "trusted_observation"

(* A decision to allow has exactly two grounds, both of low risk with high  *)
(* authorization and without an objection of the local guard: a confident   *)
(* allow of parameters without redaction marks, or a review of an           *)
(* observation for one of three reasons.  In particular a denial is never   *)
(* turned round, and what the tool tables reject has no second path.  That  *)
(* medium authorization is no ground and redaction marks no obstacle to the *)
(* second is at odds with CHANGELOG.md:9-11: see TrustedObservationAllow.   *)
AllowsAreGrounded ==
    \A o \in output :
        LET v == input.reply.verdict
            a == input.action
        IN  input.intervention = "none" =>
            (o.result.kind = "allow" <=>
              /\ v.risk = "low" /\ v.authorization = "high"
              /\ ~a.unsafe
              /\ \/ v.decision = "allow" /\ v.confident /\ ~a.opaque
                 \/ /\ v.decision = "review" /\ a.observation
                    /\ v.reason_code \in OverrideReasons)

(* Who knows whether the chat is autoapproved, which the event does not     *)
(* say, reads off the event what the hook returned: a status is the block   *)
(* or the approval it names, with its code, no status is the parameters,    *)
(* and in an autoapproved chat an approval is a block and a failure, always *)
(* audited as refused, the parameters.  This holds in every configuration   *)
(* and however the decision came about, other than by the trusted-          *)
(* observation upgrade: the semantic check discards no other event.         *)
AuditAgreesWithHook ==
    \A o \in output :
        LET opened == input.active /\ o.audit.outcome = "failure"
            approval == IF input.active THEN "block" ELSE "approval"
        IN  ~Overridden(o) =>
            /\ o.audit.source = o.source
            /\ o.audit.judge = input.reply.verdict
            /\ o.audit.outcome = SelectFeedbackOutcome(o.result)
            /\ input.config.enforcement = "enforce" =>
                 /\ o.hook.kind =
                      IF opened \/ o.audit.status = Null THEN "params"
                      ELSE IF o.audit.status = "blocked" THEN "block" ELSE approval
                 /\ ~opened => o.hook.code = o.audit.code
                 /\ opened => o.audit.status # Null

(* The store accepts the metadata of every decision but an upgrade whose    *)
(* verdict has less than high authorization: the gate's own decisions do    *)
(* not make its record call throw.                                         *)
MetadataIsAccepted ==
    LET d == Decided(input)
        v == input.reply.verdict
    IN  \/ Overridden(d) /\ v.authorization # "high"
        \/ ValidMetadata(DecisionMetadata(d.result, v))

Permits(hook) == CASE hook.kind \in {"undefined", "params"} -> 2
                   [] hook.kind = "approval" -> 1
                   [] hook.kind = "block" -> 0

(* A store that fails after the decision makes what the hook delivers more  *)
(* permissive for one kind of decision only, and for that one always: a     *)
(* review in an autoapproved chat, which as a failure is opened.  A denial  *)
(* stays a block, and without the marker a failure never loosens.           *)
FailureLoosensOnlyReviews ==
    \A o \in output :
        LET r == Judged(input)
            unfailed == Delivered(input.active, r, MapVerdict(input.config, r))
        IN  input.intervention = "technical" =>
            (Permits(o.hook) > Permits(unfailed) <=>
               /\ input.active /\ input.config.enforcement = "enforce"
               /\ r.kind = "review")

-----------------------------------------------------------------------------
(* CHANGELOG.md:7-11: a trusted observation of low risk recovers from a     *)
(* review for one of three reasons, and from an allow that the local gate   *)
(* refused for its medium authorization; what is opaque, what the local     *)
(* guard rejects and what the judge denies stays blocked.                   *)
TrustedObservationAllow ==
    \A o \in output :
        LET v == input.reply.verdict
            a == input.action
            stays == a.opaque \/ a.unsafe \/ v.decision = "deny"
            recovers == /\ v.risk = "low"
                        /\ \/ /\ v.decision = "review" /\ v.authorization = "high"
                              /\ v.reason_code \in OverrideReasons
                           \/ /\ v.decision = "allow" /\ v.authorization = "medium"
                              /\ v.confident
        IN  input.intervention = "none" /\ a.observation =>
              /\ stays => o.result.kind # "allow"
              /\ recovers /\ ~stays => o.result.kind = "allow"
=============================================================================
