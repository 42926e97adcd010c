----------------------------- MODULE ActionGate -----------------------------
(***************************************************************************)
(* gateToolCall, the before_tool_call hook (src/plugin.js), for tool calls *)
(* that are gated concurrently and share one run decision store.  A hook   *)
(* awaits twice, for the judge's answer and for the audit write; what it   *)
(* does before, between and after is one step each, and the hooks of other *)
(* calls, the caller that owns the event object and the clock move in the  *)
(* gaps.                                                                   *)
(*                                                                         *)
(* Calls are slots: a slot whose call has returned takes another call.     *)
(* Identities, redaction, hashing and the route assessment are reduced to  *)
(* what the gate learns from them, in the situation a call begins in.      *)
(***************************************************************************)
EXTENDS RunDecisions, Verdict

CONSTANTS
    Calls,           \* slots for concurrent calls
    Configurations,  \* registrations: mode, enforcement, settingsValid, hitlReplace
    Situations,      \* what the gate finds when a call begins
    Answers,         \* the verdicts the judge gives
    MaxClock         \* bound on the clock, for TLC

Registration == [mode: {"autonomous", "supervised"},
                 enforcement: {"enforce", "shadow"},
                 settingsValid: BOOLEAN, hitlReplace: BOOLEAN]

(* problem is the first thing that goes wrong in the preparation, route is *)
(* what the assessment says when it is reached, active is whether the run  *)
(* or its session is marked for autoapprove.                               *)
Problems == {"none", "untracked", "no_prompt", "action", "route", "envelope"}
Situation == [problem: Problems, hard: BOOLEAN, active: BOOLEAN, action: Traits]

ASSUME GateAssumption ==
    /\ Configurations \subseteq Registration
    /\ \A g \in Configurations :
         ~g.settingsValid =>
            g.mode = "supervised" /\ g.enforcement = "enforce" /\ ~g.hitlReplace
    /\ Situations \subseteq Situation
    /\ Answers \subseteq Verdicts
    /\ MaxClock \in Nat

VARIABLES
    store,   \* the run decision store
    now,     \* the host's clock
    config,  \* the registration of the plugin
    calls    \* [Calls -> the locals of the hook]

gvars == <<store, now, config, calls>>

NoAction == [observation |-> FALSE, opaque |-> FALSE, unsafe |-> FALSE]

Idle == [pc |-> "idle", run |-> Null, tracked |-> FALSE, active |-> FALSE,
         action |-> NoAction, hard |-> FALSE, breaker |-> FALSE,
         storeFailed |-> FALSE, routeFailed |-> FALSE, changed |-> FALSE,
         judge |-> NoVerdict, result |-> Failure("invalid_judge_response"),
         source |-> "failure", hook |-> NoHookValue, params |-> "none",
         bridge |-> Null]

Shadow == config.enforcement = "shadow"

Free(c) == calls[c].pc \in {"idle", "done"}

Pending(c) == calls[c].pc \in {"fetching", "reading"}

Init ==
    /\ now = 0
    /\ store = EmptyStore(now)
    /\ config \in Configurations
    /\ calls = [c \in Calls |-> Idle]

-----------------------------------------------------------------------------
(* The decision, from the result the judge or the preparation left.  Each  *)
(* step takes and returns the decision d so far, for the call k.           *)
ShadowAssessmentFailure(k) == k.routeFailed /\ Shadow

Now(result, source) == [result |-> result, source |-> source]

(* Hard boundary, breaker, and a store that could not be read at the start. *)
Candidates(k, d) ==
    LET bounded ==
          IF k.hard /\ (~k.breaker \/ ShadowAssessmentFailure(k))
          THEN Now(HardPolicyBlock, "hard_boundary") ELSE d
        broken ==
          IF k.breaker /\ ~ShadowAssessmentFailure(k)
          THEN Now(RepeatedDenials, "circuit_breaker") ELSE bounded
    IN  IF k.storeFailed THEN TechnicalFailure(broken.result, broken.source)
                         ELSE broken

(* Mutant: the fresh parameters are taken without comparing the hash. *)
FreshActionUnchecked(k, d) == d

(* An allow is for the event as it was hashed: it is built and hashed again. *)
FreshAction(k, d) ==
    IF d.result.kind = "allow" /\ k.changed
    THEN Now(Failure("invalid_judge_response"), "failure") ELSE d

FreshParams(k, d) ==
    IF d.result.kind = "allow" /\ FreshAction(k, d).result.kind = "allow"
    THEN IF k.changed THEN "changed" ELSE "captured"
    ELSE k.params

ReadsAgain(k) ==
    k.tracked /\ ~k.storeFailed /\ ~ShadowAssessmentFailure(k)

(* Mutant: the breaker is not read again after the judge's answer. *)
NoSecondRead(k, d) == d

(* The breaker is read again: other calls may have tripped it meanwhile. *)
SecondRead(k, d) ==
    IF ~ReadsAgain(k) THEN d
    ELSE IF ~ClockValid(store, now) THEN TechnicalFailure(d.result, d.source)
    ELSE IF IsTripped(store, k.run, now)
    THEN Now(RepeatedDenials, "circuit_breaker")
    ELSE d

Accepted(k, d) ==
    ClockValid(store, now) /\ ValidMetadata(DecisionMetadata(d.result, k.judge))

(* The gate refuses a status that says this call tripped the run, when the *)
(* call was no denial or was itself a repeated one.                        *)
StatusRefused(k, d) ==
    LET m == DecisionMetadata(d.result, k.judge)
    IN  /\ NewlyTripped(store, k.run, m, now)
        /\ m.outcome # "deny" \/ m.reason_code = "repeated_denials"

(* Mutant: the status that record returns is not looked at. *)
RecordedBlindly(k, d) ==
    IF ~k.tracked \/ Accepted(k, d) THEN d
    ELSE TechnicalFailure(d.result, d.source)

Recorded(k, d) ==
    IF ~k.tracked THEN d
    ELSE IF ~Accepted(k, d) \/ StatusRefused(k, d)
    THEN TechnicalFailure(d.result, d.source)
    ELSE IF AlreadyTripped(store, k.run, now) /\ ~ShadowAssessmentFailure(k)
    THEN Now(RepeatedDenials, "circuit_breaker")
    ELSE d

StoreAfter(k, d) ==
    IF k.tracked /\ Accepted(k, d)
    THEN Record(store, k.run, DecisionMetadata(d.result, k.judge), now)
    ELSE IF ReadsAgain(k) /\ ClockValid(store, now)
    THEN Find(store, k.run, now)
    ELSE store

(* From the end of the review to the start of the audit write.  The bound   *)
(* variables name the decision as it stands after each step of the code.   *)
Conclude(c, k, result, judge) ==
    \E kj \in {[k EXCEPT !.judge = judge]} :
    \E first \in {Candidates(kj,
                     Now(result, OrdinaryDecisionSource(result, judge)))} :
    \E before \in {SecondRead(kj, FreshAction(kj, first))} :
    \E after \in {Recorded(kj, before)} :
        /\ calls' = [calls EXCEPT ![c] =
                       [Idle EXCEPT !.pc = "auditing", !.run = k.run,
                          !.tracked = k.tracked, !.active = k.active,
                          !.hard = k.hard, !.routeFailed = k.routeFailed,
                          !.judge = judge, !.result = after.result,
                          !.source = after.source,
                          !.hook = MapVerdict(config, after.result),
                          !.params = FreshParams(kj, first)]]
        /\ store' = StoreAfter(kj, before)
        /\ UNCHANGED <<now, config>>

-----------------------------------------------------------------------------
(* The hook up to its first await, or up to the audit when nothing has to  *)
(* be asked.  An open breaker keeps the judge and the route assessment out *)
(* of it when the gate enforces, and a hard boundary the judge.            *)
Begun(r, s) ==
    LET tracked == s.problem # "untracked"
        readable == ClockValid(store, now)
        breaker == tracked /\ readable /\ IsTripped(store, r, now)
        assessed == ~(breaker /\ ~Shadow) /\ s.problem # "action"
    IN  [Idle EXCEPT !.pc = "fetching", !.run = r, !.tracked = tracked,
           !.active = s.active, !.action = s.action,
           !.breaker = breaker, !.storeFailed = tracked /\ ~readable,
           !.routeFailed = assessed /\ s.problem = "route",
           !.hard = assessed /\ s.problem # "route" /\ s.hard,
           !.params = IF s.problem = "action" THEN "empty" ELSE "captured"]

Consults(k, s) ==
    /\ s.problem = "none"
    /\ ~((k.breaker \/ k.hard) /\ ~Shadow)
    /\ config.settingsValid

Unprepared(k, s) ==
    IF ~config.settingsValid /\ s.problem \notin {"action", "route"}
       /\ ~k.breaker /\ ~k.hard
    THEN Failure("judge_unavailable") ELSE Failure("invalid_judge_response")

Ungated(s) == config.hitlReplace /\ ~s.active

(* In HITL-replace mode a call outside the marked chats passes untouched:  *)
(* the hook returns undefined in the turn it was called in.                *)
Bypass(c, s) ==
    /\ Free(c)
    /\ Ungated(s)
    /\ calls' = [calls EXCEPT ![c] = Idle]
    /\ UNCHANGED <<store, now, config>>

BeginReview(c, r, s) ==
    /\ Free(c)
    /\ ~Ungated(s)
    /\ \E k \in {Begun(r, s)} :
         /\ Consults(k, s)
         /\ calls' = [calls EXCEPT ![c] = k]
         /\ store' = IF k.storeFailed THEN store ELSE Find(store, r, now)
    /\ UNCHANGED <<now, config>>

(* Both reads of the breaker and the record fall into one turn, and find  *)
(* touches what record touches, so the first read leaves no trace of its own. *)
BeginWithoutReview(c, r, s) ==
    /\ Free(c)
    /\ ~Ungated(s)
    /\ \E k \in {Begun(r, s)} :
         /\ ~Consults(k, s)
         /\ Conclude(c, k, Unprepared(k, s), NoVerdict)

-----------------------------------------------------------------------------
(* The judge client: one timer runs over the request and over the reading  *)
(* of the body; what comes first decides.                                  *)
ResponseArrives(c) ==
    /\ calls[c].pc = "fetching"
    /\ calls' = [calls EXCEPT ![c].pc = "reading"]
    /\ UNCHANGED <<store, now, config>>

(* Mutant: the timer only guards the request. *)
TimerRunsForRequest(c) == calls[c].pc = "fetching"

TimerRuns(c) == Pending(c)

ReviewTimesOut(c) ==
    /\ TimerRuns(c)
    /\ Conclude(c, calls[c], Failure("judge_unavailable"), NoVerdict)

(* A network error, an HTTP status or a body that is no judge response;    *)
(* and any answer, when the route is no longer what it was before.         *)
ReviewFails(c) ==
    /\ Pending(c)
    /\ \E code \in FailureCodes :
         /\ code = "invalid_judge_response" \/ calls[c].pc = "fetching"
         /\ Conclude(c, calls[c], Failure(code), NoVerdict)

JudgeAnswers(c, v) ==
    /\ calls[c].pc = "reading"
    /\ Conclude(c, calls[c], GuardedResult(v, calls[c].action), v)

(* The event object belongs to the caller, who may write to it at any time. *)
EventChanges(c) ==
    /\ Pending(c)
    /\ calls' = [calls EXCEPT ![c].changed = ~@]
    /\ UNCHANGED <<store, now, config>>

-----------------------------------------------------------------------------
(* The audit write has settled, well or badly: the hook returns.  Of its   *)
(* locals, those the properties ask about outlive it.                      *)
Deliver(c) ==
    LET k == calls[c]
    IN  /\ k.pc = "auditing"
        /\ calls' = [calls EXCEPT ![c] =
                       [k EXCEPT !.pc = "done", !.run = Null,
                          !.routeFailed = FALSE,
                          !.hook = Delivered(k.active, k.result, k.hook),
                          !.bridge = IF k.active
                                     THEN BridgeDecision(k.active, k.result, k.hook)
                                     ELSE Null]]
        /\ UNCHANGED <<store, now, config>>

ClockAdvance ==
    /\ now < MaxClock
    /\ now' = now + 1
    /\ UNCHANGED <<store, config, calls>>

ClockStepBack ==
    /\ now > 0
    /\ now' = now - 1
    /\ UNCHANGED <<store, config, calls>>

Next ==
    \/ \E c \in Calls, s \in Situations : Bypass(c, s)
    \/ \E c \in Calls, r \in Runs, s \in Situations : BeginReview(c, r, s)
    \/ \E c \in Calls, r \in Runs, s \in Situations : BeginWithoutReview(c, r, s)
    \/ \E c \in Calls : ResponseArrives(c)
    \/ \E c \in Calls : ReviewTimesOut(c)
    \/ \E c \in Calls : ReviewFails(c)
    \/ \E c \in Calls, v \in Answers : JudgeAnswers(c, v)
    \/ \E c \in Calls : EventChanges(c)
    \/ \E c \in Calls : Deliver(c)
    \/ ClockAdvance
    \/ ClockStepBack

Spec == Init /\ [][Next]_gvars

(* Nobody has to answer: the client's timer fires, and file I/O ends. *)
Fairness ==
    \A c \in Calls : WF_gvars(ReviewTimesOut(c)) /\ WF_gvars(Deliver(c))

FairSpec == Spec /\ Fairness

-----------------------------------------------------------------------------
(* The locals of every hook have the shape the code gives them, and the     *)
(* store is a store.                                                        *)
TypeOK ==
    /\ now \in Nat
    /\ StoreTypeOK(store)
    /\ config \in Configurations
    /\ \A c \in Calls :
         LET k == calls[c]
         IN  /\ DOMAIN k = DOMAIN Idle
             /\ k.pc \in {"idle", "fetching", "reading", "auditing", "done"}
             /\ k.run \in Runs \cup {Null}
             /\ k.judge \in Answers \cup {NoVerdict}
             /\ k.params \in {"none", "captured", "changed", "empty"}
             /\ k.bridge \in {Null, "allow-once", "deny"}

Returned(k) == k.pc = "done"

(* A tool runs on exactly two grounds: an allow that stands on an accepted  *)
(* verdict for the very event the hook returns the parameters of, however   *)
(* the event was written to while the judge thought; or, in an autoapproved *)
(* chat only, a technical failure.  The second ground is at odds with       *)
(* CONTRACT.md:248-249: see GatewayHearsTheJudge.                           *)
RunsAreGrounded ==
    \A c \in Calls :
        LET k == calls[c]
        IN  Returned(k) /\ k.hook.kind = "params" =>
              \/ /\ k.result.kind = "allow"
                 /\ k.source = "llm"
                 /\ k.tracked
                 /\ k.judge.decision \in {"allow", "review"}
                 /\ k.judge.risk = "low" /\ k.judge.authorization = "high"
                 /\ k.params = "captured"
              \/ /\ k.result.kind = "failure" /\ k.active
                 /\ k.params \in {"captured", "empty"}

(* A denial is final: what the judge denied, what lies beyond a hard        *)
(* boundary and what a tripped breaker refused is blocked by a gate that    *)
(* enforces, in every mode, in autoapproved chats too, and whatever fails   *)
(* between the decision and its delivery.                                   *)
DenialsAreFinal ==
    \A c \in Calls :
        LET k == calls[c]
            refused == \/ k.hard \/ k.judge.decision = "deny"
                       \/ k.source = "circuit_breaker"
        IN  Returned(k) /\ ~Shadow /\ refused => k.hook.kind = "block"

(* The bridge is told what the hook returned, and nobody is asked for an    *)
(* approval that an autoapproved chat would not give.                       *)
BridgeAgreesWithHook ==
    \A c \in Calls :
        LET k == calls[c]
        IN  Returned(k) /\ ~Shadow =>
              IF ~k.active THEN k.bridge = Null
              ELSE /\ k.hook.kind # "approval"
                   /\ k.bridge = IF k.hook.kind = "params" THEN "allow-once"
                                                          ELSE "deny"

Concludes(c) == ~(calls[c].pc = "auditing") /\ calls'[c].pc = "auditing"

(* No call of a tripped run is decided otherwise than as a repeated denial, *)
(* although the breaker was closed, or could not be read, when the call     *)
(* began and the judge answered long after.  Not covered: a store that is   *)
(* unreadable now, and a shadow gate whose route assessment failed.         *)
NothingPassesOpenBreaker ==
    \A c \in Calls :
        LET k == calls'[c]
        IN  /\ Concludes(c) /\ k.tracked /\ ClockValid(store, now)
            /\ IsTripped(store, k.run, now)
            /\ ~(k.routeFailed /\ Shadow)
            => k.result = RepeatedDenials /\ k.source = "circuit_breaker"

BreakerHolds == [][NothingPassesOpenBreaker]_gvars

(* The history a run trips on is the history of what its calls were told:   *)
(* a decision adds one record, at the end, with the outcome it is delivered *)
(* with, although the outcome may be settled only after the record.  Not     *)
(* covered: metadata the store refuses, and the shadow gate above.          *)
LastOutcome(s, r) ==
    LET h == s.runs[r].history IN h[Len(h)].outcome

RecordsWhatItTells ==
    \A c \in Calls :
        LET k == calls'[c]
        IN  /\ Concludes(c) /\ k.tracked /\ ClockValid(store, now)
            /\ ~(k.routeFailed /\ Shadow)
            /\ ~(k.source = "failure" /\ k.judge.decision = "review")
            => LastOutcome(store', k.run) = SelectFeedbackOutcome(k.result)

HistoryTellsOutcomes == [][RecordsWhatItTells]_gvars

(* Every gated call returns: a judge that never answers, in the request or  *)
(* in the body, does not hold the host up.                                  *)
EveryCallReturns ==
    \A c \in Calls :
        calls[c].pc \in {"fetching", "reading", "auditing"}
            ~> calls[c].pc = "done"

(* CONTRACT.md:248-252, of the calls of a chat with the autoapprove marker: *)
(* the judge is asked, the gateway is told what was decided, and review and *)
(* failure are denials, in every profile.                                   *)
GatewayHearsTheJudge ==
    \A c \in Calls :
        LET k == calls[c]
        IN  Returned(k) /\ k.active =>
              k.bridge = IF k.result.kind = "allow" THEN "allow-once" ELSE "deny"
=============================================================================
