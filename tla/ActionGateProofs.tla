--------------------------- MODULE ActionGateProofs ---------------------------
(***************************************************************************)
(* Proofs about the before_tool_call hook, for every set of concurrent     *)
(* calls, every set of registrations, situations and verdicts, and every   *)
(* setting of the store.  The inductive invariant GInv says of the shared  *)
(* store what DecisionLemmas says of it, and of each call, by the step it  *)
(* is in, what its locals owe to each other: no other call writes them.    *)
(***************************************************************************)
EXTENDS ActionGate, DecisionLemmas

CallFields ==
    {"pc", "run", "tracked", "active", "action", "hard", "breaker",
     "storeFailed", "routeFailed", "changed", "judge", "result", "source",
     "hook", "params", "bridge"}

(* What the gate has learnt of a call before it decides, from which alone   *)
(* an allow can come.                                                       *)
PendingOK(k) ==
    /\ k.run \in Runs
    /\ k.tracked
    /\ k.action \in Traits
    /\ k.judge = NoVerdict
    /\ k.bridge = Null
    /\ k.params = "captured"

(* The decision d with which the call k stands: an allow is grounded, a     *)
(* refusal is a denial.                                                     *)
DecisionOK(k, d) ==
    /\ ResultOK(d.result)
    /\ d.result.kind = "allow" =>
         /\ d.source = "llm" /\ k.tracked /\ k.params = "captured"
         /\ Grounds(k.judge)
    /\ k.judge.decision = "deny" => d.result.kind = "deny"
    /\ d.source \in {"circuit_breaker", "hard_boundary"} =>
         d.result.kind = "deny"

(* A call that is decided keeps to what was decided.                        *)
DecidedOK(g, k) ==
    /\ DecisionOK(k, Now(k.result, k.source))
    /\ k.result.kind = "allow" => k.judge.authorization = "high"
    /\ g.enforcement # "shadow" /\ k.hard => k.result.kind = "deny"
    /\ k.judge \in JudgeOrNone
    /\ k.params \in {"captured", "empty"}

AuditingOK(g, k) ==
    /\ k.run \in Runs
    /\ k.bridge = Null
    /\ k.hook = MapVerdict(g, k.result)

ReturnedOK(g, k) ==
    /\ k.hook.kind = "params" =>
         k.result.kind = "allow" \/ (k.result.kind = "failure" /\ k.active)
    /\ g.enforcement # "shadow" =>
         /\ k.result.kind = "deny" => k.hook.kind = "block"
         /\ IF ~k.active THEN k.bridge = Null
            ELSE /\ k.hook.kind # "approval"
                 /\ k.bridge = IF k.hook.kind = "params" THEN "allow-once"
                                                        ELSE "deny"

CallOK(g, k) ==
    /\ DOMAIN k = CallFields
    /\ k.pc \in {"idle", "fetching", "reading", "auditing", "done"}
    /\ k.run \in Runs \cup {Null}
    /\ k.judge \in Answers \cup {NoVerdict}
    /\ k.params \in {"none", "captured", "empty"}
    /\ k.bridge \in {Null, "allow-once", "deny"}
    /\ k.pc \in {"fetching", "reading"} => PendingOK(k)
    /\ k.pc \in {"auditing", "done"} => DecidedOK(g, k)
    /\ k.pc = "auditing" => AuditingOK(g, k)
    /\ k.pc = "done" => ReturnedOK(g, k)

GInv ==
    /\ now \in Nat
    /\ Sound(store)
    /\ config \in Configurations
    /\ DOMAIN calls = Calls
    /\ \A c \in Calls : CallOK(config, calls[c])

-----------------------------------------------------------------------------
LEMMA IdleFields ==
    /\ DOMAIN Idle = CallFields
    /\ Idle.pc = "idle" /\ Idle.run = Null /\ Idle.judge = NoVerdict
    /\ Idle.params = "none" /\ Idle.bridge = Null
  BY DEF Idle, CallFields

LEMMA IdleOK ==
    ASSUME NEW g
    PROVE  CallOK(g, Idle)
  BY IdleFields DEF CallOK

LEMMA NowFields ==
    ASSUME NEW result, NEW source
    PROVE  Now(result, source).result = result /\ Now(result, source).source = source
  BY DEF Now

LEMMA AnswersAreVerdicts ==
    ASSUME NEW v \in Answers \cup {NoVerdict}
    PROVE  v \in JudgeOrNone /\ (v # NoVerdict => v \in Verdicts)
  BY GateAssumption DEF JudgeOrNone

-----------------------------------------------------------------------------
(* Each step of the decision leaves a decision, and a denial a denial.      *)
Keeps(k, d, n) ==
    /\ DecisionOK(k, n)
    /\ d.result.kind = "deny" => n.result.kind = "deny"

LEMMA DenialOK ==
    ASSUME NEW k, NEW d, NEW source
    PROVE  /\ Keeps(k, d, Now(RepeatedDenials, source))
           /\ Keeps(k, d, Now(HardPolicyBlock, source))
  BY HostResultsOK, NowFields DEF Keeps, DecisionOK

LEMMA TechnicalOK ==
    ASSUME NEW k, NEW d, DecisionOK(k, d)
    PROVE  LET n == TechnicalFailure(d.result, d.source)
           IN  /\ Keeps(k, d, n)
               /\ n.result.kind # "allow"
               /\ IF d.result.kind = "deny"
                  THEN n.result = d.result /\ n.source = d.source
                  ELSE n.source = "failure"
<1> DEFINE n == TechnicalFailure(d.result, d.source)
<1>1. IF d.result.kind = "deny" THEN n.result = d.result /\ n.source = d.source
      ELSE n.result = Failure("invalid_judge_response") /\ n.source = "failure"
  BY TechnicalFailureOK DEF DecisionOK
<1>2. /\ ResultOK(Failure("invalid_judge_response"))
      /\ Failure("invalid_judge_response").kind = "failure"
  BY HostResultsOK DEF FailureCodes
<1> HIDE DEF n
<1> QED
  BY <1>1, <1>2 DEF Keeps, DecisionOK, n

LEMMA KeepsItself ==
    ASSUME NEW k, NEW d, DecisionOK(k, d)
    PROVE  Keeps(k, d, d)
  BY DEF Keeps

LEMMA KeepsOn ==
    ASSUME NEW k, NEW d, NEW e, NEW f, Keeps(k, d, e), Keeps(k, e, f)
    PROVE  Keeps(k, d, f)
  BY DEF Keeps

(* Beyond a hard boundary an enforcing gate denies.                         *)
LEMMA CandidatesOK ==
    ASSUME NEW k, NEW d, DecisionOK(k, d)
    PROVE  LET n == Candidates(k, d)
           IN  /\ Keeps(k, d, n)
               /\ ~Shadow /\ k.hard => n.result.kind = "deny"
               /\ k.storeFailed => n.result.kind # "allow"
<1> DEFINE bounded ==
             IF k.hard /\ (~k.breaker \/ ShadowAssessmentFailure(k))
             THEN Now(HardPolicyBlock, "hard_boundary") ELSE d
           broken ==
             IF k.breaker /\ ~ShadowAssessmentFailure(k)
             THEN Now(RepeatedDenials, "circuit_breaker") ELSE bounded
           n == Candidates(k, d)
<1>1. n = IF k.storeFailed THEN TechnicalFailure(broken.result, broken.source)
                           ELSE broken
  BY DEF Candidates
<1>2. Keeps(k, d, bounded)
  BY DenialOK, KeepsItself
<1>3. Keeps(k, d, broken)
  BY <1>2, DenialOK
<1>4. ~Shadow /\ k.hard => broken.result.kind = "deny"
  BY HostResultsOK, NowFields DEF ShadowAssessmentFailure
<1> HIDE DEF bounded, broken, n
<1>5. CASE k.storeFailed
  <2>1. n = TechnicalFailure(broken.result, broken.source)
    BY <1>1, <1>5
  <2>2. DecisionOK(k, broken)
    BY <1>3 DEF Keeps
  <2>3. Keeps(k, broken, n) /\ n.result.kind # "allow"
    BY <2>1, <2>2, TechnicalOK
  <2> QED
    BY <1>3, <1>4, <2>3, KeepsOn DEF Keeps, n
<1>6. CASE ~k.storeFailed
  BY <1>1, <1>3, <1>4, <1>6 DEF n
<1> QED
  BY <1>5, <1>6

LEMMA FreshActionOK ==
    ASSUME NEW k, NEW d, DecisionOK(k, d)
    PROVE  /\ Keeps(k, d, FreshAction(k, d))
           /\ d.result.kind # "allow" => FreshAction(k, d) = d
           /\ FreshParams(k, d) \in {"captured", k.params}
<1>1. CASE d.result.kind = "allow" /\ k.changed
  <2> DEFINE n == Now(Failure("invalid_judge_response"), "failure")
  <2>1. ResultOK(n.result) /\ n.result.kind = "failure" /\ n.source = "failure"
    BY HostResultsOK, NowFields DEF FailureCodes
  <2>2. FreshAction(k, d) = n
    BY <1>1 DEF FreshAction
  <2> HIDE DEF n
  <2> QED
    BY <1>1, <2>1, <2>2 DEF Keeps, DecisionOK, FreshParams
<1>2. CASE ~(d.result.kind = "allow" /\ k.changed)
  <2>1. FreshAction(k, d) = d
    BY <1>2 DEF FreshAction
  <2> QED
    BY <1>2, <2>1, KeepsItself DEF FreshParams
<1> QED
  BY <1>1, <1>2

LEMMA SecondReadOK ==
    ASSUME NEW k, NEW d, DecisionOK(k, d)
    PROVE  Keeps(k, d, SecondRead(k, d))
  BY DenialOK, KeepsItself, TechnicalOK DEF SecondRead

(* An allow of a tracked call is one the store accepted.                    *)
LEMMA RecordedOK ==
    ASSUME NEW k, NEW d, DecisionOK(k, d), k.judge \in JudgeOrNone
    PROVE  LET n == Recorded(k, d)
           IN  /\ Keeps(k, d, n)
               /\ n.result.kind = "allow" => k.judge.authorization = "high"
<1> DEFINE n == Recorded(k, d)
<1>1. CASE ~k.tracked
  <2>1. n = d
    BY <1>1 DEF Recorded
  <2> QED
    BY <1>1, <2>1, KeepsItself DEF DecisionOK
<1>2. CASE k.tracked /\ (~Accepted(k, d) \/ StatusRefused(k, d))
  <2>1. n = TechnicalFailure(d.result, d.source)
    BY <1>2 DEF Recorded
  <2> QED
    BY <2>1, TechnicalOK
<1>3. CASE /\ k.tracked /\ Accepted(k, d) /\ ~StatusRefused(k, d)
           /\ AlreadyTripped(store, k.run, now) /\ ~ShadowAssessmentFailure(k)
  <2>1. n = Now(RepeatedDenials, "circuit_breaker")
    BY <1>3 DEF Recorded
  <2>2. n.result.kind = "deny"
    BY <2>1, HostResultsOK, NowFields
  <2> QED
    BY <2>1, <2>2, DenialOK
<1>4. CASE /\ k.tracked /\ Accepted(k, d) /\ ~StatusRefused(k, d)
           /\ ~(AlreadyTripped(store, k.run, now) /\ ~ShadowAssessmentFailure(k))
  <2>1. n = d
    BY <1>4 DEF Recorded
  <2>2. d.result.kind = "allow" => k.judge.authorization = "high"
    BY <1>4, AcceptedAllow DEF Accepted, DecisionOK
  <2> QED
    BY <2>1, <2>2, KeepsItself
<1> QED
  BY <1>1, <1>2, <1>3, <1>4

-----------------------------------------------------------------------------
(* The decision of a call from the result it is concluded with: after the   *)
(* candidates, before it is recorded, and as it is delivered.               *)
JudgedCall(k, judge) == [k EXCEPT !.judge = judge]

First(k, result, judge) ==
    Candidates(JudgedCall(k, judge),
               Now(result, OrdinaryDecisionSource(result, judge)))

Before(k, result, judge) ==
    SecondRead(JudgedCall(k, judge),
               FreshAction(JudgedCall(k, judge), First(k, result, judge)))

After(k, result, judge) ==
    Recorded(JudgedCall(k, judge), Before(k, result, judge))

LEMMA JudgedFields ==
    ASSUME NEW k, DOMAIN k = CallFields, NEW judge
    PROVE  LET kj == JudgedCall(k, judge)
           IN  /\ kj.judge = judge /\ kj.run = k.run /\ kj.tracked = k.tracked
               /\ kj.hard = k.hard /\ kj.params = k.params
               /\ kj.routeFailed = k.routeFailed
               /\ kj.storeFailed = k.storeFailed
  BY DEF JudgedCall, CallFields

(* What concluding leaves behind.                                           *)
LEMMA ConcludeShape ==
    ASSUME DOMAIN calls = Calls, NEW c \in Calls, NEW k, NEW result, NEW judge,
           Conclude(c, k, result, judge)
    PROVE  /\ DOMAIN calls' = Calls
           /\ \A b \in Calls \ {c} : calls'[b] = calls[b]
           /\ now' = now /\ config' = config
           /\ store' = StoreAfter(JudgedCall(k, judge), Before(k, result, judge))
           /\ DOMAIN calls'[c] = CallFields
           /\ calls'[c].pc = "auditing" /\ calls'[c].run = k.run
           /\ calls'[c].tracked = k.tracked /\ calls'[c].hard = k.hard
           /\ calls'[c].routeFailed = k.routeFailed
           /\ calls'[c].judge = judge /\ calls'[c].bridge = Null
           /\ calls'[c].result = After(k, result, judge).result
           /\ calls'[c].source = After(k, result, judge).source
           /\ calls'[c].hook = MapVerdict(config, After(k, result, judge).result)
           /\ calls'[c].params =
                FreshParams(JudgedCall(k, judge), First(k, result, judge))
<1> DEFINE kj == JudgedCall(k, judge)
           first == First(k, result, judge)
           before == Before(k, result, judge)
           after == After(k, result, judge)
           n == [Idle EXCEPT !.pc = "auditing", !.run = k.run,
                   !.tracked = k.tracked, !.active = k.active,
                   !.hard = k.hard, !.routeFailed = k.routeFailed,
                   !.judge = judge, !.result = after.result,
                   !.source = after.source,
                   !.hook = MapVerdict(config, after.result),
                   !.params = FreshParams(kj, first)]
<1>1. calls' = [calls EXCEPT ![c] = n] /\ store' = StoreAfter(kj, before)
      /\ now' = now /\ config' = config
  BY DEF Conclude, First, Before, After, JudgedCall
<1> HIDE DEF kj, first, before, after
<1>2. DOMAIN n = DOMAIN Idle
      /\ n.pc = "auditing" /\ n.run = k.run /\ n.tracked = k.tracked
      /\ n.hard = k.hard /\ n.routeFailed = k.routeFailed /\ n.judge = judge
      /\ n.bridge = Idle.bridge /\ n.result = after.result
      /\ n.source = after.source /\ n.hook = MapVerdict(config, after.result)
      /\ n.params = FreshParams(kj, first)
  BY IdleFields DEF CallFields
<1> HIDE DEF n
<1>3. calls'[c] = n /\ DOMAIN calls' = Calls
      /\ \A b \in Calls \ {c} : calls'[b] = calls[b]
  BY <1>1
<1> QED
  BY <1>1, <1>2, <1>3, IdleFields DEF kj, first, before, after

(* What a call must bring to be concluded.                                  *)
Concludable(k, result, judge) ==
    /\ DOMAIN k = CallFields
    /\ k.run \in Runs
    /\ k.params \in {"captured", "empty"}
    /\ judge \in Answers \cup {NoVerdict}
    /\ DecisionOK(JudgedCall(k, judge),
                  Now(result, OrdinaryDecisionSource(result, judge)))

LEMMA ConcludedDecision ==
    ASSUME NEW k, NEW result, NEW judge, Concludable(k, result, judge)
    PROVE  LET kj == JudgedCall(k, judge)
               first == First(k, result, judge)
               before == Before(k, result, judge)
               after == After(k, result, judge)
           IN  /\ DecisionOK(kj, before)
               /\ DecisionOK(kj, after)
               /\ after.result.kind = "allow" => judge.authorization = "high"
               /\ ~Shadow /\ k.hard => after.result.kind = "deny"
               /\ k.storeFailed => before.result.kind # "allow"
               /\ FreshParams(kj, first) \in {"captured", "empty"}
               /\ after.result.kind = "allow" => FreshParams(kj, first) = "captured"
<1> DEFINE kj == JudgedCall(k, judge)
           ordinary == Now(result, OrdinaryDecisionSource(result, judge))
           first == First(k, result, judge)
           fresh == FreshAction(kj, first)
           before == Before(k, result, judge)
           after == After(k, result, judge)
<1>1. DecisionOK(kj, ordinary) /\ judge \in JudgeOrNone
  BY AnswersAreVerdicts DEF Concludable
<1>2. /\ kj.judge = judge /\ kj.tracked = k.tracked /\ kj.hard = k.hard
      /\ kj.params = k.params /\ kj.storeFailed = k.storeFailed
      /\ k.params \in {"captured", "empty"}
  BY JudgedFields DEF Concludable
<1> HIDE DEF kj
<1>3. first = Candidates(kj, ordinary)
  BY DEF First, kj
<1>4. before = SecondRead(kj, fresh)
  BY DEF Before, kj
<1>5. after = Recorded(kj, before)
  BY DEF After, kj
<1> HIDE DEF ordinary, first, fresh, before, after
<1>6. /\ Keeps(kj, ordinary, first)
      /\ ~Shadow /\ k.hard => first.result.kind = "deny"
      /\ k.storeFailed => first.result.kind # "allow"
  BY <1>1, <1>2, <1>3, CandidatesOK
<1>7. /\ Keeps(kj, first, fresh)
      /\ first.result.kind # "allow" => fresh = first
      /\ FreshParams(kj, first) \in {"captured", k.params}
  BY <1>2, <1>6, FreshActionOK DEF Keeps, fresh
<1>8. Keeps(kj, fresh, before)
  BY <1>4, <1>7, SecondReadOK DEF Keeps
<1>9. /\ Keeps(kj, before, after)
      /\ after.result.kind = "allow" => judge.authorization = "high"
  BY <1>1, <1>2, <1>5, <1>8, RecordedOK DEF Keeps
<1>10. k.storeFailed => before.result.kind # "allow"
  <2>1. CASE k.storeFailed
    <3>1. ~ReadsAgain(kj)
      BY <1>2, <2>1 DEF ReadsAgain
    <3>2. before = fresh /\ fresh = first
      BY <1>4, <1>6, <1>7, <2>1, <3>1 DEF SecondRead
    <3> QED
      BY <1>6, <2>1, <3>2
  <2> QED
    BY <2>1
<1>11. after.result.kind = "allow" => k.params = "captured"
  BY <1>2, <1>9 DEF Keeps, DecisionOK
<1> QED
  BY <1>2, <1>6, <1>7, <1>8, <1>9, <1>10, <1>11
     DEF Keeps, kj, first, before, after

-----------------------------------------------------------------------------
LEMMA StoreAfterSound ==
    ASSUME Sound(store), now \in Nat, NEW k, k.run \in Runs, NEW d
    PROVE  Sound(StoreAfter(k, d))
<1>1. CASE k.tracked /\ Accepted(k, d)
  <2>1. ClockValid(store, now) /\ DecisionMetadata(d.result, k.judge) \in Metadata
    BY <1>1 DEF Accepted, ValidMetadata
  <2> QED
    BY <1>1, <2>1, RecordSound DEF StoreAfter
<1>2. CASE ~(k.tracked /\ Accepted(k, d))
  BY <1>2, FindSound DEF StoreAfter
<1> QED
  BY <1>1, <1>2

(* The invariant after a step that only moves the call c.                   *)
LEMMA MovesOne ==
    ASSUME GInv, NEW c \in Calls, DOMAIN calls' = Calls,
           \A b \in Calls \ {c} : calls'[b] = calls[b],
           now' = now, config' = config, Sound(store'),
           CallOK(config, calls'[c])
    PROVE  GInv'
  BY DEF GInv

(* A call that is concluded is decided soundly, and so is the store.        *)
LEMMA ConcludeStep ==
    ASSUME GInv, NEW c \in Calls, NEW k, NEW result, NEW judge,
           Concludable(k, result, judge), Conclude(c, k, result, judge)
    PROVE  GInv'
<1> DEFINE kj == JudgedCall(k, judge)
           first == First(k, result, judge)
           before == Before(k, result, judge)
           after == After(k, result, judge)
           n == calls'[c]
<1>1. /\ Sound(store) /\ now \in Nat /\ DOMAIN calls = Calls
      /\ k.run \in Runs /\ judge \in Answers \cup {NoVerdict}
      /\ judge \in JudgeOrNone
  BY AnswersAreVerdicts DEF GInv, Concludable
<1>2. /\ DOMAIN calls' = Calls
      /\ \A b \in Calls \ {c} : calls'[b] = calls[b]
      /\ now' = now /\ config' = config
      /\ store' = StoreAfter(kj, before)
      /\ DOMAIN n = CallFields
      /\ n.pc = "auditing" /\ n.run = k.run
      /\ n.tracked = k.tracked /\ n.hard = k.hard
      /\ n.judge = judge /\ n.bridge = Null
      /\ n.result = after.result
      /\ n.source = after.source
      /\ n.hook = MapVerdict(config, after.result)
      /\ n.params = FreshParams(kj, first)
  BY <1>1, ConcludeShape
<1>3. kj.run = k.run /\ kj.judge = judge /\ kj.tracked = k.tracked
      /\ kj.params = k.params
  BY JudgedFields DEF Concludable
<1>4. /\ DecisionOK(kj, after)
      /\ after.result.kind = "allow" => judge.authorization = "high"
      /\ ~Shadow /\ k.hard => after.result.kind = "deny"
      /\ FreshParams(kj, first) \in {"captured", "empty"}
      /\ after.result.kind = "allow" => FreshParams(kj, first) = "captured"
  BY ConcludedDecision
<1> HIDE DEF kj, first, before, after, n
<1>5. Sound(store')
  BY <1>1, <1>2, <1>3, StoreAfterSound
<1>6. DecidedOK(config, n)
  BY <1>1, <1>2, <1>3, <1>4, NowFields DEF DecidedOK, DecisionOK, Shadow
<1>7. CallOK(config, n)
  BY <1>1, <1>2, <1>4, <1>6 DEF CallOK, AuditingOK
<1> QED
  BY <1>2, <1>5, <1>7, MovesOne DEF n

-----------------------------------------------------------------------------
(* The properties of a step that concludes the call c, for that call.       *)
BreakerRefuses(c) ==
    LET k == calls'[c]
    IN  /\ k.tracked /\ ClockValid(store, now)
        /\ IsTripped(store, k.run, now)
        /\ ~(k.routeFailed /\ Shadow)
        => k.result = RepeatedDenials /\ k.source = "circuit_breaker"

RecordTells(c) ==
    LET k == calls'[c]
    IN  /\ k.tracked /\ ClockValid(store, now)
        /\ ~(k.routeFailed /\ Shadow)
        /\ ~(k.source = "failure" /\ k.judge.decision = "review")
        => LastOutcome(store', k.run) = SelectFeedbackOutcome(k.result)

LEMMA ConcludeRefuses ==
    ASSUME GInv, NEW c \in Calls, NEW k, NEW result, NEW judge,
           Concludable(k, result, judge), Conclude(c, k, result, judge)
    PROVE  BreakerRefuses(c)
<1> DEFINE kj == JudgedCall(k, judge)
           before == Before(k, result, judge)
           after == After(k, result, judge)
           fresh == FreshAction(kj, First(k, result, judge))
           m == DecisionMetadata(before.result, kj.judge)
<1>1. /\ calls'[c].run = k.run /\ calls'[c].tracked = k.tracked
      /\ calls'[c].routeFailed = k.routeFailed
      /\ calls'[c].result = after.result /\ calls'[c].source = after.source
  BY ConcludeShape DEF GInv
<1>2. SUFFICES ASSUME k.tracked, ClockValid(store, now),
                      IsTripped(store, k.run, now), ~(k.routeFailed /\ Shadow)
               PROVE  after = Now(RepeatedDenials, "circuit_breaker")
  <2> HIDE DEF after
  <2> QED
    BY <1>1, NowFields DEF BreakerRefuses
<1>3. /\ kj.run = k.run /\ kj.judge = judge /\ kj.tracked = k.tracked
      /\ kj.routeFailed = k.routeFailed /\ kj.storeFailed = k.storeFailed
  BY JudgedFields DEF Concludable
<1>4. DecisionOK(kj, before) /\ (k.storeFailed => before.result.kind # "allow")
  BY ConcludedDecision
<1>5. judge \in JudgeOrNone
  BY AnswersAreVerdicts DEF Concludable
<1>6. before = SecondRead(kj, fresh) /\ after = Recorded(kj, before)
  BY DEF Before, After
<1> HIDE DEF kj, before, after, fresh
<1>7. before.result.kind # "allow"
  <2>1. CASE ~k.storeFailed
    <3>1. before = Now(RepeatedDenials, "circuit_breaker")
      BY <1>2, <1>3, <1>6, <2>1 DEF SecondRead, ReadsAgain, ShadowAssessmentFailure
    <3> QED
      BY <3>1, HostResultsOK, NowFields
  <2> QED
    BY <1>4, <2>1
<1>8. ValidMetadata(m)
  BY <1>3, <1>4, <1>5, <1>7, MetadataOK DEF DecisionOK
<1>9. Accepted(kj, before)
  BY <1>2, <1>8 DEF Accepted
<1>10. ~StatusRefused(kj, before) /\ AlreadyTripped(store, kj.run, now)
  BY <1>2, <1>3 DEF StatusRefused, NewlyTripped, AlreadyTripped
<1> QED
  BY <1>2, <1>3, <1>6, <1>9, <1>10 DEF Recorded, ShadowAssessmentFailure

LEMMA ConcludeTells ==
    ASSUME GInv, NEW c \in Calls, NEW k, NEW result, NEW judge,
           Concludable(k, result, judge), Conclude(c, k, result, judge)
    PROVE  RecordTells(c)
<1> DEFINE kj == JudgedCall(k, judge)
           before == Before(k, result, judge)
           after == After(k, result, judge)
           m == DecisionMetadata(before.result, judge)
<1>1. /\ calls'[c].run = k.run /\ calls'[c].tracked = k.tracked
      /\ calls'[c].routeFailed = k.routeFailed /\ calls'[c].judge = judge
      /\ calls'[c].result = after.result /\ calls'[c].source = after.source
      /\ store' = StoreAfter(kj, before)
  BY ConcludeShape DEF GInv
<1>2. SUFFICES ASSUME k.tracked, ClockValid(store, now),
                      ~(k.routeFailed /\ Shadow),
                      ~(after.source = "failure" /\ judge.decision = "review")
               PROVE  LastOutcome(store', k.run)
                        = SelectFeedbackOutcome(after.result)
  <2> HIDE DEF after
  <2> QED
    BY <1>1 DEF RecordTells
<1>3. /\ kj.run = k.run /\ kj.judge = judge /\ kj.tracked = k.tracked
      /\ kj.routeFailed = k.routeFailed
  BY JudgedFields DEF Concludable
<1>4. DecisionOK(kj, before) /\ DecisionOK(kj, after)
  BY ConcludedDecision
<1>5. judge \in JudgeOrNone /\ k.run \in Runs
  BY AnswersAreVerdicts DEF Concludable
<1>6. after = Recorded(kj, before)
  BY DEF After
<1>7. Sound(store) /\ now \in Nat
  BY DEF GInv
<1> HIDE DEF kj, before, after
<1>8. SelectFeedbackOutcome(after.result) = after.result.kind
  BY <1>4, OutcomeIsKind DEF DecisionOK
<1>9. ResultOK(before.result) /\ m.outcome = before.result.kind
      /\ (m.reason_code = "repeated_denials" <=> before.result = RepeatedDenials)
  BY <1>4, <1>5, MetadataOK DEF DecisionOK
<1>10. ASSUME ~Accepted(kj, before) PROVE FALSE
  <2>1. ~ValidMetadata(m)
    BY <1>2, <1>3, <1>10 DEF Accepted
  <2>2. before.result.kind = "allow"
        /\ ~(judge.risk = "low" /\ judge.authorization = "high")
    BY <1>5, <1>9, <2>1, MetadataOK
  <2>3. judge.decision = "review"
    BY <1>3, <1>4, <2>2 DEF DecisionOK, Grounds
  <2>4. after = TechnicalFailure(before.result, before.source)
    BY <1>2, <1>3, <1>6, <1>10 DEF Recorded
  <2>5. after.source = "failure"
    BY <1>4, <2>2, <2>4, TechnicalOK
  <2> QED
    BY <1>2, <2>3, <2>5
<1>11. m \in Metadata
  BY <1>3, <1>10 DEF Accepted, ValidMetadata
<1>12. store' = Record(store, k.run, m, now)
  BY <1>1, <1>2, <1>3, <1>10 DEF StoreAfter
<1>13. LastOutcome(store', k.run) =
         IF IsTripped(store, k.run, now) THEN "deny" ELSE m.outcome
  BY <1>2, <1>5, <1>7, <1>11, <1>12, LastRecorded DEF LastOutcome
<1>14. CASE StatusRefused(kj, before)
  <2>1. NewlyTripped(store, k.run, m, now)
        /\ (m.outcome # "deny" \/ m.reason_code = "repeated_denials")
    BY <1>3, <1>14 DEF StatusRefused
  <2>2. m.outcome = "deny"
    BY <1>2, <1>5, <1>7, <1>11, <2>1, TripsOnDenial
  <2>3. after = TechnicalFailure(before.result, before.source)
    BY <1>2, <1>3, <1>6, <1>14 DEF Recorded
  <2>4. after.result.kind = "deny"
    BY <1>4, <1>9, <2>2, <2>3, TechnicalOK
  <2> QED
    BY <1>8, <1>13, <2>2, <2>4
<1>15. CASE ~StatusRefused(kj, before) /\ IsTripped(store, k.run, now)
  <2>1. after = Now(RepeatedDenials, "circuit_breaker")
    BY <1>2, <1>3, <1>6, <1>10, <1>15
       DEF Recorded, AlreadyTripped, ShadowAssessmentFailure
  <2>2. after.result.kind = "deny"
    BY <2>1, HostResultsOK, NowFields
  <2> QED
    BY <1>8, <1>13, <1>15, <2>2
<1>16. CASE ~StatusRefused(kj, before) /\ ~IsTripped(store, k.run, now)
  <2>1. after = before
    BY <1>2, <1>3, <1>6, <1>10, <1>16 DEF Recorded, AlreadyTripped
  <2> QED
    BY <1>8, <1>9, <1>13, <1>16, <2>1
<1> QED
  BY <1>14, <1>15, <1>16

-----------------------------------------------------------------------------
(* What the action properties ask of a step, for every call it concludes.   *)
StepTells ==
    \A c \in Calls : Concludes(c) => BreakerRefuses(c) /\ RecordTells(c)

LEMMA ConcludeTold ==
    ASSUME GInv, NEW c \in Calls, NEW k, NEW result, NEW judge,
           Concludable(k, result, judge), Conclude(c, k, result, judge)
    PROVE  GInv' /\ StepTells
<1>1. BreakerRefuses(c) /\ RecordTells(c)
  BY ConcludeRefuses, ConcludeTells
<1>2. \A b \in Calls \ {c} : calls'[b] = calls[b]
  BY ConcludeShape DEF GInv
<1> QED
  BY <1>1, <1>2, ConcludeStep DEF StepTells, Concludes

(* A step that concludes no call.                                           *)
LEMMA QuietTells ==
    ASSUME \A c \in Calls : calls'[c] = calls[c] \/ calls'[c].pc # "auditing"
    PROVE  StepTells
  BY DEF StepTells, Concludes

(* A step that moves the call c to a state in which it is not yet, or no    *)
(* longer, being audited.                                                   *)
LEMMA QuietMove ==
    ASSUME GInv, NEW c \in Calls, NEW n, calls' = [calls EXCEPT ![c] = n],
           now' = now, config' = config, Sound(store'),
           CallOK(config, n), n.pc # "auditing"
    PROVE  GInv' /\ StepTells
<1>1. /\ DOMAIN calls' = Calls /\ calls'[c] = n
      /\ \A b \in Calls \ {c} : calls'[b] = calls[b]
  BY DEF GInv
<1>2. GInv'
  BY <1>1, MovesOne
<1>3. StepTells
  BY <1>1, QuietTells
<1> QED
  BY <1>2, <1>3

LEMMA NoVerdictFields ==
    NoVerdict.decision # "deny" /\ NoVerdict \in Answers \cup {NoVerdict}
  BY DEF NoVerdict, Null

(* A failure of the preparation or of the judge concludes any call.         *)
LEMMA FailureConcludes ==
    ASSUME NEW k, DOMAIN k = CallFields, k.run \in Runs,
           k.params \in {"captured", "empty"}, NEW code \in FailureCodes
    PROVE  Concludable(k, Failure(code), NoVerdict)
<1> DEFINE kj == JudgedCall(k, NoVerdict)
           source == OrdinaryDecisionSource(Failure(code), NoVerdict)
<1>1. kj.judge = NoVerdict
  BY JudgedFields
<1>2. ResultOK(Failure(code)) /\ Failure(code).kind = "failure"
  BY HostResultsOK
<1>3. source = "failure"
  BY <1>2 DEF OrdinaryDecisionSource
<1> HIDE DEF kj, source
<1>4. DecisionOK(kj, Now(Failure(code), source))
  BY <1>1, <1>2, <1>3, NowFields, NoVerdictFields DEF DecisionOK
<1> QED
  BY <1>4, NoVerdictFields DEF Concludable, kj, source

LEMMA FailureCodesAre ==
    "judge_unavailable" \in FailureCodes /\ "invalid_judge_response" \in FailureCodes
  BY DEF FailureCodes

-----------------------------------------------------------------------------
(* What a call begins with.                                                 *)
LEMMA BegunFields ==
    ASSUME NEW r, NEW s
    PROVE  LET k == Begun(r, s)
           IN  /\ DOMAIN k = CallFields
               /\ k.pc = "fetching" /\ k.run = r
               /\ k.tracked <=> s.problem # "untracked"
               /\ k.action = s.action
               /\ k.judge = NoVerdict /\ k.bridge = Null
               /\ k.params = IF s.problem = "action" THEN "empty" ELSE "captured"
               /\ k.tracked /\ ~k.storeFailed => ClockValid(store, now)
  BY IdleFields DEF Begun, CallFields, Idle

LEMMA BeginReviewStep ==
    ASSUME GInv, NEW c \in Calls, NEW r \in Runs, NEW s \in Situations,
           BeginReview(c, r, s)
    PROVE  GInv' /\ StepTells
<1> DEFINE k == Begun(r, s)
<1>1. /\ s.problem = "none"
      /\ calls' = [calls EXCEPT ![c] = k]
      /\ store' = IF k.storeFailed THEN store ELSE Find(store, r, now)
      /\ now' = now /\ config' = config
  BY DEF BeginReview, Consults
<1>2. s.action \in Traits
  BY GateAssumption DEF Situation
<1>3. /\ DOMAIN k = CallFields
      /\ k.pc = "fetching" /\ k.run = r /\ k.tracked
      /\ k.action = s.action /\ k.judge = NoVerdict /\ k.bridge = Null
      /\ k.params = "captured"
      /\ ~k.storeFailed => ClockValid(store, now)
  BY <1>1, BegunFields
<1> HIDE DEF k
<1>4. CallOK(config, k)
  BY <1>2, <1>3 DEF CallOK, PendingOK
<1>5. Sound(store')
  BY <1>1, <1>3, FindSound DEF GInv
<1> QED
  BY <1>1, <1>3, <1>4, <1>5, QuietMove

LEMMA BeginWithoutReviewStep ==
    ASSUME GInv, NEW c \in Calls, NEW r \in Runs, NEW s \in Situations,
           BeginWithoutReview(c, r, s)
    PROVE  GInv' /\ StepTells
<1> DEFINE k == Begun(r, s)
<1>1. PICK code \in FailureCodes : Unprepared(k, s) = Failure(code)
  BY FailureCodesAre DEF Unprepared
<1>2. Conclude(c, k, Failure(code), NoVerdict)
  BY <1>1 DEF BeginWithoutReview
<1>3. DOMAIN k = CallFields /\ k.run \in Runs /\ k.params \in {"captured", "empty"}
  BY BegunFields
<1> HIDE DEF k
<1>4. Concludable(k, Failure(code), NoVerdict)
  BY <1>3, FailureConcludes
<1> QED
  BY <1>2, <1>4, ConcludeTold

LEMMA FailsPending ==
    ASSUME GInv, NEW c \in Calls, Pending(c), NEW code \in FailureCodes,
           Conclude(c, calls[c], Failure(code), NoVerdict)
    PROVE  GInv' /\ StepTells
<1>1. DOMAIN calls[c] = CallFields /\ calls[c].run \in Runs
      /\ calls[c].params \in {"captured", "empty"}
  BY DEF GInv, CallOK, Pending, PendingOK
<1>2. Concludable(calls[c], Failure(code), NoVerdict)
  BY <1>1, FailureConcludes
<1> QED
  BY <1>2, ConcludeTold

LEMMA JudgeAnswersStep ==
    ASSUME GInv, NEW c \in Calls, NEW v \in Answers, JudgeAnswers(c, v)
    PROVE  GInv' /\ StepTells
<1> DEFINE k == calls[c]
           kj == JudgedCall(k, v)
           result == GuardedResult(v, k.action)
           source == OrdinaryDecisionSource(result, v)
<1>1. DOMAIN k = CallFields /\ PendingOK(k) /\ Conclude(c, k, result, v)
  BY DEF GInv, CallOK, JudgeAnswers
<1>2. v \in Verdicts /\ k.action \in Traits /\ k.tracked
      /\ k.params = "captured" /\ k.run \in Runs
  BY <1>1, GateAssumption DEF PendingOK
<1>3. kj.judge = v /\ kj.tracked = k.tracked /\ kj.params = k.params
  BY <1>1, JudgedFields
<1>4. /\ ResultOK(result)
      /\ result.kind = "deny" <=> v.decision = "deny"
      /\ result.kind = "allow" => Grounds(v) /\ source = "llm"
  BY <1>2, GuardedResultOK
<1>5. source \in {"failure", "local_downgrade", "llm"}
  BY DEF OrdinaryDecisionSource
<1> HIDE DEF k, kj, result, source
<1>6. DecisionOK(kj, Now(result, source))
  BY <1>2, <1>3, <1>4, <1>5, NowFields DEF DecisionOK
<1>7. Concludable(k, result, v)
  BY <1>1, <1>2, <1>6 DEF Concludable, kj, source
<1> QED
  BY <1>1, <1>7, ConcludeTold

LEMMA ResponseStep ==
    ASSUME GInv, NEW c \in Calls, ResponseArrives(c)
    PROVE  GInv' /\ StepTells
<1> DEFINE k == calls[c]
           n == [k EXCEPT !.pc = "reading"]
<1>1. calls' = [calls EXCEPT ![c] = n] /\ now' = now /\ config' = config
      /\ store' = store /\ k.pc = "fetching" /\ CallOK(config, k) /\ Sound(store)
  BY DEF ResponseArrives, GInv
<1>2. PendingOK(k) /\ DOMAIN k = CallFields
  BY <1>1 DEF CallOK
<1> HIDE DEF k
<1>3. /\ DOMAIN n = CallFields /\ n.pc = "reading" /\ n.run = k.run
      /\ n.tracked = k.tracked /\ n.action = k.action /\ n.judge = k.judge
      /\ n.params = k.params /\ n.bridge = k.bridge
  BY <1>2 DEF CallFields
<1> HIDE DEF n
<1>4. CallOK(config, n)
  BY <1>2, <1>3 DEF CallOK, PendingOK
<1> QED
  BY <1>1, <1>3, <1>4, QuietMove

LEMMA EventStep ==
    ASSUME GInv, NEW c \in Calls, EventChanges(c)
    PROVE  GInv' /\ StepTells
<1> DEFINE k == calls[c]
           n == [k EXCEPT !.changed = ~@]
<1>1. calls' = [calls EXCEPT ![c] = n] /\ now' = now /\ config' = config
      /\ store' = store /\ k.pc \in {"fetching", "reading"}
      /\ CallOK(config, k) /\ Sound(store)
  BY DEF EventChanges, GInv, Pending
<1>2. PendingOK(k) /\ DOMAIN k = CallFields
  BY <1>1 DEF CallOK
<1> HIDE DEF k
<1>3. /\ DOMAIN n = CallFields /\ n.pc = k.pc /\ n.run = k.run
      /\ n.tracked = k.tracked /\ n.action = k.action /\ n.judge = k.judge
      /\ n.params = k.params /\ n.bridge = k.bridge
  BY <1>2 DEF CallFields
<1> HIDE DEF n
<1>4. CallOK(config, n) /\ n.pc # "auditing"
  BY <1>1, <1>2, <1>3 DEF CallOK, PendingOK
<1> QED
  BY <1>1, <1>4, QuietMove

(* What a call that returns is told: FailOpen lets an autoapproved call run *)
(* after a technical failure and after nothing else.                        *)
LEMMA DeliverStep ==
    ASSUME GInv, NEW c \in Calls, Deliver(c)
    PROVE  GInv' /\ StepTells
<1> DEFINE k == calls[c]
           opened == FailOpen(k.active, k.result, k.hook)
           hook == Delivered(k.active, k.result, k.hook)
           told == IF k.active THEN BridgeDecision(k.active, k.result, k.hook) ELSE Null
           n == [k EXCEPT !.pc = "done", !.run = Null, !.routeFailed = FALSE,
                          !.hook = hook, !.bridge = told]
<1>1. calls' = [calls EXCEPT ![c] = n] /\ now' = now /\ config' = config
      /\ store' = store /\ k.pc = "auditing"
      /\ CallOK(config, k) /\ Sound(store)
  BY DEF Deliver, GInv
<1>2. /\ DecidedOK(config, k) /\ AuditingOK(config, k) /\ DOMAIN k = CallFields
      /\ k.judge \in Answers \cup {NoVerdict} /\ ResultOK(k.result)
  BY <1>1, NowFields DEF CallOK, DecidedOK, DecisionOK
<1>3. IF config.enforcement = "shadow" THEN k.hook = NoHookValue
      ELSE /\ k.hook.kind \in {"params", "block", "approval"}
           /\ k.hook.kind = "params" <=> k.result.kind = "allow"
           /\ k.result.kind = "deny" => k.hook.kind = "block"
  BY <1>2, MappedIs DEF AuditingOK
<1> HIDE DEF k
<1>4. \A kind, code : HookValue(kind, code).kind = kind
  BY DEF HookValue
<1>5. NoHookValue.kind = "undefined"
  BY DEF NoHookValue, HookValue
<1>6. /\ opened.kind # k.hook.kind =>
           k.active /\ k.result.kind = "failure" /\ opened.kind = "params"
      /\ opened = k.hook \/ opened.kind # k.hook.kind
  BY <1>4 DEF FailOpen, IsTechnicalJudgeFailure
<1>7. hook.kind = IF k.active /\ opened.kind = "approval" THEN "block"
                  ELSE opened.kind
  BY <1>4 DEF Delivered
<1>8. told = IF ~k.active THEN Null
             ELSE IF opened.kind = "params" THEN "allow-once" ELSE "deny"
  BY DEF BridgeDecision
<1> HIDE DEF opened, hook, told
<1>9. /\ DOMAIN n = CallFields /\ n.pc = "done" /\ n.run = Null
      /\ n.tracked = k.tracked /\ n.hard = k.hard /\ n.active = k.active
      /\ n.judge = k.judge /\ n.result = k.result /\ n.source = k.source
      /\ n.params = k.params /\ n.hook = hook /\ n.bridge = told
  BY <1>2 DEF CallFields
<1> HIDE DEF n
<1>10. DecidedOK(config, n)
  BY <1>2, <1>9, NowFields DEF DecidedOK, DecisionOK
<1>11. ReturnedOK(config, n)
  <2>1. hook.kind = "params" =>
          k.result.kind = "allow" \/ (k.result.kind = "failure" /\ k.active)
    BY <1>3, <1>5, <1>6, <1>7
  <2>2. ASSUME config.enforcement # "shadow", k.result.kind = "deny"
        PROVE  hook.kind = "block"
    BY <1>3, <1>6, <1>7, <2>2
  <2>3. ASSUME config.enforcement # "shadow"
        PROVE  IF ~k.active THEN told = Null
               ELSE /\ hook.kind # "approval"
                    /\ told = IF hook.kind = "params" THEN "allow-once"
                                                      ELSE "deny"
    BY <1>7, <1>8, <2>3
  <2> QED
    BY <1>9, <2>1, <2>2, <2>3 DEF ReturnedOK
<1>12. CallOK(config, n)
  BY <1>2, <1>8, <1>9, <1>10, <1>11 DEF CallOK, DecidedOK
<1> QED
  BY <1>1, <1>9, <1>12, QuietMove

-----------------------------------------------------------------------------
LEMMA GateInit == Init => GInv
<1> SUFFICES ASSUME Init PROVE GInv
  OBVIOUS
<1>1. now = 0 /\ store = EmptyStore(now) /\ config \in Configurations
      /\ calls = [c \in Calls |-> Idle]
  BY DEF Init
<1>2. Sound(store)
  BY <1>1, EmptyStoreSound
<1> QED
  BY <1>1, <1>2, IdleOK DEF GInv

LEMMA GateStep == GInv /\ [Next]_gvars => GInv' /\ StepTells
<1> SUFFICES ASSUME GInv, [Next]_gvars PROVE GInv' /\ StepTells
  OBVIOUS
<1>1. ASSUME NEW c \in Calls, NEW s \in Situations, Bypass(c, s)
      PROVE  GInv' /\ StepTells
  BY <1>1, IdleOK, IdleFields, QuietMove DEF Bypass, GInv
<1>2. ASSUME NEW c \in Calls, ReviewTimesOut(c)
      PROVE  GInv' /\ StepTells
  BY <1>2, FailsPending, FailureCodesAre DEF ReviewTimesOut, TimerRuns
<1>3. ASSUME NEW c \in Calls, ReviewFails(c)
      PROVE  GInv' /\ StepTells
  BY <1>3, FailsPending DEF ReviewFails
<1>4. ASSUME UNCHANGED <<store, config, calls>>, now' \in Nat
      PROVE  GInv' /\ StepTells
  BY <1>4, QuietTells DEF GInv
<1>5. CASE ClockAdvance
  BY <1>4, <1>5 DEF ClockAdvance, GInv
<1>6. CASE ClockStepBack
  BY <1>4, <1>6 DEF ClockStepBack, GInv
<1>7. CASE UNCHANGED gvars
  BY <1>4, <1>7 DEF gvars, GInv
<1> QED
  BY <1>1, <1>2, <1>3, <1>5, <1>6, <1>7, BeginReviewStep,
     BeginWithoutReviewStep, ResponseStep, JudgeAnswersStep, EventStep,
     DeliverStep DEF Next

(* GInv holds in every reachable state of the gate.                         *)
THEOREM GateSound == Spec => []GInv
<1>1. Init => GInv
  BY GateInit
<1>2. GInv /\ [Next]_gvars => GInv'
  BY GateStep
<1> QED
  BY <1>1, <1>2, PTL DEF Spec

(* The locals of every hook keep their shape, and the store its own.        *)
THEOREM GateTypeCorrect == Spec => []TypeOK
<1>1. GInv => TypeOK
  BY IdleFields DEF GInv, CallOK, TypeOK, Sound
<1> QED
  BY <1>1, GateSound, PTL

(* A tool runs on an accepted low-risk verdict for the very event that was  *)
(* hashed, or in an autoapproved chat after a technical failure, however    *)
(* many calls are gated at once and whoever writes to the event meanwhile.  *)
THEOREM AllowsStandOnVerdicts == Spec => []RunsAreGrounded
<1>1. ASSUME GInv, NEW c \in Calls, calls[c].pc = "done",
             calls[c].hook.kind = "params"
      PROVE  LET k == calls[c]
             IN  \/ /\ k.result.kind = "allow"
                    /\ k.source = "llm"
                    /\ k.tracked
                    /\ k.judge.decision \in {"allow", "review"}
                    /\ k.judge.risk = "low" /\ k.judge.authorization = "high"
                    /\ k.params = "captured"
                 \/ /\ k.result.kind = "failure" /\ k.active
                    /\ k.params \in {"captured", "empty"}
  <2>1. DecidedOK(config, calls[c]) /\ ReturnedOK(config, calls[c])
    BY <1>1 DEF GInv, CallOK
  <2> QED
    BY <1>1, <2>1, NowFields DEF DecidedOK, DecisionOK, Grounds, ReturnedOK
<1>2. GInv => RunsAreGrounded
  BY <1>1 DEF RunsAreGrounded, Returned
<1> QED
  BY <1>2, GateSound, PTL

(* What the judge denied, what lies beyond a hard boundary and what a       *)
(* tripped breaker refused is blocked, whatever fails in between.           *)
THEOREM DenialsStand == Spec => []DenialsAreFinal
<1>1. ASSUME GInv, NEW c \in Calls, calls[c].pc = "done", ~Shadow,
             \/ calls[c].hard \/ calls[c].judge.decision = "deny"
             \/ calls[c].source = "circuit_breaker"
      PROVE  calls[c].hook.kind = "block"
  <2>1. DecidedOK(config, calls[c]) /\ ReturnedOK(config, calls[c])
    BY <1>1 DEF GInv, CallOK
  <2>2. calls[c].result.kind = "deny"
    BY <1>1, <2>1, NowFields DEF DecidedOK, DecisionOK, Shadow
  <2> QED
    BY <1>1, <2>1, <2>2 DEF ReturnedOK, Shadow
<1>2. GInv => DenialsAreFinal
  BY <1>1 DEF DenialsAreFinal, Returned
<1> QED
  BY <1>2, GateSound, PTL

(* The bridge is told what the hook returned.                               *)
THEOREM BridgeIsToldTheHook == Spec => []BridgeAgreesWithHook
<1>1. GInv => BridgeAgreesWithHook
  BY DEF GInv, CallOK, ReturnedOK, BridgeAgreesWithHook, Returned, Shadow
<1> QED
  BY <1>1, GateSound, PTL

(* No call of a tripped run is decided otherwise than as a repeated denial, *)
(* although other calls tripped the run while the judge was thinking.       *)
THEOREM OpenBreakerHolds == Spec => BreakerHolds
<1>1. GInv /\ [Next]_gvars => [NothingPassesOpenBreaker]_gvars
  BY GateStep DEF StepTells, BreakerRefuses, NothingPassesOpenBreaker
<1> QED
  BY <1>1, GateSound, PTL DEF Spec, BreakerHolds

(* A decision adds the outcome it is delivered with to the run's history.   *)
THEOREM HistoryTells == Spec => HistoryTellsOutcomes
<1>1. GInv /\ [Next]_gvars => [RecordsWhatItTells]_gvars
  BY GateStep DEF StepTells, RecordTells, RecordsWhatItTells
<1> QED
  BY <1>1, GateSound, PTL DEF Spec, HistoryTellsOutcomes
=============================================================================
