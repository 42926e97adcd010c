----------------------------- MODULE AgentChat -----------------------------
(***************************************************************************)
(* The plugin beside an A2A gateway: the trusted requests that             *)
(* before_model_resolve captures (src/plugin.js, src/context-store.js),    *)
(* the autoapprove marks and pending verdicts (src/autoapprove-store.js),  *)
(* and the wrapped requestApproval of the gateway's bridge                 *)
(* (src/a2a-bridge-adapter.js).  The gate is reduced to what the bridge    *)
(* sees of it: it reads the marks and the request once, before it awaits   *)
(* anything, and puts a verdict, of either kind, when it is done.  The     *)
(* deployment is the one with HITL replace, where unmarked chats are not   *)
(* gated.                                                                  *)
(*                                                                         *)
(* The gateway is external: it may register its bridge late, put a fresh   *)
(* one in its place, and ask for an approval while the gate still judges.  *)
(***************************************************************************)
EXTENDS ExpiringMaps, Sequences

CONSTANTS
    Runs, Sessions, Calls,
    SessionOf,       \* the session a run belongs to
    RunOf,           \* the run a call belongs to
    Prompts,         \* the prompts runs may start with: run, marked, trusted
    TtlMs,           \* how long requests, marks and verdicts are kept
    MaxEntries,      \* how many each map keeps
    PollAttempts,    \* looks at the board before an approval fails open
    AttachAttempts,  \* retries of the attachment after the first try
    MaxClock,        \* bounds for TLC, on the clock
    MaxCaptures      \* ... and on the prompts captured

None == "none"

ASSUME ChatAssumption ==
    /\ SessionOf \in [Runs -> Sessions]
    /\ RunOf \in [Calls -> Runs]
    /\ Prompts \subseteq [run: Runs, marked: BOOLEAN, trusted: BOOLEAN]
    /\ TtlMs \in Nat \ {0} /\ MaxEntries \in Nat \ {0}
    /\ PollAttempts \in Nat \ {0} /\ AttachAttempts \in Nat
    /\ MaxClock \in Nat /\ MaxCaptures \in Nat

VARIABLES
    now,        \* Date.now
    byRun,      \* the context store's request per run
    bySession,  \* ... and the latest per session
    runMarks, sessionMarks,   \* autoapprove marks
    decisions,  \* verdicts put for the bridge, by call
    bridge,     \* the gateway's bridge: absent, plain or wrapped
    retries,    \* tries to attach that are still to come
    calls,      \* [Calls -> what the gate and the bridge do with a call]
    captures    \* history: the trusted requests captured, and when

stores == <<byRun, bySession, runMarks, sessionMarks, decisions>>
chatvars == <<now, stores, bridge, retries, calls, captures>>

NewCall == [gate |-> "idle", intent |-> None, verdict |-> None, putAt |-> 0,
            late |-> FALSE, asked |-> "no", looks |-> 0, answer |-> None]

Init ==
    /\ now = 0
    /\ byRun = EmptyMap /\ bySession = EmptyMap
    /\ runMarks = EmptyMap /\ sessionMarks = EmptyMap
    /\ decisions = EmptyMap
    /\ bridge = "absent"
    /\ retries = AttachAttempts
    /\ calls = [c \in Calls |-> NewCall]
    /\ captures = <<>>

-----------------------------------------------------------------------------
(* The first prompt of a run, with or without the autoapprove marker.  The *)
(* marks are set even when what the marker leaves is no trusted request.   *)
CaptureTrustedIntent(p) ==
    LET r == p.run
        s == SessionOf[r]
    IN  /\ Len(captures) < MaxCaptures
        /\ runMarks' = IF p.marked THEN Put(runMarks, r, TRUE, now, TtlMs, MaxEntries)
                                 ELSE runMarks
        /\ sessionMarks' = IF p.marked
                           THEN Put(sessionMarks, s, TRUE, now, TtlMs, MaxEntries)
                           ELSE sessionMarks
        /\ IF p.trusted
           THEN /\ byRun' = Put(byRun, r, r, now, TtlMs, MaxEntries)
                /\ bySession' = Put(bySession, s, r, now, TtlMs, MaxEntries)
                /\ captures' = Append(captures, [run |-> r, at |-> now])
           ELSE UNCHANGED <<byRun, bySession, captures>>
        /\ UNCHANGED <<now, decisions, bridge, retries, calls>>

IsActive(r) == Has(runMarks, r, now) \/ Has(sessionMarks, SessionOf[r], now)

(* isActive prunes the run marks, and the session marks when it needs them. *)
ReadMarks(r) ==
    /\ runMarks' = Prune(runMarks, now)
    /\ sessionMarks' = IF Has(runMarks, r, now) THEN sessionMarks
                       ELSE Prune(sessionMarks, now)

(* Mutant: the session is asked first. *)
SessionPromptFirst(r) ==
    IF Has(bySession, SessionOf[r], now) THEN Lookup(bySession, SessionOf[r])
    ELSE IF Has(byRun, r, now) THEN Lookup(byRun, r) ELSE None

GetStoredPrompt(r) ==
    IF Has(byRun, r, now) THEN Lookup(byRun, r)
    ELSE IF Has(bySession, SessionOf[r], now) THEN Lookup(bySession, SessionOf[r])
    ELSE None

GateBegins(c) ==
    LET r == RunOf[c]
    IN  /\ calls[c].gate = "idle"
        /\ ReadMarks(r)
        /\ IF IsActive(r)
           THEN /\ calls' = [calls EXCEPT ![c].gate = "judging",
                                          ![c].intent = GetStoredPrompt(r)]
                /\ byRun' = Prune(byRun, now)
                /\ bySession' = Prune(bySession, now)
           ELSE /\ calls' = [calls EXCEPT ![c].gate = "bypassed"]
                /\ UNCHANGED <<byRun, bySession>>
        /\ UNCHANGED <<now, decisions, bridge, retries, captures>>

MayLook(c) == calls[c].looks < PollAttempts

(* Mutant: verdicts are filed by session. *)
BoardKeyOfSession(c) == SessionOf[RunOf[c]]

(* resolveCallIdForBridge: the tool call's id, which the calls in flight do *)
(* not share.                                                              *)
BoardKey(c) == c

(* putDecision, by the gate's delivery.  putAt and late are history: when   *)
(* the verdict was put, and whether a request had had its last look.       *)
GateDelivers(c, verdict) ==
    /\ calls[c].gate = "judging"
    /\ decisions' = Put(decisions, BoardKey(c), verdict, now, TtlMs, MaxEntries)
    /\ calls' = [calls EXCEPT ![c].gate = "judged", ![c].intent = None,
                              ![c].verdict = verdict,
                              ![c].putAt = IF calls[c].asked = "answered"
                                           THEN 0 ELSE now,
                              ![c].late = calls[c].asked = "waiting"
                                            /\ ~MayLook(c)]
    /\ UNCHANGED <<now, byRun, bySession, runMarks, sessionMarks, bridge, retries,
                   captures>>

-----------------------------------------------------------------------------
Answer(c, answer) ==
    calls' = [calls EXCEPT ![c].asked = "answered", ![c].answer = answer,
                           ![c].looks = 0, ![c].putAt = 0, ![c].late = FALSE]

(* One look at the board: takeDecision when there is a verdict. *)
Look(c, looks) ==
    /\ decisions' = Without(Prune(decisions, now), BoardKey(c))
    /\ IF Has(decisions, BoardKey(c), now)
       THEN Answer(c, Lookup(decisions, BoardKey(c)))
       ELSE calls' = [calls EXCEPT ![c].asked = "waiting", ![c].looks = looks]

(* The gateway asks: its own bridge, or a wrapper that knows the chat.  The *)
(* judge's hook has the higher priority, so it has at least begun.  A      *)
(* request without a call id has no verdict to wait for.                   *)
RequestApproval(c, identified) ==
    LET r == RunOf[c]
    IN  /\ bridge # "absent"
        /\ calls[c].asked = "no" /\ calls[c].gate # "idle"
        /\ IF bridge = "plain"
           THEN Answer(c, "human") /\ UNCHANGED stores
           ELSE /\ ReadMarks(r)
                /\ IF ~IsActive(r)
                   THEN Answer(c, "human") /\ UNCHANGED decisions
                   ELSE IF ~identified
                   THEN Answer(c, "unidentified") /\ UNCHANGED decisions
                   ELSE Look(c, 1)
                /\ UNCHANGED <<byRun, bySession>>
        /\ UNCHANGED <<now, bridge, retries, captures>>

(* A sleep of waitForBridgeDecision is over.  After the last one nothing is *)
(* looked at any more: the request fails open.                             *)
PollAgain(c) ==
    /\ calls[c].asked = "waiting"
    /\ IF MayLook(c)
       THEN Look(c, calls[c].looks + 1)
       ELSE Answer(c, "unanswered") /\ UNCHANGED decisions
    /\ UNCHANGED <<now, byRun, bySession, runMarks, sessionMarks, bridge, retries,
                   captures>>

-----------------------------------------------------------------------------
(* attachA2ABridgeAdapter: the store pointer is refreshed and a bridge that *)
(* is not wrapped yet is wrapped.                                          *)
Attached == IF bridge = "plain" THEN "wrapped" ELSE bridge

(* The tries of scheduleA2ABridgeAttach, while the bridge is not there. *)
AttachTimer ==
    /\ retries > 0
    /\ bridge' = Attached
    /\ retries' = IF bridge # "absent" THEN 0 ELSE retries - 1
    /\ UNCHANGED <<now, stores, calls, captures>>

(* register again, in the middle of runs: the stores live in the process.  *)
(* A timer of the earlier registration does nothing the new one's does not. *)
Register ==
    /\ bridge' = Attached
    /\ retries' = IF bridge # "absent" THEN retries ELSE AttachAttempts
    /\ UNCHANGED <<now, stores, calls, captures>>

(* The gateway registers its bridge, or a new one in the place of the old. *)
GatewayRegisters ==
    /\ bridge' = "plain"
    /\ UNCHANGED <<now, stores, retries, calls, captures>>

ClockAdvance ==
    /\ now < MaxClock
    /\ now' = now + 1
    /\ UNCHANGED <<stores, bridge, retries, calls, captures>>

Next ==
    \/ \E p \in Prompts : CaptureTrustedIntent(p)
    \/ \E c \in Calls : GateBegins(c)
    \/ \E c \in Calls, verdict \in {"allow-once", "deny"} : GateDelivers(c, verdict)
    \/ \E c \in Calls, identified \in BOOLEAN : RequestApproval(c, identified)
    \/ \E c \in Calls : PollAgain(c)
    \/ AttachTimer
    \/ Register
    \/ GatewayRegisters
    \/ ClockAdvance

Spec == Init /\ [][Next]_chatvars

-----------------------------------------------------------------------------
(* A map holds at most MaxEntries of the keys that may be put, in an order. *)
MapOK(m, keys) ==
    /\ Keys(m) \subseteq keys /\ Cardinality(Keys(m)) <= MaxEntries
    /\ \A k, q \in Keys(m) : k # q => (<<k, q>> \in m.older <=> <<q, k>> \notin m.older)

(* The maps stay within their bound and the calls have the shape the code   *)
(* gives them.                                                              *)
TypeOK ==
    /\ now \in Nat
    /\ bridge \in {"absent", "plain", "wrapped"}
    /\ retries \in 0 .. AttachAttempts
    /\ MapOK(byRun, Runs) /\ MapOK(runMarks, Runs)
    /\ MapOK(bySession, Sessions) /\ MapOK(sessionMarks, Sessions)
    /\ MapOK(decisions, Calls)
    /\ \A c \in Calls :
         LET k == calls[c]
         IN  /\ k.gate \in {"idle", "bypassed", "judging", "judged"}
             /\ k.intent \in Runs \cup {None}
             /\ k.verdict \in {"allow-once", "deny", None}
             /\ k.asked \in {"no", "waiting", "answered"}
             /\ k.looks \in 0 .. PollAttempts

(* The verdict of c may be gone from the board when it is asked for: other  *)
(* verdicts crowded it out, or it was put TtlMs before.                     *)
Lost(c) ==
    \/ now - calls[c].putAt >= TtlMs
    \/ Cardinality({d \in Calls \ {c} : calls[d].verdict # None}) >= MaxEntries

(* The gateway gets the judge's verdict on the very call it asks about,     *)
(* however request, verdict and other calls interleave; it fails open only  *)
(* without one, or with one put after the last look at the board.           *)
HeardVerdict ==
    \A c \in Calls :
        LET k == calls[c]
            answer == calls'[c].answer
        IN  answer # k.answer =>
              /\ answer \in {"allow-once", "deny"} => answer = k.verdict
              /\ answer = "unanswered" /\ k.verdict # None => k.late \/ Lost(c)

VerdictIsHeard == [][HeardVerdict]_chatvars

(* A call is judged against the trusted request of its own run when that    *)
(* was captured within TtlMs and fewer than MaxEntries other runs captured  *)
(* one since.  Otherwise GetStoredPrompt asks the session, and the request  *)
(* is then the latest captured in the chat, an own one or another run's,    *)
(* never one that a later request of the chat replaced; and none is ever    *)
(* older than TtlMs.  The fallback is there for runs whose ids the gateway  *)
(* changes on the way (test/context-store.test.js:15, src/plugin.js:560);   *)
(* CONTRACT.md:51 speaks of the exact run only.                             *)
Captured(r) == {i \in DOMAIN captures : captures[i].run = r}
Recent(i) == now - captures[i].at < TtlMs
RunsSince(i) == {captures[j].run : j \in i + 1 .. Len(captures)}
LatestOf(s, i) ==
    /\ SessionOf[captures[i].run] = s
    /\ \A j \in i + 1 .. Len(captures) : SessionOf[captures[j].run] # s

JudgedOnOwnOrLatest ==
    \A c \in Calls :
        LET r == RunOf[c]
            intent == calls'[c].intent
        IN  calls[c].gate = "idle" /\ calls'[c].gate = "judging" =>
              /\ (\E i \in Captured(r) :
                    Recent(i) /\ Cardinality(RunsSince(i) \ {r}) < MaxEntries)
                   => intent = r
              /\ intent # None =>
                   \E i \in Captured(intent) :
                      Recent(i) /\ (intent = r \/ LatestOf(SessionOf[r], i))

IntentIsOwnOrLatest == [][JudgedOnOwnOrLatest]_chatvars
=============================================================================
