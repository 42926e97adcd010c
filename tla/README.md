# A TLA+ model of the OpenClaw LLM action judge

The plugin `openclaw-llm-action-judge` sits in two hooks of an OpenClaw host.
`before_model_resolve` remembers what the user asked for; `before_tool_call`
asks a language model whether a tool call is what the user asked for, and
returns the parameters to run with, a block, or a request for a human's
approval.  Beside it, `evals/` holds the commands with which a model is chosen
for that task and measured.  This directory holds TLA+ modules for the parts
that keep state or decide something, the TLC configurations that check them on
small instances, and proofs, for every instance, about the circuit breaker, the
gate, the decision pipeline and the harness beside it, the chat with its
bridge, the audit writer, selection and holdout.  Paths like `plugin.js` are below the repository's `src/`,
paths like `aggregate.mjs` below `evals/lib/`.

- `PROJECT.json` says for every definition which lines it models (`map`), lists
  the runs, the hazards of the code with the properties that cover them, one
  mutation of the model per property that the property catches, and the
  theorems.
- `tlc -config X.cfg M` repeats a run (the table below has both names),
  `tlapm M.tla` the proofs of one of the modules `DecisionLemmas` and
  `*Proofs`.

## The system

| component | state | operations | interacts with |
|---|---|---|---|
| run decision store, `run-decision-store.js` | a Map from run to last access, bounded history, count of denials in a row, tripped; the last clock value | `isTripped`, `record`, `snapshot`, `size`; each reads the clock, forgets idle runs, and re-inserts what it touches | called by the gate, twice or three times per call |
| decision pipeline, `decision.js`, `feedback.js`, `judge-schema.js` | none | parse and normalise a verdict, downgrade for opaque parameters and for the tool tables, upgrade trusted observations, choose the feedback code, map to a hook value | called by the gate after the judge's answer, and by the harness |
| gate, `gateToolCall` in `plugin.js` | the locals of each hook in flight | one hook per tool call, awaiting the judge and the audit write | all others |
| judge client, `judge-client.js` | a timer per review | `review` | the gate; the model's HTTP endpoint |
| intent capture, `captureTrustedIntent` in `plugin.js`, `context-store.js`, `control-marker.js` | the trusted request per run and the latest per session, with expiry and eviction | `put`, `get`, `getBySession` (and the model ids, kept alike) | written by one hook, read by the other |
| autoapprove store, `autoapprove-store.js` | marked runs, marked sessions, verdicts waiting for the bridge | `markRun`, `markSession`, `isActive`, `putDecision`, `takeDecision`, `peekDecision` | capture, gate, bridge adapter |
| A2A bridge adapter, `a2a-bridge-adapter.js` | the wrapped `requestApproval` of a bridge that another plugin owns; a retry timer | attach, retry, wait for a verdict, answer | the gateway and the autoapprove store |
| policy routing, `policy-routing.js` | none, but it looks at the file system | three boundaries denied outright (own files and audit log, own configuration, secrets leaving the machine), two families known to be harmless, everything else to the judge | called by the gate before the review and again after it |
| local guard, the shell reader in `decision.js` | none | scan a command, drop redirections, look through prefixes and wrappers, judge each command | second thought about every allow of the judge |
| audit, `audit.js` | directories and files on the disk | build an event and check that its parts fit; walk to the file, open, check, append, close | each hook awaits its write |
| registration, `register` in `plugin.js`, `environment.js`, `config.js` | mode, enforcement, HITL replace; the stores are kept in the process | `register`, possibly again in mid-run | everything |
| evaluation contract, `attempt.mjs`, `candidate-preflight.mjs` | an attempt: a stored record of one answer | evaluate an answer, check a stored attempt; anchors of a preflight | repeats the pipeline's downgrades and upgrade in code of its own |
| candidate selection, `candidate-selection.mjs`, `selection-checkpoint.mjs`, `aggregate.mjs`, `selection-ranking.mjs` | checkpoint files, one artifact | workers over candidates, resume, aggregate, rank, publish | the contract; other invocations in the same directory |
| holdout, `holdout-*.mjs`, `artifacts.mjs` | a bundle of four files, an inference artifact, a directory of results | freeze, infer with workers, score | custodian, inference and scorer are different people |

What is hard here: hooks of several tool calls are in flight at once over one
decision store, and each has two awaits; the event object a hook was given
belongs to the caller, and the files it looked at to everybody; the host's clock
may be set back, after which the store throws; maps are bounded and forget; in
an autoapproved chat the same verdict has to reach the host (as a return value)
and the gateway (over the board), on two paths with different failure
behaviour; audit writes race down the same directories; a failure must not
soften what had been decided, but opens a tool in an autoapproved chat.  The readers of
patches and shell commands are written by hand beside the programs that will
read them.  In the harness every call costs money and the process may be killed
anywhere: what was paid for must be found again, and what is published must be
of one corpus, one candidate, one freeze.

What makes the parts correct, in a sentence each:

- *store*: a run trips exactly when what was submitted for it earns it, and
  only expiry, or eviction as the least recently used run, ends a trip;
- *pipeline*: an allow has two grounds and no third, and hook value, audit event
  and store metadata tell the same story;
- *gate*: nothing passes an open breaker, a denial stays a denial whatever fails
  afterwards, what runs is what was judged, and every call returns;
- *capture, board, bridge*: a call is judged on the request of its own run, or else
  on the latest of its chat, and the gateway hears the verdict on the very call it asks about;
- *routing and guard*: what a tool would really write, change or send is what
  the boundaries saw, and wrapping a command hides nothing;
- *audit writer*: its report is true and its losses are explained;
- *contract*: the harness decides as the gate does, and believes of a stored
  attempt only what it could have written;
- *selection, holdout*: no call twice, nothing published that is not whole.

## The modules

```
Vocabulary ─┬─ RunDecisions ─┬─ RunDecisionStore ── RunDecisionStoreLog ··implements·· CircuitBreaker
            │                └─ ActionGate (with Verdict)
            └─ Verdict ─┬─ DecisionPipeline
                        └─ Evaluation ─┬─ EvaluationContract (with DecisionPipeline)
                                       └─ Qualification ── CandidateSelection

PolicyRouting ─┐
ShellCommand ──┼─ GuardedCall                                   ExpiringMaps ── AgentChat
PatchGrammar ──┘

HoldoutDocuments ── Holdout                                     AuditWriter

RunDecisions ─┬─ DecisionLemmas ─┬─ RunDecisionStoreProofs (with RunDecisionStoreLog)
Verdict ──────┘                  ├─ ActionGateProofs (with ActionGate)
                                 └─ EvaluationContractProofs (with EvaluationContract)
```
AgentChat, AuditWriter, CandidateSelection and Holdout each have a module with
their proofs, `AgentChatProofs` and so on.
`MC*` modules extend the module they are named after with the small sets a run
uses.

**Vocabulary** has outcomes, risks, authorizations and reason codes, and the
metadata the store accepts.

**RunDecisions** has the operations of the decision store as operators on a
store value, one per idea of the code (`CleanupExpired`, `Touch`, `Find`,
`MakeRoom`, `Slide`, `RecordEntry`, `Record`).  A value has `runs`, `older`
(the Map's insertion order as a relation, because eviction takes the first key)
and `lastClock`.  Store and gate share it, so the proofs are about the
operators the gate uses.

**RunDecisionStore** is the store as `createRunDecisionStore` returns it: each
method is synchronous and so is one step; `isTripped` and `snapshot` are both
`Inspect`.  A call that throws changes nothing and takes no step.  `now` is
`Date.now`, which `ClockStepBack` sets back.

**CircuitBreaker** is what the store promises: for every known run the full log
of its outcomes, tripped exactly when a prefix of the log earned it, and runs
that may be forgotten whole.  It has no windows, counters or Map.
**RunDecisionStoreLog** adds the log to the store as a history variable and maps
the store to it.

**Verdict** is the pipeline as operators, in the order of the code:
`NormalizeVerdict`, `NormalizedSnapshot`, the opaque and local downgrades, the
trusted-observation upgrade, feedback code and outcome, `MapVerdict`, decision
source, metadata, `TechnicalFailure`, and `BuildAuditEvent` with its semantic
check.  `FailOpen`, `BridgeDecision` and `Delivered` are what comes after the
audit write (`plugin.js:1391-1435`): in a chat with the autoapprove marker a
technical failure is opened and an approval becomes a block, so the mapped value
and the one the hook returns are two things.  An action has three traits; `unsafe` stands for the tool tables of the
local guard (`decision.js:3508-3724`), whose only effect here is review or
no review.  Confidence is above or below the threshold.

**DecisionPipeline** runs one call through it in one step, up to what the hook
returns, for every input: verdict or failure code, traits, configuration, marker,
safe-path candidate, and one intervention (hard boundary, tripped at the start,
tripped later, or a technical failure).  Under enforcement the first two keep the
judge out (`Unasked`, `plugin.js:1103-1142`); in shadow it is asked all the same.
Its invariants speak of the delivered value, `Delivered`.

**ActionGate** is `gateToolCall`.  A hook's steps end where the code awaits:

| action | code |
|---|---|
| `Bypass` | HITL replace and an unmarked chat: `undefined` at once |
| `BeginReview` | from the start to `await review` |
| `BeginWithoutReview` | the same, and on to the audit, when nothing has to be asked: open breaker, hard boundary, invalid settings, failed preparation, no trusted request, no identity |
| `ResponseArrives`, `ReviewTimesOut`, `ReviewFails`, `JudgeAnswers` | how `review` ends; the last three go on to the start of the audit write (`Conclude`) |
| `EventChanges` | the caller writes to the event while the judge thinks |
| `Deliver` | from the end of the audit write to the return: fail-open, verdict for the bridge, no native approval, by the operators of `Verdict` |
| `ClockAdvance`, `ClockStepBack` | `Date.now` |

`Conclude` follows the code in order: candidates (`plugin.js:1257-1274`), fresh
action (1276-1298), second read of the breaker (1300-1314), map and record
(1331-1362).  Each is an operator that takes and returns result and source.
Within one synchronous turn the clock is read once.  `BeginWithoutReview` leaves
out the first read's touch, which the later calls of the same turn repeat.

**ExpiringMaps** is the Map that the context store and the autoapprove store
build on: prune, delete, set, evict the first key.  As in `RunDecisions`, a map
has its insertion order as a relation between its keys.

**AgentChat** joins capture, both stores and the bridge adapter.  The gate
is reduced to what they see of it: it reads marks and request when it begins and
puts a verdict, of either kind, when it is done.  The gateway is external: it
may register its bridge late or again (`GatewayRegisters`), and asks for an
approval of a call that the judge's hook, of higher priority, has begun.
`AttachTimer` is one firing of the retry timer, `Register` a second registration
in mid-run.  The deployment is the one with HITL replace, without which the
bridge behaves alike and every call is gated.

**PolicyRouting** is `assessPolicyRoute` and what it calls: the descriptions of
what each tool's parameters may be (a table from field to kind, as in the
code), the reader of patches as a recursive pass over lines, the configuration
boundary, the redactor's proof of a secret in what is sent, and the two safe
families.  A text is a member of a small set with the traits the code tests;
a path or URL is a name with tables for what it resolves to.

**ShellCommand** is the shell reader: `ShellTokenize` over pieces (the scanner's
characters, and runs of other characters), redirections, `CommandView` with the
option tables of the wrappers, and `ShellCommandRisk`, which is yes, no, or
`Nothing` for a source the scanner refuses.  `CommandRisk` has one operator per
group of programs; the tables of single programs in `decision.js` are sets of
names that always ask, ask for certain arguments, or do not.

**PatchGrammar** is the patch format as a grammar, from which all short patches
are generated with the files they write; it is the reference for the hand-written
reader and is translated from nothing but the line forms that reader accepts.
Headers are trimmed, and so may be indented outside the text of an update, while
within it an indented line is text whatever it looks like.  A path that is not
absolute is a file like any other.

**GuardedCall** puts these into one call: an agent writes its text line by line,
field by field or piece by piece; `FirstLook` assesses the route, files may
change while the judge thinks (`DiskChanges`), and `SecondLook` assesses it again
and asks the guard, which reads shell commands and looks at the paths a call
would write (`FileTargets`, for a patch those of its unindented headers; the
protected ones are the set `Reviewed`).  The judge is taken to allow everything, since anything else
is `DecisionPipeline`'s.

**AuditWriter** is `createAuditWriter`: one action per call of the file system
that `write` awaits, each of which may fail (`Fault`), for several writes at
once and a file that may be moved away.

**Evaluation** is what the harness makes of one answer and the checks a stored
attempt has to pass: in a resumed run, in an inference artifact, in the
aggregation; and the anchors of a preflight.  **EvaluationContract** lets gate
and harness see the same answer, and lets somebody change a part of the stored
attempt.

**Qualification** is the arithmetic of `aggregateQualification` and
`rankSelectionCandidates` over fractions with null, exact where the code has
doubles.  Attempts are counted as sets of their places; the k-th latency is the one
with fewer than k below it and at least k not above it, and a percentile
interpolates between two of them; a summary has the parts of the code's and
`IsRankable` a check for each.  A ranking is a permutation of the candidates whose
neighbours are not in the wrong order, which is what a sort leaves whatever its
comparison is; that it is then in order altogether is a property.
**CandidateSelection** has
the processes with the reads of their checkpoints, one step each and in any
order after the path of the artifact was looked at, their workers, the cursor that passes over resumed candidates,
the exclusive open of a checkpoint with the failures that leave none, a part or
all of it, abort, crash, and publication by link.

**HoldoutDocuments** has the documents and every check that binds one to another,
with a hash taken as the document it is the hash of.  **Holdout** has the
three commands as processes: freezes that link four files and undo, inference
with a shared cursor, scorers that reserve a directory and link their results.

## What the runs check

| run | module, cfg | instance | states | time |
|---|---|---|---|---|
| `store` | MCRunDecisionStoreLog, RunDecisionStoreLog | 3 runs in a store of 2, ttl 2, clock to 3, history 3, limits 2, logs to 4 | 579 k | 46 s |
| `pipeline` | EvaluationContract, DecisionPipeline | all verdicts over 3 of the 10 model codes, all traits, configurations, interventions, with and without the marker; one changed part of an attempt | 1.4 M | 33 s |
| `gate` | MCActionGate, ActionGate | 2 slots, 2 runs in a store of 1, limits 1, ttl 1, clock to 1 | 479 k | 65 s |
| `gatelive` | MCActionGate, ActionGateLive | 2 slots, 1 run, no clock | 1.6 k | 9 s |
| `chat` | MCAgentChat, AgentChat | 2 runs of one chat and 1 of another, 2 calls, maps of 2 entries, 2 looks, 1 retry, 3 captured prompts, clock to 1 | 4.9 M | 108 s |
| `calltext` | MCGuardedCall, GuardedCall | 23 drafts; patches of 4 lines, 3 added fields, 2 added pieces, 2 wrappings with the code's limit of 8 wrappers at 1 | 727 k | 26 s |
| `audit` | MCAuditWriter, AuditWriter | 3 writes, 3 directories, 1 fault, 1 rotation | 127 k | 3 s |
| `selection` | MCCandidateSelection, CandidateSelection | 2 processes of 2 workers, 2 candidates, 2 bindings, 3 starts | 732 k | 64 s |
| `holdout` | MCHoldout, Holdout | 2 freezes, 1 inference of 2 workers and 2 repeats, 2 scorers, 2 cases | 256 k | 72 s |

What they show:

- `store`: the store implements `CircuitBreaker` (`BreakerSpec`), its history is
  the end of the log, a trip survives all but forgetting the run; capacity,
  expiry, order and both limits hold.
- `pipeline`: an allow is the judge's or an upgraded observation
  (`AllowsAreGrounded`); who knows whether the chat has the marker reads off the
  audit event what the hook returned (`AuditAgreesWithHook`), the store takes the
  metadata; a store that fails after the decision loosens what is delivered for
  the reviews of an autoapproved chat and for nothing else
  (`FailureLoosensOnlyReviews`); harness and gate decide alike (`HarnessAgreesWithGate`), what the
  harness writes its checks accept (`ProducedIsAccepted`), and what they accept it
  could have written for that very case (`AcceptedIsProducible`).
- `gate`: what runs is what was judged, denials are final, the bridge is told what
  the hook returns, nothing passes an open breaker, the history says what was
  told.  `gatelive`: every call returns.
- `chat`: a gateway that hears a verdict hears the one on its call, and hears none
  only when it was lost in a way `Lost` names; a call is judged on the request
  of its own run as long as that is kept, and after that on the latest of its
  chat or none (`IntentIsOwnOrLatest`).
- `calltext`: `BoundariesHold` compares what passes with what the tool would do:
  patches with the grammar, configurations with what the change leaves in force,
  messages and URLs with what is transmitted, all on the files as they are when
  the call passes; and no patch is blocked that writes no protected file.  `WrappingHidesNothing`: a command that asks still asks behind
  any prefix or wrapper, or the source is refused.
- `audit`: `ReportIsTrue`, `LossIsExplained`.
- `selection`: only what is in no checkpoint is paid for; the artifact says what
  the checkpoints say; whatever was aggregated can be ranked; and the order
  holds between any two candidates.
- `holdout`: a freeze that reports success leaves one whole bundle; each call is
  paid for once and lands where the builder looks for it; what is scored is of
  one freeze; what was inferred can be scored; a reported score is whole.

Why the bounds are enough.  Nothing in the code depends on the size of a limit
other than by comparison with it, so limits of 1 to 3 have every relation that
3, 10, 50 and 1000 have.  `store` has more runs than fit, both trip conditions
below the history's length, a history that is shorter than its logs, and a
rolling limit that a series broken by an allow can still reach.  In `gate` two
concurrent calls of one run, or of two runs that evict each other, are the
smallest instance of every interference: a second call trips, evicts, or
expires what the first has read; the clock goes forth and back once.  `chat` has
three runs for maps of two, a clock that can outlive the ttl, and verdicts
before, between and after the looks.  A patch of four lines holds two hunks or
an update with its move; one wrapper behind the limit is what eight are behind
theirs.  Three audit writes are two that race and one that comes after; the
proofs cover all other numbers.  Two selection processes of two workers already
meet at every file, and three starts allow a resumption after a crash of both.
MaxClock, MaxLog, MaxCaptures, MaxStarts, MaxFaults and MaxRotations bound what
would otherwise grow without end.

Two of the three codes of `pipeline` are ones an upgrade may override and one is
not; the code treats the other seven as the third.

`CHECK_DEADLOCK FALSE` where the system really stops: `pipeline` takes a few steps
for one call; in `gate`, `gatelive` and `chat` the calls may all be done at
the clock's bound; in `calltext`, `audit`, `selection` and `holdout` the call, the
writes and the commands end.  The store can never stop, and its run checks that.

### Fairness

`gatelive` assumes `WF(ReviewTimesOut)`: the client sets its timer before the
request and races it against request and body, so it fires unless an answer
comes first; and `WF(Deliver)`: the audit write is file I/O that ends, well or
badly.  The code has no timeout for the latter, so a file system that never
answers would hang the hook, and no run here would show it: the hazard
(`plugin.js:1369`) is listed without a property.  Nothing is assumed of the judge,
the network, the caller, or the clock.  No other run has a liveness property:
nothing else in the code promises to end while others may hold it up.

### Exceptions the properties make

- When the judge's verdict has less than high authorization, the store refuses
  the metadata of a trusted-observation allow (`run-decision-store.js:193`), so
  such an allow ends as a technical failure.  `MetadataIsAccepted` excepts it.
- A shadow gate whose route assessment threw passes over the breaker
  (`plugin.js:1259-1265`); `BreakerHolds` excepts it.
- The second read of the breaker makes a difference only when the metadata of
  the decision is refused: `record` would report `already_tripped` otherwise.
- `HarnessAgreesWithGate` excepts upgrades that only the harness makes: it keeps
  the judge's reason, which `normalizedSnapshot` of the gate drops
  (`attempt.mjs:498` against `plugin.js:683-698`), and has no store that could
  refuse metadata.
- `ProducedIsAccepted` excepts upgraded reviews: see the run `rejected`.
- `BoundariesHold` excepts patches that write a protected file and also name a
  path that is not absolute: the code leaves them to the judge, see below.
- `AllowsAreGrounded` gives medium authorization no ground and an upgraded review
  with opaque parameters one, `RunsAreGrounded` has technical failure as a ground,
  and `DenialsAreFinal` speaks of denials and not of reviews: each is what the
  code does where a document says otherwise (`trusted`, `bridge`).
- `IntentIsOwnOrLatest` has the session fallback as its second case, see below.
- `WrappingHidesNothing` excepts commands with `-v`, `-V`, `--help` or
  `--version` in them, by which a wrapper is asked about itself.
- `BoundIsScorable` excepts prices of zero: inference accepts and pays for what
  scoring then refuses (`artifacts.mjs:289-297`).

### Where code and documents differ

Three runs expect a violation.  Each checks what the documents or tests say of one
operation and TLC finds a behaviour of the code against it:

- `trusted` checks what `CHANGELOG.md:7-11` says of trusted observations.  TLC
  shows an allow of medium authorization, refused by the local gate, that does not
  recover: `normalizedSnapshot` (`plugin.js:683-698`) drops the reason the upgrade
  looks for.  (`test/decision.test.js:3122-3132` tests the recovery on a result that
  still has it.)  The other half fails too: an observation with opaque parameters
  that the judge sent to review is upgraded to an allow, since
  `applyOpaqueDowngrade` (`decision.js:582`) looks at allows only.  What does
  hold is `AllowsAreGrounded`, whose equivalence shows both;
- `bridge` checks what `CONTRACT.md:248-249` says of an autoapproved chat: the
  gateway is told what the judge decided, and review and failure are denials.
  TLC shows a technical failure that is opened: the hook returns the parameters
  and the board says allow-once (`plugin.js:1391-1412`; the comment there and
  `test/plugin.test.js:2950` want it so).  Two more ways lead there.  A review
  is softened when the host's clock is set back while the judge thinks: `record`
  throws, the review becomes a technical failure, and that is opened
  (`plugin.js:1350-1355`); `FailureLoosensOnlyReviews` says that reviews are all
  this happens to.  And a shadow gate tells the bridge to deny every call, an
  allowed one too (`plugin.js:831`), though `README.md:165` has shadow influence
  nothing.  What does hold is `RunsAreGrounded`;
- `rejected`: the aggregation refuses an attempt that the harness has just
  evaluated, a review upgraded to an allow, and with it the whole paid run
  (`aggregate.mjs:237`, written for `test/eval-runner.test.js:384`).

In two more places a document contradicts what code and tests agree on; the
properties follow the tests and name the exception:

- `CONTRACT.md:51-52` ties a call to its request by the exact run and says there
  is no session fallback.  `getStoredPrompt` (`plugin.js:560-569`) has one, for
  gateways that change the run's id on the way
  (`test/context-store.test.js:15`).  `IntentIsOwnOrLatest` says how far it
  reaches: to the latest request of the chat, which may be another run's, and no
  further;
- `CONTRACT.md:109-111` has exact attempts at the plugin's own files blocked
  by a boundary that fails closed.  A patch of a shipped file that also names a
  path that is not absolute passes it (`policy-routing.js:523-527`), and runs
  when the judge allows it; `test/policy-routing.test.js:142-144` wants it left
  to the judge.  `BoundariesHold` excepts such patches in so many words.

Other observations.  Of the plugin:

- `CONTRACT.md:116-118` calls a trip irreversible, while expiry and eviction
  forget it (`TripSurvives` says when);
- the audit event of an upgraded review says failure (`audit.js:331`);
- a verdict that is put while the wrapper sleeps for the last time is not seen
  (`a2a-bridge-adapter.js:158`);
- a call that was not gated because its chat was unmarked is answered by the
  wrapper when the chat is marked in between (`a2a-bridge-adapter.js:78` against
  `CONTRACT.md:246-247`);
- when the audit file is in a subdirectory of the logs, two first writes race for
  its directory and one of the events is lost (`audit.js:596`).

Of the harness:

- a checkpoint write that fails midway leaves a partial file that blocks later
  runs until somebody removes it (`Clean` in `CandidateSelection`);
- a failing removal of the temporary name after the link is reported as a failure
  although the artifact is published;
- two overlapping invocations each pay for a candidate neither has finished;
- a crash between the links of a freeze leaves part of a bundle until it is
  cleared (`Clear` in `Holdout`); the directory of a killed scorer likewise.

## What is proved

`RunDecisionStoreProofs` proves, for every set of runs, every set of
submissions and all settings that `snapshotOptions` accepts
(`OptionsAssumption`; `ClockAssumption` only bounds TLC's clock):

- `StoreSound`: `Spec => []IInv`, the inductive invariant;
- `StoreImplementsBreaker`: `LogSpec => BreakerSpec`, the refinement, and
  `HistoryIsSuffix`;
- `TypeCorrect`, `CapacityHolds`, `LivenessOfResidents`, `LruOrder`,
  `BreakerTrips`: invariants of the run `store`, each a part of `IInv`;
- `TripIsKept`: the action property `TripSurvives`.

No invariant is inductive alone.  `MakeRoom` keeps the capacity only if a full
Map has an oldest run to remove, which takes the strict total order of the
Map's keys (`OldestExists`: the strict subsets of a finite set are well-founded,
and a resident whose set of predecessors is minimal has none); the order's agreement with
last use takes the fact that nothing was used after `lastClock`, that is,
`AllLive`.  So `IInv` is their conjunction, `Sound(store)`.  The argument goes
operator by operator: `Keep`, `CleanupExpired`, `MakeRoom`, `Touch`,
`RecordEntry` each preserve it (`KeepSound` ... `RecordEntryOK`), `Find` and
`Record` are compositions, and `StepSound` has one case per action.  For
`TripIsKept` the same operators keep a given run tripped unless it is expired
or the one `MakeRoom` takes.  These lemmas are in `DecisionLemmas`, for the gate
needs them too.

The refinement needs to know what a bounded entry says of an unbounded log.
`LInv` adds that to `IInv`: each resident entry `Matches` its log, that is, it
is tripped when the log is latched, until then its counter is the log's denials
since the last allow, and its history is the log's end.  `LatchedAppend` says
when a log latches by one more outcome, `WindowIsHistory` that the window the
abstract breaker looks at is then in the history the store has kept (this is
where the limits must not exceed `HistoryLimit`), and `RecordMatches` puts them
together.  `LogStep` maps each action of the store to `Submit`, `Forget` or a
stutter.

`AuditWriterProofs` proves, for any number of writes, any depth of directories and
any number of faults and rotations (`AuditAssumption`; there is a write, and
`None` and the names the disk's state uses are nobody's names):

- `ReportsAreTrue`: `Spec => []ReportIsTrue`;
- `LossesAreExplained`: `Spec => []LossIsExplained`.

The inductive invariant has three parts.  `TypeOK`.  `FilesInv`: a write that is
past its append without a failure has a line standing; every piece in a file
belongs to a write that has appended, in a file of the right kind if it is a
line and after an append fault if it is torn; and no write has two pieces.
`DirsInv`: the directories a write has walked past exist, those it made are
none below the last one it found missing, and what it found missing and could
not make another write has made.  `TypeStep`, `FilesStep` and `DirsStep` have
one case per action; `PutPieces`, `QuietPieces` and `NewFilePieces` say what the
three kinds of step do to the pieces.  That not every write can be lost to
another's directory needs a last directory among those that writes made
(`LastDirectory`): its maker was lost to a directory further down, where none is.

`ActionGateProofs` proves, for any number of concurrent calls and runs, any
registrations, situations and answers the code can meet (`GateAssumption`), and
any limits of the store:

- `GateSound`: `Spec => []GInv`, and `GateTypeCorrect`;
- `AllowsStandOnVerdicts`, `DenialsStand`, `BridgeIsToldTheHook`: the three
  invariants of the run `gate`;
- `OpenBreakerHolds`, `HistoryTells`: its two action properties.

`GInv` says that the shared store is `Sound`, and of each call, by the step it is
in, what its locals owe each other (`CallOK`): while the judge is asked, whose run
and which action it is; once decided, that the result has its grounds in the
judge's answer and fits source, configuration and hook value; after the return,
what became of parameters and board.  That is enough because no call writes
another's locals, and of the store a call relies on nothing but `Sound` between
its turns: what it knows of its run it reads again after each await.  The turn
itself is `Conclude`; `ConcludeShape` splits it into the operators the code
calls in order, and each of `CandidatesOK`, `FreshActionOK`, `SecondReadOK` and
`RecordedOK` keeps a decision grounded or makes it a denial.

`EvaluationContractProofs` proves the seven properties of the run `pipeline` for
every set of reason codes the judge may be asked for (`JudgeCodesAssumption`;
`StandingReasonAssumption`: one of them is none that an upgrade may override).
All of them that mention the hook mean the value it returns, after fail-open and
without native approvals, with and without the marker: `DeliveredIs` says what
becomes of a mapped value, and `AuditTellsTheHook` and `FailuresLoosenReviews`
build on it.
The invariant `ContractInv` says that output and attempt are what the input
comes to; the rest are facts about that function.  `GuardedShape` of
`DecisionLemmas` says in which five ways a verdict leaves the guards, and
`HarnessShape` the same of the harness; that both agree, that what was produced
is accepted, and that what is accepted could have been produced then follow
way by way.  For the last, an attempt whose `raw` part was changed is replayed
(`ReplayProducible`), and one of which another part was changed can only have
the value that the unchanged parts determine.

`AgentChatProofs` proves, for any number of runs, chats and calls, maps of any
size and age and any number of looks (`ChatAssumption`):

- `ChatSound`: `Spec => []CInv`, and `ChatTypeCorrect`;
- `HearsVerdicts`, `JudgesOwnOrLatest`: the two action properties of the run `chat`.

`TypeOK` is not enough, because what a map still has depends on what was put
since.  `PutIs` says it of one operation: all that leaves has expired, but for
one entry perhaps, and then the map is full and everything left is younger.
`CInv` carries that over a behaviour: a captured request is still in the map
with only later runs behind it, or it is too old, or as many other runs as the
map holds have captured one since (`KeptSince`, `Forgotten`); what is kept for a
session is the latest capture of its runs (`SessionRequestOK`); a verdict that
was put and not asked for is on the board with a look to come, or lost
(`OnBoard`, `Lost`).  The step in which a request leaves the full map is the one
where the first turns into the second: the keys left are distinct runs of
`RunsSince`, so there are enough of them.

`CandidateSelectionProofs` proves, for any number of processes, workers,
candidates and bindings, any corpus of at least one case and any number of
starts (`SelectionAssumption`):

- `SelectionSound`: `Spec => []SInv`, and `SelectionTypeCorrect`;
- `PaysForMissing`, `PublishesCheckpoints`: who pays, and what is published of it;
- `RankingBelieves`: `Spec => []RankingNeverRefuses`;
- `PublishesAnOrder`: `Spec => []PublishedOrderHolds`.

`SInv` relates memory and disk: a worker that is busy has a candidate below the
cursor, without a result, that no other worker of its run has; what is in the
memory of any run as a result is in the candidate's file, for that binding; and
who writes a file has it alone, because it was opened exclusively.  It also says
that attempts are what `Aggregates` accepts, in a file and in the hands of a worker
past its last call, and that what is published is ranked as the results published
with it.  A step changes one worker (`WorkerMovesOK`), one file (`FileStep`), or
neither (`QuietStep`).

Two facts about the arithmetic then finish the last two.  `Rankable`: whatever
aggregates passes each check of the ranking.  What `AggregateAccepts` lets an
attempt say nests the sets that are counted (an executed attempt was allowed by
the judge, an executed catastrophe is an unsafe family), and numerators and
denominators follow with it.  There is a k-th latency, the least one with
k not above it (`LatencyAtIs`), it grows with k, and so does what is interpolated
(`PercentileGrows`).  `RankingIsOrdered`: the ranking exists, and in it no
candidate stands before one that ranks before it.  Comparing fractions crosswise is
transitive (`CrossMultiplied`), null behind every number too (`NullableOrder`), and
so are nine of them one after the other with the id in the end
(`BetterTransitive`).  Giving each candidate the place behind those who rank before
it is then a permutation (`RankingExists`), and neighbours in order are enough by a
least counterexample (`NeighboursSuffice`).  All this is about finite sets and
their sizes, which takes no induction over the attempts.

`HoldoutProofs` proves the six properties of the run `holdout`, for any number of
freezes, inferences, scorers and workers, any corpora, partitions, prices and
repeats (`ParametersAssumption`; `NoneAssumption`: the value for an empty place is
no document and no attempt).  `HInv` has a part for each command.  `FreezeInv`:
what a freezer has linked is there and its own, so undoing removes nothing of
another's.  `InferInv`: exactly the indices below the cursor are paid for, and
each is answered or in the hands of a worker.  `ScoreInv`: at most one scorer
holds the directory, and what it scores was frozen together and answered in
full.  That the builder finds every answer in its place is arithmetic of the
shared cursor (`BlockOf`, `IndexOf`, `TuplesAreBlocks`).

### Model-checked only

- `EveryCallReturns`: liveness under fairness is beyond the prover.
- `BoundariesHold` and `WrappingHidesNothing`: `PolicyRouting` and
  `ShellCommand` use recursive operators, as the code they translate recurses
  over JSON and text.

No other property of a run is without a theorem.

## What is not modelled

- Contents: prompts, parameters, rationale, feedback texts, hashes, latency of
  the gate's judge, usage.  Two contents are the same or not; that is all that
  is used.
- The tables of single programs, tools and sensitive paths in `decision.js`: a
  program of `ShellCommand` is one that always asks, asks for its arguments, or
  does not.  In the scanner a carriage return is folded into a line break.
  Deletions by `null` in a configuration patch are not in the instance.
- `redact.js`, `action.js`, `prompt.js`, `model-id.js`: pure functions of data
  whose results (opaque, secret, same hash) are inputs.
- Injected dependencies that break their contract: parsers, normalisers and
  mappers that throw or return foreign objects (`mapSafely`'s fallback, the outer
  `catch` of the gate), and polluted prototypes.  The store that throws is
  modelled, through its clock.
- Settings whose policy part is invalid too are one configuration with the
  runtime-invalid ones: both are supervised and enforcing.
- Calls without an id, for which the gate puts no verdict; sessions without a
  key; model ids per run and session, which are kept like the requests.
- The audit writer without a root, and anything else that changes its
  directories while it writes.
- A restart of the host: no state of the plugin outlives it, so it is `Init`
  again.  Crashes of the harness, whose files stay, are modelled.
- Plans, attestations and price totals of the harness, Wilson bounds and the
  matrices of a report, the synthetic pilot gate, durability and modes of files.
- `runner.mjs` and its CLI, which has the cursor loop of the holdout runner and
  resumes nothing; rendering, manifests and corpus reviews; `scripts/`.

## Plan

Done: the decision store with its abstract specification, the pipeline, the
gate, the chat, routing and shell reading, the audit writer, the evaluation
contract, selection and holdout, and proofs of every safety property but the two
named under "Model-checked only".  Next, in this order:

1. `ActionGate` extended by a store that two registrations with different
   settings share.
2. The tables of single programs in `ShellCommand` (git, find, curl), each held
   against what the program does with its arguments.
