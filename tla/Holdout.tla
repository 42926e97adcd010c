-------------------------------- MODULE Holdout --------------------------------
(* The holdout protocol (evals/holdout-*.mjs): custodians freeze a labelled    *)
(* corpus into a bundle of four files, inference runs attempt the blind input  *)
(* with workers that share a cursor, scorers join the attempts with the        *)
(* labels and publish a directory.  Every command may meet another of its     *)
(* kind at the same paths, an I/O error at any step, or be killed.             *)
EXTENDS HoldoutDocuments, SequencesExt

CONSTANTS
    Freezers, Inferrers, Workers, Scorers,   \* runs of the commands; workers of one run
    Holdout,                                 \* the holdout id
    Corpora, PartitionSets,                  \* what the files a freeze reads may hold
    Pricings, Repeats,                       \* parameters of inference
    ResultNames,                             \* the files of a score, in their order
    None

Partition == "primary"
BundleNames == <<"input", "oracle", "commitment", "receipt">>

(* What the commands demand of their parameters.                             *)
ASSUME ParametersAssumption ==
    /\ Repeats \in Nat \ {0}
    /\ ResultNames \in Seq(STRING)
    /\ \A corpus \in Corpora : corpus \in Seq(ToSet(corpus))

(* No document and no attempt is the value that stands for none.             *)
ASSUME NoneAssumption ==
    \A corpus \in Corpora :
        /\ \A audit \in PartitionSets, f \in Freezers, n \in ToSet(BundleNames) :
              Bundle(Holdout, corpus, Partition, audit, f)[n] # None
        /\ \A k \in 1..(Len(corpus) * Repeats) :
              TupleAt(InputOf(Holdout, corpus), Repeats, k) # None

VARIABLES
    files,       \* the four names of the bundle: a document or None
    handed,      \* the bundles handed over to inference and scoring
    freezer,     \* [pc, docs, linked]: a run of holdout-freeze
    inferrer,    \* [pc, input, pricing, cursor, taken, attempts, paid]: of holdout-infer
    scorer,      \* [pc, docs, linked]: of holdout-score
    dir          \* [made, at]: the output directory of the scorers

fvars == <<files, freezer>>
vars == <<files, handed, freezer, inferrer, scorer, dir>>

Active == {"ready", "linking", "undoing"}

Init ==
    /\ files = [n \in ToSet(BundleNames) |-> None] /\ handed = {}
    /\ freezer = [f \in Freezers |-> [pc |-> "idle", docs |-> None, linked |-> << >>]]
    /\ inferrer = [i \in Inferrers |->
           [pc |-> "idle", input |-> None, pricing |-> None, cursor |-> 0,
            taken |-> [w \in Workers |-> 0], attempts |-> << >>, paid |-> << >>]]
    /\ scorer = [s \in Scorers |-> [pc |-> "idle", docs |-> None, linked |-> << >>]]
    /\ dir = [made |-> FALSE, at |-> [n \in ToSet(ResultNames) |-> None]]

-----------------------------------------------------------------------------
(* Freezing.  A run that finds an output or refuses what it read has changed *)
(* nothing, which is a step the model leaves out.                            *)
BundleIsAbsent == \A n \in DOMAIN files : files[n] = None

BeginFreeze(f) ==
    /\ freezer[f].pc = "idle" /\ BundleIsAbsent
    /\ \E corpus \in Corpora, audit \in PartitionSets :
          /\ IsFreezable(corpus, audit, Partition)
          /\ freezer' = [freezer EXCEPT ![f].pc = "ready",
                            ![f].docs = Bundle(Holdout, corpus, Partition, audit, f)]
    /\ UNCHANGED files

(* publishBundle asks again before it writes the temporary files.            *)
WriteTemporaries(f) ==
    /\ freezer[f].pc = "ready"
    /\ \E fault \in BOOLEAN :
          freezer' = [freezer EXCEPT ![f].pc = IF BundleIsAbsent /\ ~fault THEN "linking"
                                               ELSE "failed"]
    /\ UNCHANGED files

(* link() refuses a name that is taken.                                      *)
LinkOver(f) ==
    LET name == BundleNames[Len(freezer[f].linked) + 1]
    IN  /\ freezer[f].pc = "linking"
        /\ files' = [files EXCEPT ![name] = freezer[f].docs[name]]
        /\ freezer' = [freezer EXCEPT ![f].linked = Append(@, name),
                          ![f].pc = IF Len(freezer[f].linked) = 3 THEN "done" ELSE @]

Link(f) ==
    LET name == BundleNames[Len(freezer[f].linked) + 1]
    IN  /\ freezer[f].pc = "linking" /\ files[name] = None
        /\ files' = [files EXCEPT ![name] = freezer[f].docs[name]]
        /\ freezer' = [freezer EXCEPT ![f].linked = Append(@, name),
                          ![f].pc = IF Len(freezer[f].linked) = 3 THEN "done" ELSE @]

(* The name is taken, or the file system fails: what was linked is removed.  *)
LinkFails(f) ==
    /\ freezer[f].pc = "linking"
    /\ freezer' = [freezer EXCEPT ![f].pc = "undoing"]
    /\ UNCHANGED files

(* The removals run at once, in any order; one that fails is ignored.        *)
Unlink(f) ==
    /\ freezer[f].pc = "undoing"
    /\ \E k \in DOMAIN freezer[f].linked, removed \in BOOLEAN :
          /\ freezer' = [freezer EXCEPT ![f].linked = RemoveAt(@, k)]
          /\ files' = IF removed THEN [files EXCEPT ![freezer[f].linked[k]] = None]
                      ELSE files

GiveUp(f) ==
    /\ freezer[f].pc = "undoing" /\ freezer[f].linked = << >>
    /\ freezer' = [freezer EXCEPT ![f].pc = "failed"]
    /\ UNCHANGED files

KillFreezer(f) ==
    /\ freezer[f].pc \in Active
    /\ freezer' = [freezer EXCEPT ![f].pc = "killed"]
    /\ UNCHANGED files

Freeze(f) ==
    /\ \/ BeginFreeze(f) \/ WriteTemporaries(f) \/ Link(f) \/ LinkFails(f)
       \/ Unlink(f) \/ GiveUp(f) \/ KillFreezer(f)
    /\ UNCHANGED <<handed, inferrer, scorer, dir>>

(* The custodian takes away the bundle of a freeze that reported success,    *)
(* or clears what a run left that is no longer there.                        *)
HandOver(f) ==
    /\ freezer[f].pc = "done"
    /\ handed' = handed \cup {files} /\ freezer' = [freezer EXCEPT ![f].pc = "handed"]
    /\ files' = [n \in DOMAIN files |-> None]
    /\ UNCHANGED <<inferrer, scorer, dir>>

Clear ==
    /\ ~BundleIsAbsent
    /\ \A f \in Freezers : freezer[f].pc \notin Active \cup {"done"}
    /\ files' = [n \in DOMAIN files |-> None]
    /\ UNCHANGED <<handed, freezer, inferrer, scorer, dir>>

-----------------------------------------------------------------------------
(* Inference.                                                                *)
Count(i) == Len(inferrer[i].attempts)

BeginInfer(i) ==
    /\ inferrer[i].pc = "idle"
    /\ \E b, c, pinned \in handed, pricing \in Pricings :
          /\ MayInfer(b.input, c.receipt, pinned.receipt)
          /\ LET n == Len(b.input.cases) * Repeats
             IN  inferrer' = [inferrer EXCEPT
                     ![i] = [@ EXCEPT !.pc = "running", !.input = b.input,
                                !.pricing = pricing, !.attempts = [k \in 1..n |-> None],
                                !.paid = [k \in 1..n |-> 0]]]

(* A worker takes the next index and calls the judge.  The loop goes on in   *)
(* the other workers after one of them has thrown.                           *)
TakeAfterAnswer(i, w) ==   \* the cursor moves only when the answer is in
    LET k == Len(SelectSeq(inferrer[i].attempts, LAMBDA a : a # None)) + 1
    IN  /\ inferrer[i].pc \in {"running", "failed"} /\ inferrer[i].taken[w] = 0
        /\ k <= Count(i)
        /\ inferrer' = [inferrer EXCEPT ![i].cursor = k, ![i].taken[w] = k,
                                        ![i].paid[k] = @ + 1]

Take(i, w) ==
    LET k == inferrer[i].cursor + 1
    IN  /\ inferrer[i].pc \in {"running", "failed"} /\ inferrer[i].taken[w] = 0
        /\ k <= Count(i)
        /\ inferrer' = [inferrer EXCEPT ![i].cursor = k, ![i].taken[w] = k,
                                        ![i].paid[k] = @ + 1]

PlaceByArrival(attempts, k, attempt) ==
    LET arrived == Len(SelectSeq(attempts, LAMBDA a : a # None))
    IN  [attempts EXCEPT ![arrived + 1] = attempt]

Place(attempts, k, attempt) == [attempts EXCEPT ![k] = attempt]

Answer(i, w) ==
    LET k == inferrer[i].taken[w]
    IN  /\ inferrer[i].pc \in {"running", "failed"} /\ k \in 1..Count(i)
        /\ inferrer' = [inferrer EXCEPT ![i].taken[w] = 0,
               ![i].attempts = Place(@, k, TupleAt(inferrer[i].input, Repeats, k))]

(* snapshotInferenceAttempt refuses the attempt: the worker throws, and the  *)
(* run with it.                                                              *)
AnswerIsRefused(i, w) ==
    /\ inferrer[i].pc \in {"running", "failed"} /\ inferrer[i].taken[w] \in 1..Count(i)
    /\ inferrer' = [inferrer EXCEPT ![i].taken[w] = Count(i) + 1, ![i].pc = "failed"]

Finished(i) ==
    inferrer[i].cursor = Count(i) /\ \A w \in Workers : inferrer[i].taken[w] = 0

BuildAccepts(input, attempts) ==
    /\ \A k \in DOMAIN attempts :
          attempts[k] # None /\ AttemptIsFor(attempts[k], TupleAt(input, Repeats, k))
    /\ AreBlocks(attempts, Repeats)

BuildArtifact(i) ==
    /\ inferrer[i].pc = "running" /\ Finished(i)
    /\ inferrer' = [inferrer EXCEPT
           ![i].pc = IF BuildAccepts(inferrer[i].input, inferrer[i].attempts)
                     THEN "built" ELSE "rejected"]

(* One link() publishes the artifact; it may find the name taken.            *)
PublishArtifact(i) ==
    /\ inferrer[i].pc = "built"
    /\ \E outcome \in {"published", "failed"} :
          inferrer' = [inferrer EXCEPT ![i].pc = outcome]

KillInferrer(i) ==
    /\ inferrer[i].pc \in {"running", "built"}
    /\ inferrer' = [inferrer EXCEPT ![i].pc = "killed"]

Infer(i) ==
    /\ \/ BeginInfer(i) \/ BuildArtifact(i) \/ PublishArtifact(i) \/ KillInferrer(i)
       \/ \E w \in Workers : Take(i, w) \/ Answer(i, w) \/ AnswerIsRefused(i, w)
    /\ UNCHANGED <<files, handed, freezer, scorer, dir>>

Artifacts ==
    {Artifact(inferrer[i].input, Repeats, inferrer[i].pricing, inferrer[i].attempts) :
        i \in {j \in Inferrers : inferrer[j].pc = "published"}}

-----------------------------------------------------------------------------
(* Scoring.  The principal pins what was announced; the files given to the   *)
(* scorer may come from any bundle.                                          *)
BeginScore(s) ==
    /\ scorer[s].pc = "idle" /\ ~dir.made
    /\ \E a, b, c, d, p, q \in handed, artifact, pinned \in Artifacts, pricing \in Pricings :
          LET docs == [input |-> a.input, oracle |-> b.oracle, commitment |-> c.commitment,
                       receipt |-> d.receipt, artifact |-> artifact]
              pins == [commitment |-> p.commitment, receipt |-> q.receipt,
                       artifact |-> pinned]
          IN  /\ MayScore(docs, pins, pricing)
              /\ scorer' = [scorer EXCEPT ![s].pc = "ready", ![s].docs = docs]
    /\ UNCHANGED dir

(* The temporary directory is written, then the output directory is made.    *)
ReserveClearing(s) ==   \* the clean-up runs although the directory is another's
    /\ scorer[s].pc = "ready"
    /\ IF dir.made
       THEN /\ scorer' = [scorer EXCEPT ![s].pc = "failed"]
            /\ dir' = [made |-> FALSE, at |-> [n \in DOMAIN dir.at |-> None]]
       ELSE /\ scorer' = [scorer EXCEPT ![s].pc = "linking"]
            /\ dir' = [dir EXCEPT !.made = TRUE]

Reserve(s) ==
    /\ scorer[s].pc = "ready"
    /\ \E fault \in BOOLEAN :
          IF dir.made \/ fault
          THEN scorer' = [scorer EXCEPT ![s].pc = "failed"] /\ UNCHANGED dir
          ELSE /\ scorer' = [scorer EXCEPT ![s].pc = "linking"]
               /\ dir' = [dir EXCEPT !.made = TRUE]

LinkResult(s) ==
    LET name == ResultNames[Len(scorer[s].linked) + 1]
    IN  /\ scorer[s].pc = "linking" /\ Len(scorer[s].linked) < Len(ResultNames)
        /\ dir.made /\ dir.at[name] = None
        /\ dir' = [dir EXCEPT !.at[name] = s]
        /\ scorer' = [scorer EXCEPT ![s].linked = Append(@, name)]

SyncResults(s) ==
    /\ scorer[s].pc = "linking" /\ Len(scorer[s].linked) = Len(ResultNames)
    /\ scorer' = [scorer EXCEPT ![s].pc = "done"] /\ UNCHANGED dir

(* A link or the sync fails.                                                 *)
PublicationFails(s) ==
    /\ scorer[s].pc = "linking"
    /\ scorer' = [scorer EXCEPT ![s].pc = "undoing"] /\ UNCHANGED dir

(* First to last, ignoring failures; the directory goes if it is empty.      *)
UnlinkResult(s) ==
    /\ scorer[s].pc = "undoing" /\ scorer[s].linked # << >>
    /\ scorer' = [scorer EXCEPT ![s].linked = Tail(@)]
    /\ \E removed \in BOOLEAN :
          dir' = IF removed THEN [dir EXCEPT !.at[Head(scorer[s].linked)] = None] ELSE dir

RemoveDirectory(s) ==
    /\ scorer[s].pc = "undoing" /\ scorer[s].linked = << >>
    /\ scorer' = [scorer EXCEPT ![s].pc = "failed"]
    /\ \E removed \in BOOLEAN :
          dir' = [dir EXCEPT !.made = ~(removed /\ \A n \in DOMAIN dir.at : dir.at[n] = None)]

KillScorer(s) ==
    /\ scorer[s].pc \in Active
    /\ scorer' = [scorer EXCEPT ![s].pc = "killed"] /\ UNCHANGED dir

Score(s) ==
    /\ \/ BeginScore(s) \/ Reserve(s) \/ LinkResult(s) \/ SyncResults(s)
       \/ PublicationFails(s) \/ UnlinkResult(s) \/ RemoveDirectory(s) \/ KillScorer(s)
    /\ UNCHANGED <<files, handed, freezer, inferrer>>

Next ==
    \/ \E f \in Freezers : Freeze(f) \/ HandOver(f)
    \/ Clear
    \/ \E i \in Inferrers : Infer(i)
    \/ \E s \in Scorers : Score(s)

Spec == Init /\ [][Next]_vars

-----------------------------------------------------------------------------
(* A freeze that reports success leaves the four files of one bundle, its    *)
(* own, whatever other freezes did at those names before, meanwhile or       *)
(* after, and whatever they left undone.                                     *)
FrozenIsWhole == \A f \in Freezers : freezer[f].pc = "done" => files = freezer[f].docs

(* The judge is called once for each case and repeat, however the workers    *)
(* that share the cursor are interleaved: never twice, and each one before   *)
(* an artifact is built.                                                     *)
PaysOnce ==
    \A i \in Inferrers : \A k \in DOMAIN inferrer[i].paid :
        /\ inferrer[i].paid[k] <= 1
        /\ inferrer[i].pc \in {"built", "published"} => inferrer[i].paid[k] = 1

(* A run whose every answer was accepted builds its artifact: in whichever   *)
(* order the answers arrive, each stands where the builder looks for it.     *)
BuildsWhenAnswered == \A i \in Inferrers : inferrer[i].pc # "rejected"

(* Whichever files the scorer was given, what it scores is the input, the    *)
(* labels, the commitment and the receipt of one freeze, and an attempt at   *)
(* every case and repeat of that input, in order.                            *)
ScoreIsOfOneFreeze ==
    \A s \in Scorers : scorer[s].pc # "idle" =>
        \E b \in handed : LET docs == scorer[s].docs IN
            /\ \A n \in ToSet(BundleNames) : docs[n] = b[n]
            /\ docs.artifact.attempts = Tuples(b.input, Repeats)

(* What was frozen and then inferred can be scored: inference pays for no    *)
(* artifact that the scorer, given the right files, refuses, prices of zero  *)
(* that are no fixture excepted.                                             *)
BoundIsScorable ==
    \A b \in handed, a \in Artifacts :
        a.input = b.input /\ PriceIsReportable(a.pricing) =>
            LET docs == [input |-> b.input, oracle |-> b.oracle, receipt |-> b.receipt,
                         commitment |-> b.commitment, artifact |-> a]
            IN  MayScore(docs, docs, a.pricing)

(* A score that reports success is a directory with all its files, its own,  *)
(* and stays so whatever other scorers try there.                            *)
ScoreIsWhole ==
    \A s \in Scorers : scorer[s].pc = "done" =>
        dir.made /\ \A n \in DOMAIN dir.at : dir.at[n] = s
=============================================================================
