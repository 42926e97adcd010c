------------------------- MODULE CandidateSelection -------------------------
(***************************************************************************)
(* The selection of a judge among candidates (src/evals/lib/               *)
(* candidate-selection.mjs and its CLI): workers evaluate the corpus with  *)
(* one candidate after the other and pay for every call, each finished     *)
(* candidate becomes a checkpoint file (selection-checkpoint.mjs), a later *)
(* run over the same binding resumes from these files, and a run that has  *)
(* them all publishes one ranked artifact (candidate-preflight-cli.mjs,    *)
(* publishCandidatePreflightArtifact).                                     *)
(*                                                                         *)
(* Several processes may run in one directory.  A binding stands for the   *)
(* revision, plan, corpus, prices and versions a run is bound to.  A crash *)
(* is one of the process: what it wrote stays written.                     *)
(***************************************************************************)
EXTENDS Qualification

CONSTANTS
    Processes,       \* invocations of the command that may overlap
    Workers,         \* of each process
    Candidates,      \* how many candidates the preflight found eligible
    Bindings,
    Corpus,          \* for each binding the cases: [data, action, answers], the
                     \* answers how a call may end, each [response, latency]
    MaxStarts        \* bound: how often the command is started

ASSUME SelectionAssumption ==
    /\ Candidates \in Nat \ {0}
    /\ \A b \in Bindings : Len(Corpus[b]) \in Nat \ {0}
    /\ MaxStarts \in Nat

VARIABLES
    files,           \* for each candidate, what is at the path of its checkpoint
    output,          \* what is at the path of the artifact
    procs,           \* the memory of each process
    starts

vars == <<files, output, procs, starts>>

Ids == 1..Candidates

Absent == [is |-> "absent"]
Partial == [is |-> "partial"]
Checkpoint(binding, attempts) ==
    [is |-> "checkpoint", binding |-> binding, attempts |-> attempts]

Ended(at) ==
    [at |-> at, binding |-> Null, unread |-> {}, completedIds |-> {},
     results |-> [c \in Ids |-> <<>>], cursor |-> 1, aborted |-> FALSE,
     workers |-> [w \in Workers |->
                    [at |-> "next", candidate |-> 0, attempts |-> <<>>]]]

Running(p) == procs[p].at \in {"resuming", "working", "publishing", "linking"}

Init ==
    /\ files = [c \in Ids |-> Absent]
    /\ output = Absent
    /\ procs = [p \in Processes |-> Ended("stopped")]
    /\ starts = 0

-----------------------------------------------------------------------------
(* What readSelectionCheckpointIfPresent returns: a file that is not whole, *)
(* or is bound to something else, or whose attempts do not aggregate, makes *)
(* the whole run fail before its first call.                                *)
Usable(file, binding) ==
    /\ file.is = "checkpoint"
    /\ file.binding = binding
    /\ Aggregates(file.attempts, 1)

(* The path of the artifact is looked at before the checkpoints are.        *)
Begin(p) ==
    /\ ~Running(p)
    /\ starts < MaxStarts
    /\ starts' = starts + 1
    /\ \/ output # Absent /\ procs' = [procs EXCEPT ![p] = Ended("failed")]
       \/ /\ output = Absent
          /\ \E b \in Bindings :
                procs' = [procs EXCEPT ![p] = [Ended("resuming") EXCEPT !.binding = b,
                                                                      !.unread = Ids]]
    /\ UNCHANGED <<files, output>>

(* The reads are made at once and end in any order.                         *)
ReadCheckpoint(p, c) ==
    LET process == procs[p]
        at == IF process.unread = {c} THEN "working" ELSE "resuming"
    IN  /\ process.at = "resuming" /\ c \in process.unread
        /\ \/ /\ files[c] = Absent
              /\ procs' = [procs EXCEPT ![p].at = at, ![p].unread = @ \ {c}]
           \/ /\ files[c] # Absent /\ Usable(files[c], process.binding)
              /\ procs' = [procs EXCEPT ![p].at = at, ![p].unread = @ \ {c},
                                        ![p].completedIds = @ \cup {c},
                                        ![p].results[c] = files[c].attempts]
           \/ /\ files[c] # Absent /\ ~Usable(files[c], process.binding)
              /\ procs' = [procs EXCEPT ![p] = Ended("failed")]
        /\ UNCHANGED <<files, output, starts>>

SetWorker(p, w, state) == [procs EXCEPT ![p].workers[w] = state]

(* Mutant: a resumed candidate is not skipped. *)
MissingAll(process) == process.cursor..Candidates

Missing(process) ==
    {c \in process.cursor..Candidates : process.results[c] = <<>>}

(* Mutant: the attempts of the last candidate are still there. *)
TakeKeeping(p, w) ==
    /\ procs[p].at = "working"
    /\ procs[p].workers[w].at = "next"
    /\ LET missing == Missing(procs[p])
       IN  \/ /\ procs[p].aborted \/ missing = {}
              /\ procs' = [procs EXCEPT ![p].workers[w].at = "stopped"]
           \/ /\ ~procs[p].aborted
              /\ \E c \in missing :
                    /\ \A d \in missing : c <= d
                    /\ procs' = [procs EXCEPT ![p].workers[w].at = "calling",
                                             ![p].workers[w].candidate = c,
                                             ![p].cursor = c + 1]
    /\ UNCHANGED <<files, output, starts>>

(* The head of the loop: the cursor passes over resumed candidates. *)
Take(p, w) ==
    /\ procs[p].at = "working"
    /\ procs[p].workers[w].at = "next"
    /\ LET missing == Missing(procs[p])
       IN  \/ /\ procs[p].aborted \/ missing = {}
              /\ procs' = [procs EXCEPT ![p].workers[w].at = "stopped"]
           \/ /\ ~procs[p].aborted
              /\ \E c \in missing :
                    /\ \A d \in missing : c <= d
                    /\ procs' = [SetWorker(p, w, [at |-> "calling", candidate |-> c,
                                                 attempts |-> <<>>])
                                  EXCEPT ![p].cursor = c + 1]
    /\ UNCHANGED <<files, output, starts>>

(* The answer to the call for the next case.  After the last one the        *)
(* attempts are aggregated: a throw ends this worker and tells no other.    *)
Answer(p, w) ==
    /\ procs[p].at = "working"
    /\ procs[p].workers[w].at = "calling"
    /\ \E answer \in Corpus[procs[p].binding]
                         [Len(procs[p].workers[w].attempts) + 1].answers :
          LET worker == procs[p].workers[w]
              corpus == Corpus[procs[p].binding]
              n == Len(worker.attempts) + 1
              attempts == Append(worker.attempts,
                  Attempt(<<procs[p].binding, worker.candidate>>, n, corpus[n].data,
                          1, answer.latency,
                          EvaluateAttempt(answer.response, corpus[n].action)))
          IN  procs' = SetWorker(p, w,
                [worker EXCEPT
                   !.attempts = attempts,
                   !.at = CASE n < Len(corpus) -> "calling"
                            [] n = Len(corpus) /\ Aggregates(attempts, 1) -> "opening"
                            [] OTHER -> "rejected"])
    /\ UNCHANGED <<files, output, starts>>

-----------------------------------------------------------------------------
Abort(p, w) ==
    procs' = [procs EXCEPT ![p].aborted = TRUE, ![p].workers[w].at = "rejected"]

(* Mutant: a file that is there is written over. *)
OpenOver(p, w) ==
    /\ procs[p].at = "working"
    /\ procs[p].workers[w].at = "opening"
    /\ files' = [files EXCEPT ![procs[p].workers[w].candidate] = Partial]
    /\ procs' = [procs EXCEPT ![p].workers[w].at = "writing"]
    /\ UNCHANGED <<output, starts>>

(* The exclusive open: it fails when the file exists, or the disk does not  *)
(* do it.                                                                   *)
Open(p, w) ==
    LET c == procs[p].workers[w].candidate
    IN  /\ procs[p].at = "working"
        /\ procs[p].workers[w].at = "opening"
        /\ \/ /\ files[c] = Absent
              /\ files' = [files EXCEPT ![c] = Partial]
              /\ procs' = [procs EXCEPT ![p].workers[w].at = "writing"]
           \/ Abort(p, w) /\ UNCHANGED files
        /\ UNCHANGED <<output, starts>>

(* The write, sync and close: one of them may fail, which leaves the file   *)
(* as far as it was written.                                                *)
Write(p, w) ==
    LET worker == procs[p].workers[w]
        c == worker.candidate
        checkpoint == Checkpoint(procs[p].binding, worker.attempts)
    IN  /\ procs[p].at = "working"
        /\ worker.at = "writing"
        /\ \/ /\ files' = [files EXCEPT ![c] = checkpoint]
              /\ procs' = [procs EXCEPT ![p].results[c] = worker.attempts,
                                        ![p].workers[w].at = "next"]
           \/ /\ \E left \in {Partial, checkpoint} : files' = [files EXCEPT ![c] = left]
              /\ Abort(p, w)
        /\ UNCHANGED <<output, starts>>

-----------------------------------------------------------------------------
Summaries(results) == [c \in Ids |-> Summary(results[c])]

(* All workers have settled.  rankSelectionCandidates throws at a summary   *)
(* it does not believe.                                                     *)
Settle(p) ==
    /\ procs[p].at = "working"
    /\ \A w \in Workers : procs[p].workers[w].at \in {"stopped", "rejected"}
    /\ procs' = [procs EXCEPT ![p] =
          IF \/ \E w \in Workers : procs[p].workers[w].at = "rejected"
             \/ \E c \in Ids : procs[p].results[c] = <<>>
             \/ \E c \in Ids : ~IsRankable(Summaries(procs[p].results)[c])
          THEN Ended("failed")
          ELSE [procs[p] EXCEPT !.at = "publishing"]]
    /\ UNCHANGED <<files, output, starts>>

Artifact(process) ==
    [is |-> "artifact", binding |-> process.binding, results |-> process.results,
     ranking |-> RankSelectionCandidates(Summaries(process.results))]

(* The path is looked at again, and the artifact is written beside it. *)
Publish(p) ==
    /\ procs[p].at = "publishing"
    /\ \/ output = Absent /\ procs' = [procs EXCEPT ![p].at = "linking"]
       \/ procs' = [procs EXCEPT ![p] = Ended("failed")]
    /\ UNCHANGED <<files, output, starts>>

(* The link fails when the path exists; what fails after it, the removal of *)
(* the other name, is reported as a failure too.                            *)
LinkArtifact(p) ==
    /\ procs[p].at = "linking"
    /\ \/ /\ output = Absent
          /\ output' = Artifact(procs[p])
          /\ \E at \in {"done", "failed"} : procs' = [procs EXCEPT ![p] = Ended(at)]
       \/ procs' = [procs EXCEPT ![p] = Ended("failed")] /\ UNCHANGED output
    /\ UNCHANGED <<files, starts>>

Crash(p) ==
    /\ Running(p)
    /\ procs' = [procs EXCEPT ![p] = Ended("stopped")]
    /\ UNCHANGED <<files, output, starts>>

(* Nothing in the code removes a partial file: somebody has to. *)
Clean(c) ==
    /\ \A p \in Processes : ~Running(p)
    /\ files[c] = Partial
    /\ files' = [files EXCEPT ![c] = Absent]
    /\ UNCHANGED <<output, procs, starts>>

Proceed(p) ==
    \/ \E c \in Ids : ReadCheckpoint(p, c)
    \/ \E w \in Workers :
          Take(p, w) \/ Answer(p, w) \/ Open(p, w) \/ Write(p, w)
    \/ Settle(p) \/ Publish(p) \/ LinkArtifact(p)

Next ==
    \/ \E p \in Processes : Begin(p) \/ Proceed(p) \/ Crash(p)
    \/ \E c \in Ids : Clean(c)

Spec == Init /\ [][Next]_vars

-----------------------------------------------------------------------------
(* What is on the disk and in the memory of a run is a prefix of the corpus *)
(* evaluated for that very candidate, and a checkpoint is all of it.        *)
TypeOK ==
    /\ \A c \in Ids :
          files[c] \in {Absent, Partial} \/
            /\ files[c].is = "checkpoint" /\ Len(files[c].attempts) = Len(Corpus[files[c].binding])
            /\ \A i \in DOMAIN files[c].attempts :
                  files[c].attempts[i].run = <<files[c].binding, c>>
    /\ \A p \in Processes :
          /\ procs[p].cursor \in 1..(Candidates + 1)
          /\ \A w \in Workers :
                LET worker == procs[p].workers[w]
                IN  \A i \in DOMAIN worker.attempts :
                        worker.attempts[i].run = <<procs[p].binding, worker.candidate>>
                          /\ worker.attempts[i].case = i

(* A call is paid for only when its candidate was in no checkpoint the run  *)
(* resumed from, and no other worker of the run has finished or is at it.   *)
PaysOnlyMissing ==
    \A p \in Processes, v, w \in Workers :
        LET paid == procs[p].workers[w]
        IN  paid.at \in {"calling", "opening", "writing"} =>
              /\ paid.candidate \notin procs[p].completedIds
              /\ procs[p].results[paid.candidate] = <<>>
              /\ v # w /\ procs[p].workers[v].at \in {"calling", "opening", "writing"}
                   => procs[p].workers[v].candidate # paid.candidate

(* The artifact says of every candidate what its checkpoint says, however   *)
(* many processes wrote into the directory and whatever crashed in between. *)
PublishedIsCheckpointed ==
    output # Absent =>
        \A c \in Ids : files[c] = Checkpoint(output.binding, output.results[c])

(* What the aggregation made of accepted attempts the ranking believes: a   *)
(* run that was paid for in full does not fail at its last step.            *)
RankingNeverRefuses ==
    \A p \in Processes, c \in Ids :
        procs[p].results[c] # <<>> => IsRankable(Summary(procs[p].results[c]))

(* The published order holds between any two candidates, not only between   *)
(* the pairs that the sort happened to compare.                             *)
PublishedOrderHolds ==
    output # Absent =>
        \A i, j \in Ids :
            LET s == Summaries(output.results)
                c == output.ranking[i]
                d == output.ranking[j]
            IN  i < j => RanksBefore(s[c], s[d], c < d) /\ ~RanksBefore(s[d], s[c], d < c)
=============================================================================
