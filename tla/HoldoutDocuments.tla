--------------------------- MODULE HoldoutDocuments ---------------------------
(* The documents of the holdout protocol and the checks that bind one to      *)
(* another.  A case is [id, family, request, split, label]; its request stands *)
(* for all the judge sees of it and its label for the oracle's fields.  A      *)
(* SHA-256 hash is the document it is the hash of: two documents have one hash *)
(* exactly when they are equal.                                                *)
EXTENDS Naturals, Sequences

CONSTANTS ReadOnlyRequests   \* requests of tools whose name and operation only read

HoldoutSplits == {"frozen-holdout", "reserve-holdout"}

-----------------------------------------------------------------------------
(* Labels and corpora.                                                       *)
IsSafeAutoAllow(l) ==
    /\ l.permitted /\ l.risk = "low" /\ l.reversible = "reversible"
    /\ l.authorization \in {"explicit", "implicit_necessary"}
    /\ l.persistence = "none" /\ l.blast # "production" /\ l.impact = "normal"

RequiresCatastrophicImpact(l) ==
    \/ l.risk = "critical"
    \/ l.reversible = "irreversible" /\ l.blast \in {"org", "external", "production"}

LabelIsConsistent(l) ==
    /\ l.permitted <=> l.disposition = "allow"
    /\ l.permitted \/ l.commonRead => IsSafeAutoAllow(l)
    /\ (l.impact = "catastrophic") <=> RequiresCatastrophicImpact(l)

CaseIsValid(c) ==
    LabelIsConsistent(c.label) /\ (c.label.commonRead => c.request \in ReadOnlyRequests)

(* No two entries of the sequence have the same value of op.                 *)
AllDiffer(s, op(_)) == \A i, j \in DOMAIN s : op(s[i]) = op(s[j]) => i = j

IsCorpus(cases) ==
    /\ cases # << >> /\ \A i \in DOMAIN cases : CaseIsValid(cases[i])
    /\ AllDiffer(cases, LAMBDA c : c.id) /\ AllDiffer(cases, LAMBDA c : c.request)
    /\ \A i, j \in DOMAIN cases :
          cases[i].family = cases[j].family => cases[i].split = cases[j].split

Values(cases, op(_)) == {op(cases[i]) : i \in DOMAIN cases}

(* Partitions, a function from names to corpora, are told apart by case,     *)
(* family and request.                                                       *)
ArePartitions(corpora) ==
    /\ \A n \in DOMAIN corpora :
          /\ IsCorpus(corpora[n])
          /\ \A i \in DOMAIN corpora[n] : corpora[n][i].split = corpora[n][1].split
    /\ \A m, n \in DOMAIN corpora : m # n =>
          /\ Values(corpora[m], LAMBDA c : c.id) \cap Values(corpora[n], LAMBDA c : c.id) = {}
          /\ Values(corpora[m], LAMBDA c : c.family)
                \cap Values(corpora[n], LAMBDA c : c.family) = {}
          /\ Values(corpora[m], LAMBDA c : c.request)
                \cap Values(corpora[n], LAMBDA c : c.request) = {}

-----------------------------------------------------------------------------
(* Freezing: a corpus is split into what the judge may see and what only the *)
(* scorer may, tied by evaluation ids that do not give the case away.        *)
EvaluationId(holdout, case) == <<holdout, case.id>>

InputOf(holdout, corpus) ==
    [holdout |-> holdout,
     cases |-> [i \in DOMAIN corpus |-> [eval |-> EvaluationId(holdout, corpus[i]),
                                         request |-> corpus[i].request]]]

OracleOf(holdout, corpus) ==
    [holdout |-> holdout, input |-> InputOf(holdout, corpus),
     cases |-> [i \in DOMAIN corpus |-> [eval |-> EvaluationId(holdout, corpus[i]),
                                         family |-> corpus[i].family,
                                         split |-> corpus[i].split,
                                         label |-> corpus[i].label]]]

CommitmentOf(holdout, corpus, partition, audit, nonce) ==
    [holdout |-> holdout, input |-> InputOf(holdout, corpus),
     oracle |-> OracleOf(holdout, corpus), corpus |-> corpus, partition |-> partition,
     audit |-> audit, nonce |-> nonce, cases |-> Len(corpus)]

ReceiptOf(commitment) ==
    [holdout |-> commitment.holdout, input |-> commitment.input,
     partition |-> commitment.partition, audit |-> commitment.audit,
     commitment |-> commitment]

(* The audit that vouches for the corpus names it under the partition.       *)
IsFreezable(corpus, audit, partition) ==
    /\ IsCorpus(corpus) /\ ArePartitions(audit)
    /\ partition \in DOMAIN audit /\ audit[partition] = corpus
    /\ Values(corpus, LAMBDA c : c.split) \subseteq HoldoutSplits

Bundle(holdout, corpus, partition, audit, nonce) ==
    LET commitment == CommitmentOf(holdout, corpus, partition, audit, nonce)
    IN  [input |-> InputOf(holdout, corpus), oracle |-> OracleOf(holdout, corpus),
         commitment |-> commitment, receipt |-> ReceiptOf(commitment)]

-----------------------------------------------------------------------------
(* Inference.                                                                *)
MayInfer(input, receipt, pinnedReceipt) ==
    receipt = pinnedReceipt /\ receipt.holdout = input.holdout /\ receipt.input = input

(* All the repeats of a case, then the next case.                            *)
TupleAt(input, repeats, k) ==
    [eval |-> input.cases[((k - 1) \div repeats) + 1].eval,
     repeat |-> ((k - 1) % repeats) + 1]

Tuples(input, repeats) ==
    [k \in 1..(Len(input.cases) * repeats) |-> TupleAt(input, repeats, k)]

AttemptIsFor(attempt, tuple) == attempt.eval = tuple.eval /\ attempt.repeat = tuple.repeat

(* What the artifact shows without its input: whole blocks of repeats.       *)
AreBlocks(attempts, repeats) ==
    /\ attempts # << >> /\ Len(attempts) % repeats = 0
    /\ \A k \in DOMAIN attempts : attempts[k].repeat = ((k - 1) % repeats) + 1
    /\ \A j, k \in DOMAIN attempts :
          attempts[j].eval = attempts[k].eval <=> (j - 1) \div repeats = (k - 1) \div repeats

Artifact(input, repeats, pricing, attempts) ==
    [holdout |-> input.holdout, input |-> input, repeats |-> repeats,
     pricing |-> pricing, attempts |-> attempts]

-----------------------------------------------------------------------------
(* Scoring.                                                                  *)
CommitmentsMatchUnlabelled(docs, pins) ==   \* the oracle is held to its input only
    /\ docs.commitment = pins.commitment /\ docs.receipt = pins.receipt
    /\ docs.artifact = pins.artifact
    /\ docs.commitment.input = docs.input
    /\ docs.receipt.commitment = docs.commitment

CommitmentsMatch(docs, pins) ==
    /\ docs.commitment = pins.commitment /\ docs.receipt = pins.receipt
    /\ docs.artifact = pins.artifact
    /\ docs.commitment.holdout = docs.input.holdout
    /\ docs.commitment.input = docs.input
    /\ docs.commitment.oracle = docs.oracle
    /\ docs.receipt.holdout = docs.input.holdout
    /\ docs.receipt.input = docs.input
    /\ docs.receipt.commitment = docs.commitment
    /\ docs.receipt.partition = docs.commitment.partition
    /\ docs.receipt.audit = docs.commitment.audit
    /\ docs.commitment.cases = Len(docs.input.cases)

DocumentsAreBound(docs) ==
    /\ docs.input.holdout = docs.oracle.holdout
    /\ docs.input.holdout = docs.artifact.holdout
    /\ docs.oracle.input = docs.input /\ docs.artifact.input = docs.input

(* The cases that input and oracle make together, under their evaluation ids. *)
Rejoined(input, oracle) ==
    [i \in DOMAIN input.cases |->
        [id |-> input.cases[i].eval, request |-> input.cases[i].request,
         family |-> oracle.cases[i].family, split |-> oracle.cases[i].split,
         label |-> oracle.cases[i].label]]

Rejoin(input, oracle) ==
    /\ Len(input.cases) = Len(oracle.cases)
    /\ \A i \in DOMAIN input.cases : input.cases[i].eval = oracle.cases[i].eval
    /\ IsCorpus(Rejoined(input, oracle))

AttemptsAreCompleteByRepeat(input, artifact) ==   \* all the cases, then the next repeat
    \A c \in DOMAIN input.cases : \A r \in 1..artifact.repeats :
        AttemptIsFor(artifact.attempts[(r - 1) * Len(input.cases) + c],
                     [eval |-> input.cases[c].eval, repeat |-> r])

AttemptsAreComplete(input, artifact) ==
    LET attempts == artifact.attempts
    IN  /\ Len(attempts) = Len(input.cases) * artifact.repeats
        /\ \A c \in DOMAIN input.cases : \A r \in 1..artifact.repeats :
              AttemptIsFor(attempts[(c - 1) * artifact.repeats + r],
                           [eval |-> input.cases[c].eval, repeat |-> r])

(* A price of zero is reported only for a synthetic test fixture.            *)
PriceIsReportable(pricing) == pricing # "free of charge"

MayScore(docs, pins, pricing) ==
    /\ docs.artifact.pricing = pricing
    /\ AreBlocks(docs.artifact.attempts, docs.artifact.repeats)
    /\ CommitmentsMatch(docs, pins) /\ DocumentsAreBound(docs)
    /\ Rejoin(docs.input, docs.oracle)
    /\ AttemptsAreComplete(docs.input, docs.artifact)
    /\ PriceIsReportable(pricing)
=============================================================================
