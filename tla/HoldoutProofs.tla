----------------------------- MODULE HoldoutProofs -----------------------------
(***************************************************************************)
(* Proofs about the holdout protocol, for any number of runs of each       *)
(* command, any workers, corpora, partitions and prices.  The inductive    *)
(* invariant has one part per command: what a freezer has linked is its    *)
(* own, an inferrer has paid for exactly the indices below its cursor, and *)
(* at most one scorer holds the output directory.                          *)
(***************************************************************************)
EXTENDS Holdout, FiniteSetTheorems, FunctionTheorems, SequenceTheorems, TLAPS

Names == {"input", "oracle", "commitment", "receipt"}

(* What a freeze can publish, and what inference can make of it.            *)
Bundles ==
    {b \in {Bundle(Holdout, corpus, Partition, audit, f) :
                corpus \in Corpora, audit \in PartitionSets, f \in Freezers} :
        IsFreezable(b.commitment.corpus, b.commitment.audit, Partition)}

-----------------------------------------------------------------------------
(* Freezing: what a run has linked stands at its names until it is removed, *)
(* and no other run that still counts on its links has linked it.           *)
FreezerPcs ==
    {"idle", "ready", "linking", "undoing", "done", "handed", "failed", "killed"}

FreezerState ==
    [pc : FreezerPcs, docs : Bundles \cup {None}, linked : Seq(Names)]

Holding == {"linking", "undoing", "done"}

FreezerOK(f) ==
    LET run == freezer[f]
    IN  /\ run.pc \in Active \cup {"done"} => run.docs \in Bundles
        /\ run.pc \in {"idle", "ready"} => run.linked = <<>>
        /\ run.pc \in {"linking", "done"} =>
             /\ Len(run.linked) <= (IF run.pc = "linking" THEN 3 ELSE 4)
             /\ \A k \in DOMAIN run.linked : run.linked[k] = BundleNames[k]
        /\ run.pc = "done" => Len(run.linked) = 4
        /\ run.pc \in Holding =>
             /\ \A k \in DOMAIN run.linked :
                  files[run.linked[k]] = run.docs[run.linked[k]]
             /\ \A j, k \in DOMAIN run.linked :
                  run.linked[j] = run.linked[k] => j = k

LinksAreExclusive ==
    \A f, g \in Freezers :
        f # g /\ freezer[f].pc \in Holding /\ freezer[g].pc \in Holding =>
            \A j \in DOMAIN freezer[f].linked, k \in DOMAIN freezer[g].linked :
                freezer[f].linked[j] # freezer[g].linked[k]

FreezeInv ==
    /\ files = [n \in Names |-> files[n]]
    /\ freezer \in [Freezers -> FreezerState]
    /\ \A f \in Freezers : FreezerOK(f)
    /\ LinksAreExclusive
    /\ handed \subseteq Bundles

-----------------------------------------------------------------------------
(* Inference: the indices up to the cursor are paid for, once; while the    *)
(* run goes on, each of them is answered or in the hands of a worker.       *)
InferrerFields == {"pc", "input", "pricing", "cursor", "taken", "attempts", "paid"}

Inputs == {b.input : b \in Bundles}

Size(input) == Len(input.cases) * Repeats

Answers(input) ==
    {TupleAt(input, Repeats, k) : k \in 1 .. Size(input)} \cup {None}

InferrerShape(i) ==
    LET run == inferrer[i] IN
    /\ DOMAIN run = InferrerFields
    /\ run.pc = "idle" =>
         /\ run.attempts = <<>> /\ run.paid = <<>>
         /\ run.cursor = 0 /\ run.taken = [w \in Workers |-> 0]
    /\ run.pc # "idle" =>
         /\ run.input \in Inputs /\ run.pricing \in Pricings
         /\ run.cursor \in 0 .. Size(run.input)
         /\ run.taken \in [Workers -> Nat]
         /\ run.attempts \in [1 .. Size(run.input) -> Answers(run.input)]
         /\ run.paid \in [1 .. Size(run.input) -> Nat]

InferrerOK(i) ==
    LET run == inferrer[i] IN
    /\ run.pc # "rejected"
    /\ run.pc # "idle" =>
         \A k \in 1 .. Size(run.input) : run.paid[k] = IF k <= run.cursor THEN 1 ELSE 0
    /\ run.pc = "running" =>
         \A k \in 1 .. run.cursor :
            \/ run.attempts[k] = TupleAt(run.input, Repeats, k)
            \/ \E w \in Workers : run.taken[w] = k
    /\ run.pc \in {"built", "published"} =>
         run.cursor = Size(run.input) /\ run.attempts = Tuples(run.input, Repeats)

InferInv ==
    /\ DOMAIN inferrer = Inferrers
    /\ \A i \in Inferrers : InferrerShape(i) /\ InferrerOK(i)

-----------------------------------------------------------------------------
(* Scoring: what is scored was frozen together and answered in full; at     *)
(* most one run is at work in the directory, and what it linked is there.   *)
Scorable(docs) ==
    \E b \in handed, pricing \in Pricings :
        docs = [input |-> b.input, oracle |-> b.oracle, commitment |-> b.commitment,
                receipt |-> b.receipt,
                artifact |-> Artifact(b.input, Repeats, pricing, Tuples(b.input, Repeats))]

ScorerOK(s) ==
    LET run == scorer[s] IN
    /\ DOMAIN run = {"pc", "docs", "linked"} /\ run.linked \in Seq(ToSet(ResultNames))
    /\ run.pc # "idle" => Scorable(run.docs)
    /\ run.pc \in {"idle", "ready"} => run.linked = <<>>
    /\ run.pc \in Holding => dir.made
    /\ run.pc \in {"linking", "done"} =>
         /\ Len(run.linked) <= Len(ResultNames)
         /\ \A k \in 1 .. Len(run.linked) :
               run.linked[k] = ResultNames[k] /\ dir.at[run.linked[k]] = s
    /\ run.pc = "done" => Len(run.linked) = Len(ResultNames)

DirectoryIsExclusive ==
    \A s, t \in Scorers : scorer[s].pc \in Holding /\ scorer[t].pc \in Holding => s = t

ScoreInv ==
    /\ DOMAIN scorer = Scorers /\ DOMAIN dir = {"made", "at"} /\ dir.made \in BOOLEAN
    /\ DOMAIN dir.at = ToSet(ResultNames)
    /\ \A s \in Scorers : ScorerOK(s)
    /\ DirectoryIsExclusive

HInv == FreezeInv /\ InferInv /\ ScoreInv

-----------------------------------------------------------------------------
LEMMA BundleNamesFacts ==
    /\ ToSet(BundleNames) = Names
    /\ \A k \in 1 .. 4 : BundleNames[k] \in Names
    /\ \A n \in Names : \E k \in 1 .. 4 : BundleNames[k] = n
    /\ \A j, k \in 1 .. 4 : BundleNames[j] = BundleNames[k] => j = k
  BY DEF ToSet, BundleNames, Names

LEMMA BundleShape ==
    ASSUME NEW corpus \in Corpora, NEW audit \in PartitionSets, NEW f \in Freezers,
           IsFreezable(corpus, audit, Partition)
    PROVE  Bundle(Holdout, corpus, Partition, audit, f) \in Bundles
<1> DEFINE b == Bundle(Holdout, corpus, Partition, audit, f)
<1>1. b.commitment.corpus = corpus /\ b.commitment.audit = audit
  BY DEF Bundle, CommitmentOf
<1> QED
  BY <1>1 DEF Bundles

LEMMA BundleOf ==
    ASSUME NEW b \in Bundles
    PROVE  \E corpus \in Corpora, audit \in PartitionSets, f \in Freezers :
              /\ IsFreezable(corpus, audit, Partition)
              /\ b = Bundle(Holdout, corpus, Partition, audit, f)
<1>1. PICK corpus \in Corpora, audit \in PartitionSets, f \in Freezers :
         b = Bundle(Holdout, corpus, Partition, audit, f)
  BY DEF Bundles
<1>2. b.commitment.corpus = corpus /\ b.commitment.audit = audit
  BY <1>1 DEF Bundle, CommitmentOf
<1> QED
  BY <1>1, <1>2 DEF Bundles

LEMMA BundleDocuments ==
    ASSUME NEW b \in Bundles
    PROVE  /\ DOMAIN b = Names
           /\ b = [n \in Names |-> b[n]]
           /\ \A n \in Names : b[n] # None
<1>1. PICK corpus \in Corpora, audit \in PartitionSets, f \in Freezers :
         b = Bundle(Holdout, corpus, Partition, audit, f)
  BY BundleOf
<1>2. DOMAIN b = Names /\ b = [n \in Names |-> b[n]]
  BY <1>1 DEF Bundle, Names
<1>3. \A n \in Names : b[n] # None
  BY <1>1, BundleNamesFacts, NoneAssumption
<1> QED
  BY <1>2, <1>3

-----------------------------------------------------------------------------
(* A step of run f: its record becomes r and the others stay.               *)
FreezerBecomes(f, r) ==
    /\ freezer' \in [Freezers -> FreezerState]
    /\ freezer'[f] = r
    /\ \A g \in Freezers \ {f} : freezer'[g] = freezer[g]

State(pc, docs, linked) == [pc |-> pc, docs |-> docs, linked |-> linked]

LEMMA StateShape ==
    ASSUME NEW pc \in FreezerPcs, NEW docs \in Bundles \cup {None},
           NEW linked \in Seq(Names)
    PROVE  /\ State(pc, docs, linked) \in FreezerState
           /\ State(pc, docs, linked).pc = pc
           /\ State(pc, docs, linked).docs = docs
           /\ State(pc, docs, linked).linked = linked
  BY DEF State, FreezerState

LEMMA StateUpdates ==
    ASSUME NEW q \in FreezerState, NEW pc, NEW docs, NEW linked
    PROVE  /\ [q EXCEPT !.pc = pc] = State(pc, q.docs, q.linked)
           /\ [q EXCEPT !.pc = pc, !.docs = docs] = State(pc, docs, q.linked)
           /\ [q EXCEPT !.linked = linked] = State(q.pc, q.docs, linked)
<1>1. [q EXCEPT !.pc = pc] = State(pc, q.docs, q.linked)
  BY DEF State, FreezerState
<1>2. [q EXCEPT !.pc = pc, !.docs = docs] = State(pc, docs, q.linked)
  <2>1. [q EXCEPT !.pc = pc, !.docs = docs] = [[q EXCEPT !.pc = pc] EXCEPT !.docs = docs]
    OBVIOUS
  <2>2. [State(pc, q.docs, q.linked) EXCEPT !.docs = docs] = State(pc, docs, q.linked)
    BY DEF State
  <2> QED
    BY <1>1, <2>1, <2>2
<1>3. [q EXCEPT !.linked = linked] = State(q.pc, q.docs, linked)
  BY DEF State, FreezerState
<1> QED
  BY <1>1, <1>2, <1>3

LEMMA StateUpdatesLinked ==
    ASSUME NEW q \in FreezerState, NEW pc, NEW linked
    PROVE  [[q EXCEPT !.linked = linked] EXCEPT !.pc = pc] = State(pc, q.docs, linked)
<1>1. [q EXCEPT !.linked = linked] = State(q.pc, q.docs, linked)
  BY DEF State, FreezerState
<1>2. [State(q.pc, q.docs, linked) EXCEPT !.pc = pc] = State(pc, q.docs, linked)
  BY DEF State
<1> QED
  BY <1>1, <1>2

LEMMA FreezerShape ==
    ASSUME FreezeInv, NEW f \in Freezers
    PROVE  /\ freezer[f] \in FreezerState
           /\ freezer[f].pc \in FreezerPcs
           /\ freezer[f].docs \in Bundles \cup {None}
           /\ freezer[f].linked \in Seq(Names)
  BY DEF FreezeInv, FreezerState

(* The updates the steps make.                                              *)
LEMMA FreezerUpdates ==
    ASSUME FreezeInv, NEW f \in Freezers, NEW pc \in FreezerPcs,
           NEW docs \in Bundles, NEW linked \in Seq(Names)
    PROVE  /\ freezer' = [freezer EXCEPT ![f].pc = pc] =>
                FreezerBecomes(f, State(pc, freezer[f].docs, freezer[f].linked))
           /\ freezer' = [freezer EXCEPT ![f].pc = pc, ![f].docs = docs] =>
                FreezerBecomes(f, State(pc, docs, freezer[f].linked))
           /\ freezer' = [freezer EXCEPT ![f].linked = linked] =>
                FreezerBecomes(f, State(freezer[f].pc, freezer[f].docs, linked))
           /\ freezer' = [freezer EXCEPT ![f].linked = linked, ![f].pc = pc] =>
                FreezerBecomes(f, State(pc, freezer[f].docs, linked))
<1>1. freezer \in [Freezers -> FreezerState]
  BY DEF FreezeInv
<1>2. ASSUME NEW r \in FreezerState, freezer'[f] = r,
             freezer' = [g \in Freezers |-> freezer'[g]],
             \A g \in Freezers \ {f} : freezer'[g] = freezer[g]
      PROVE  FreezerBecomes(f, r)
  <2>1. \A g \in Freezers : freezer'[g] \in FreezerState
    BY <1>1, <1>2
  <2>2. freezer' \in [Freezers -> FreezerState]
    BY <1>2, <2>1
  <2> QED
    BY <1>2, <2>2 DEF FreezerBecomes
<1>3. ASSUME freezer' = [freezer EXCEPT ![f].pc = pc]
      PROVE  FreezerBecomes(f, State(pc, freezer[f].docs, freezer[f].linked))
  <2>1. /\ freezer'[f] = [freezer[f] EXCEPT !.pc = pc]
        /\ \A g \in Freezers \ {f} : freezer'[g] = freezer[g]
        /\ freezer' = [g \in Freezers |-> freezer'[g]]
    BY <1>1, <1>3
  <2>2. freezer'[f] = State(pc, freezer[f].docs, freezer[f].linked)
    BY <2>1, FreezerShape, StateUpdates
  <2>3. State(pc, freezer[f].docs, freezer[f].linked) \in FreezerState
    BY FreezerShape, StateShape
  <2> QED
    BY <1>2, <2>1, <2>2, <2>3
<1>4. ASSUME freezer' = [freezer EXCEPT ![f].pc = pc, ![f].docs = docs]
      PROVE  FreezerBecomes(f, State(pc, docs, freezer[f].linked))
  <2>1. /\ freezer'[f] = [freezer[f] EXCEPT !.pc = pc, !.docs = docs]
        /\ \A g \in Freezers \ {f} : freezer'[g] = freezer[g]
        /\ freezer' = [g \in Freezers |-> freezer'[g]]
    BY <1>1, <1>4
  <2>2. freezer'[f] = State(pc, docs, freezer[f].linked)
    BY <2>1, FreezerShape, StateUpdates
  <2>3. State(pc, docs, freezer[f].linked) \in FreezerState
    BY FreezerShape, StateShape
  <2> QED
    BY <1>2, <2>1, <2>2, <2>3
<1>5. ASSUME freezer' = [freezer EXCEPT ![f].linked = linked]
      PROVE  FreezerBecomes(f, State(freezer[f].pc, freezer[f].docs, linked))
  <2>1. /\ freezer'[f] = [freezer[f] EXCEPT !.linked = linked]
        /\ \A g \in Freezers \ {f} : freezer'[g] = freezer[g]
        /\ freezer' = [g \in Freezers |-> freezer'[g]]
    BY <1>1, <1>5
  <2>2. freezer'[f] = State(freezer[f].pc, freezer[f].docs, linked)
    BY <2>1, FreezerShape, StateUpdates
  <2>3. State(freezer[f].pc, freezer[f].docs, linked) \in FreezerState
    BY FreezerShape, StateShape
  <2> QED
    BY <1>2, <2>1, <2>2, <2>3
<1>6. ASSUME freezer' = [freezer EXCEPT ![f].linked = linked, ![f].pc = pc]
      PROVE  FreezerBecomes(f, State(pc, freezer[f].docs, linked))
  <2>1. /\ freezer'[f] = [[freezer[f] EXCEPT !.linked = linked] EXCEPT !.pc = pc]
        /\ \A g \in Freezers \ {f} : freezer'[g] = freezer[g]
        /\ freezer' = [g \in Freezers |-> freezer'[g]]
    BY <1>1, <1>6
  <2>2. freezer'[f] = State(pc, freezer[f].docs, linked)
    <3>1. freezer[f] \in FreezerState
      BY FreezerShape
    <3>2. [[freezer[f] EXCEPT !.linked = linked] EXCEPT !.pc = pc]
            = State(pc, freezer[f].docs, linked)
      BY <3>1, StateUpdatesLinked
    <3> QED
      BY <2>1, <3>2
  <2>3. State(pc, freezer[f].docs, linked) \in FreezerState
    BY FreezerShape, StateShape
  <2> QED
    BY <1>2, <2>1, <2>2, <2>3
<1> QED
  BY <1>3, <1>4, <1>5, <1>6

(* Nothing a run does keeps the invariant of the others from holding when   *)
(* it ends up holding no links that were not its own before.                *)
LEMMA FreezerStep ==
    ASSUME FreezeInv, NEW f \in Freezers, NEW r \in FreezerState,
           FreezerBecomes(f, r), FreezerOK(f)',
           files' = [n \in Names |-> files'[n]], handed' \subseteq Bundles,
           \A g \in Freezers \ {f} : freezer[g].pc \in Holding =>
               \A k \in DOMAIN freezer[g].linked :
                   /\ files'[freezer[g].linked[k]] = files[freezer[g].linked[k]]
                   /\ r.pc \in Holding =>
                        \A j \in DOMAIN r.linked : r.linked[j] # freezer[g].linked[k]
    PROVE  FreezeInv'
<1>1. freezer'[f] = r /\ \A g \in Freezers \ {f} : freezer'[g] = freezer[g]
  BY DEF FreezerBecomes
<1>2. ASSUME NEW g \in Freezers PROVE FreezerOK(g)'
  <2>1. CASE g = f
    BY <2>1
  <2>2. CASE g # f
    <3>1. freezer'[g] = freezer[g] /\ FreezerOK(g)
      BY <1>1, <2>2 DEF FreezeInv
    <3>2. freezer[g].pc \in Holding =>
            \A k \in DOMAIN freezer[g].linked :
                files'[freezer[g].linked[k]] = files[freezer[g].linked[k]]
      BY <2>2
    <3> QED
      BY <3>1, <3>2 DEF FreezerOK
  <2> QED
    BY <2>1, <2>2
<1>3. LinksAreExclusive'
  <2> SUFFICES ASSUME NEW g \in Freezers, NEW h \in Freezers, g # h,
                      freezer'[g].pc \in Holding, freezer'[h].pc \in Holding,
                      NEW j \in DOMAIN freezer'[g].linked,
                      NEW k \in DOMAIN freezer'[h].linked
               PROVE  freezer'[g].linked[j] # freezer'[h].linked[k]
    BY DEF LinksAreExclusive
  <2>1. CASE g = f
    BY <1>1, <2>1
  <2>2. CASE h = f
    BY <1>1, <2>2
  <2>3. CASE g # f /\ h # f
    BY <1>1, <2>3 DEF FreezeInv, LinksAreExclusive
  <2> QED
    BY <2>1, <2>2, <2>3
<1> QED
  BY <1>2, <1>3 DEF FreezeInv, FreezerBecomes

(* A step that changes the run's pc only, to one that demands no more.      *)
LEMMA FreezerMoves ==
    ASSUME FreezeInv, NEW f \in Freezers, NEW to \in FreezerPcs,
           freezer' = [freezer EXCEPT ![f].pc = to],
           UNCHANGED <<files, handed>>,
           \/ freezer[f].pc = "ready" /\ to \in {"linking", "failed", "killed"}
           \/ freezer[f].pc = "linking" /\ to \in {"undoing", "killed"}
           \/ freezer[f].pc = "undoing" /\ to \in {"failed", "killed"}
    PROVE  FreezeInv'
<1> DEFINE r == State(to, freezer[f].docs, freezer[f].linked)
<1>1. r \in FreezerState
  BY FreezerShape, StateShape
<1>3. r.pc = to /\ r.docs = freezer[f].docs /\ r.linked = freezer[f].linked
  BY FreezerShape, StateShape
<1>4. FreezerBecomes(f, r)
  <2>1. freezer[f].docs \in Bundles
    BY DEF FreezeInv, FreezerOK, Active
  <2> QED
    BY <2>1, FreezerShape, FreezerUpdates
<1> HIDE DEF r
<1>5. FreezerOK(f) /\ files' = files /\ freezer'[f] = r
  BY <1>4 DEF FreezeInv, FreezerBecomes
<1>6. FreezerOK(f)'
  <2>1. CASE freezer[f].pc = "ready"
    <3>1. freezer[f].linked = <<>> /\ freezer[f].docs \in Bundles
      BY <1>5, <2>1 DEF FreezerOK, Active
    <3>2. Len(r.linked) = 0 /\ DOMAIN r.linked = {} /\ to \notin {"idle", "ready", "done"}
      BY <1>3, <2>1, <3>1
    <3> QED
      BY <1>3, <1>5, <3>1, <3>2 DEF FreezerOK, Active
  <2>2. CASE freezer[f].pc \in {"linking", "undoing"}
    BY <1>3, <1>5, <2>2 DEF FreezerOK, Active, Holding
  <2> QED
    BY <2>1, <2>2
<1>7. ASSUME NEW g \in Freezers \ {f}, freezer[g].pc \in Holding,
             NEW k \in DOMAIN freezer[g].linked,
             r.pc \in Holding, NEW j \in DOMAIN r.linked
      PROVE  r.linked[j] # freezer[g].linked[k]
  <2>1. CASE freezer[f].pc = "ready"
    <3>1. DOMAIN r.linked = {}
      BY <1>3, <1>5, <2>1 DEF FreezerOK
    <3> QED
      BY <1>7, <3>1
  <2>2. CASE freezer[f].pc \in Holding
    BY <1>3, <1>7, <2>2 DEF FreezeInv, LinksAreExclusive
  <2> QED
    BY <2>1, <2>2 DEF Holding
<1> QED
  BY <1>1, <1>4, <1>6, <1>7, FreezerStep DEF FreezeInv

LEMMA BeginFreezeInv ==
    ASSUME FreezeInv, NEW f \in Freezers, BeginFreeze(f), UNCHANGED handed
    PROVE  FreezeInv'
<1>1. PICK corpus \in Corpora, audit \in PartitionSets :
        /\ IsFreezable(corpus, audit, Partition)
        /\ freezer' = [freezer EXCEPT ![f].pc = "ready",
                          ![f].docs = Bundle(Holdout, corpus, Partition, audit, f)]
  BY DEF BeginFreeze
<1> DEFINE b == Bundle(Holdout, corpus, Partition, audit, f)
           r == State("ready", b, freezer[f].linked)
<1>2. b \in Bundles /\ "ready" \in FreezerPcs
  <2>1. b \in Bundles
    BY <1>1, BundleShape
  <2> QED
    BY <2>1 DEF FreezerPcs
<1>4. freezer' = [freezer EXCEPT ![f].pc = "ready", ![f].docs = b]
  BY <1>1
<1> HIDE DEF b
<1>3. r \in FreezerState
  BY <1>2, FreezerShape, StateShape
<1>5. r.pc = "ready" /\ r.docs = b /\ r.linked = freezer[f].linked
  BY <1>2, FreezerShape, StateShape
<1>6. FreezerBecomes(f, r)
  BY <1>2, <1>4, FreezerShape, FreezerUpdates
<1> HIDE DEF r
<1>7. FreezerOK(f) /\ freezer[f].pc = "idle" /\ freezer'[f] = r /\ files' = files
  BY <1>6 DEF FreezeInv, BeginFreeze, FreezerBecomes
<1>8. FreezerOK(f)'
  BY <1>2, <1>5, <1>7 DEF FreezerOK, Active, Holding
<1> QED
  BY <1>3, <1>5, <1>6, <1>7, <1>8, FreezerStep DEF FreezeInv, Holding

(* The name linked was free, so no run that holds links had it.             *)
LEMMA LinkInv ==
    ASSUME FreezeInv, NEW f \in Freezers, Link(f), UNCHANGED handed
    PROVE  FreezeInv'
<1> DEFINE old == freezer[f].linked
           n == Len(old) + 1
           name == BundleNames[n]
           b == freezer[f].docs
           to == IF Len(old) = 3 THEN "done" ELSE "linking"
           new == Append(old, name)
           r == State(to, b, new)
<1>1. /\ freezer[f].pc = "linking" /\ files[name] = None
      /\ files' = [files EXCEPT ![name] = b[name]]
      /\ freezer' = [freezer EXCEPT ![f].linked = new, ![f].pc = to]
  BY DEF Link
<1>2. /\ b \in Bundles /\ Len(old) <= 3
      /\ \A k \in DOMAIN old : old[k] = BundleNames[k] /\ files[old[k]] = b[old[k]]
  BY <1>1 DEF FreezeInv, FreezerOK, Active, Holding
<1>3. old \in Seq(Names) /\ Len(old) \in Nat /\ DOMAIN old = 1 .. Len(old)
  BY FreezerShape, LenProperties
<1>4. n \in 1 .. 4 /\ name \in Names
  BY <1>2, <1>3, BundleNamesFacts
<1>5. b[name] # None
  BY <1>2, <1>4, BundleDocuments
<1>a. freezer \in [Freezers -> FreezerState] /\ files = [x \in Names |-> files[x]]
  BY DEF FreezeInv
<1> HIDE DEF old, name, b, to, n
<1>6. /\ new \in Seq(Names) /\ Len(new) = n /\ DOMAIN new = 1 .. n
      /\ \A k \in 1 .. Len(old) : new[k] = old[k]
      /\ new[n] = name
  BY <1>3, <1>4, AppendProperties, LenProperties DEF n
<1> HIDE DEF new
<1>7. \A k \in 1 .. n : k = n \/ k \in 1 .. Len(old)
  BY <1>3 DEF n
<1>9. to \in FreezerPcs /\ to \in {"linking", "done"}
  BY DEF to, FreezerPcs
<1>8. r \in FreezerState
  BY <1>2, <1>6, <1>9, StateShape
<1>10. r.pc = to /\ r.docs = b /\ r.linked = new
  BY <1>2, <1>6, <1>9, StateShape
<1>11. FreezerBecomes(f, r) /\ freezer'[f] = r
  <2>1. FreezerBecomes(f, r)
    BY <1>1, <1>2, <1>6, <1>9, FreezerUpdates DEF b
  <2> QED
    BY <2>1 DEF FreezerBecomes
<1> HIDE DEF r
<1>12. /\ files' = [x \in Names |-> files'[x]]
       /\ files'[name] = b[name]
       /\ \A x \in Names \ {name} : files'[x] = files[x]
  BY <1>1, <1>4, <1>a
<1>13. \A k \in 1 .. n : new[k] = BundleNames[k]
  BY <1>2, <1>3, <1>6, <1>7 DEF name
<1>14. \A k \in 1 .. Len(old) : old[k] # name /\ old[k] \in Names
  <2> TAKE k \in 1 .. Len(old)
  <2>1. k \in 1 .. 4 /\ k # n /\ old[k] = BundleNames[k]
    BY <1>2, <1>3, <1>4 DEF n
  <2> QED
    BY <1>4, <2>1, BundleNamesFacts DEF name
<1>15. FreezerOK(f)'
  <2>1. Len(new) <= (IF to = "linking" THEN 3 ELSE 4)
        /\ (to = "done" => Len(new) = 4)
    BY <1>2, <1>3, <1>6 DEF to, n
  <2>2. \A k \in 1 .. n : files'[new[k]] = b[new[k]]
    BY <1>2, <1>3, <1>6, <1>7, <1>12, <1>14
  <2>3. \A j, k \in 1 .. n : new[j] = new[k] => j = k
    <3>1. \A k \in 1 .. n : k \in 1 .. 4
      BY <1>4
    <3> QED
      BY <1>13, <3>1, BundleNamesFacts
  <2>4. /\ freezer'[f].pc = to /\ freezer'[f].docs = b
        /\ freezer'[f].linked = new /\ DOMAIN new = 1 .. n
    BY <1>6, <1>10, <1>11
  <2>5. to \notin {"idle", "ready"}
    BY <1>9
  <2> QED
    BY <1>2, <1>13, <2>1, <2>2, <2>3, <2>4, <2>5 DEF FreezerOK
<1>16. ASSUME NEW g \in Freezers \ {f}, freezer[g].pc \in Holding,
              NEW k \in DOMAIN freezer[g].linked
       PROVE  /\ files'[freezer[g].linked[k]] = files[freezer[g].linked[k]]
              /\ \A j \in DOMAIN new : new[j] # freezer[g].linked[k]
  <2> DEFINE x == freezer[g].linked[k]
  <2>1. x \in Names
    BY FreezerShape, ElementOfSeq, LenProperties
  <2>2. freezer[g].docs \in Bundles /\ files[x] = freezer[g].docs[x]
    BY <1>16 DEF FreezeInv, FreezerOK, Active, Holding
  <2>3. x # name
    BY <1>1, <2>1, <2>2, BundleDocuments DEF name
  <2>4. \A j \in DOMAIN old : old[j] # x
    BY <1>1, <1>16 DEF FreezeInv, LinksAreExclusive, Holding, old
  <2> HIDE DEF x
  <2>5. \A j \in DOMAIN new : new[j] # x
    BY <1>3, <1>6, <1>7, <2>3, <2>4
  <2> QED
    BY <1>12, <2>1, <2>3, <2>5 DEF x
<1>17. handed' \subseteq Bundles
  BY DEF FreezeInv
<1>18. \A g \in Freezers \ {f} : freezer[g].pc \in Holding =>
           \A k \in DOMAIN freezer[g].linked :
               /\ files'[freezer[g].linked[k]] = files[freezer[g].linked[k]]
               /\ r.pc \in Holding =>
                    \A j \in DOMAIN r.linked : r.linked[j] # freezer[g].linked[k]
  BY <1>10, <1>16
<1> QED
  BY <1>8, <1>11, <1>12, <1>15, <1>17, <1>18, FreezerStep

(* Removing one element of a sequence leaves the others, in their order.    *)
LEMMA RemoveAtShape ==
    ASSUME NEW S, NEW s \in Seq(S), NEW k \in 1 .. Len(s)
    PROVE  /\ RemoveAt(s, k) \in Seq(S)
           /\ DOMAIN RemoveAt(s, k) = 1 .. (Len(s) - 1)
           /\ \A j \in 1 .. (Len(s) - 1) :
                 RemoveAt(s, k)[j] = s[IF j < k THEN j ELSE j + 1]
<1> DEFINE front == SubSeq(s, 1, k - 1)
           back == SubSeq(s, k + 1, Len(s))
<1>1. Len(s) \in Nat /\ \A j \in 1 .. Len(s) : s[j] \in S
  BY ElementOfSeq, LenProperties
<1>2. /\ front \in Seq(S) /\ Len(front) = k - 1
      /\ \A j \in 1 .. (k - 1) : front[j] = s[j]
  <2>1. 1 \in Int /\ k - 1 \in Int /\ \A j \in 1 .. (k - 1) : s[j] \in S
    BY <1>1
  <2>2. /\ front \in Seq(S) /\ Len(front) = IF 1 <= k - 1 THEN (k - 1) - 1 + 1 ELSE 0
        /\ \A j \in 1 .. ((k - 1) - 1 + 1) : front[j] = s[1 + j - 1]
    BY <2>1, SubSeqProperties
  <2> QED
    BY <1>1, <2>2
<1>3. /\ back \in Seq(S) /\ Len(back) = Len(s) - k
      /\ \A j \in 1 .. (Len(s) - k) : back[j] = s[k + j]
  <2>1. k + 1 \in Int /\ Len(s) \in Int /\ \A j \in (k + 1) .. Len(s) : s[j] \in S
    BY <1>1
  <2>2. /\ back \in Seq(S)
        /\ Len(back) = IF k + 1 <= Len(s) THEN Len(s) - (k + 1) + 1 ELSE 0
        /\ \A j \in 1 .. (Len(s) - (k + 1) + 1) : back[j] = s[(k + 1) + j - 1]
    BY <2>1, SubSeqProperties
  <2> QED
    BY <1>1, <2>2
<1> HIDE DEF front, back
<1>4. /\ front \o back \in Seq(S) /\ Len(front \o back) = Len(s) - 1
      /\ \A j \in 1 .. (Len(s) - 1) :
            (front \o back)[j] = IF j <= k - 1 THEN front[j] ELSE back[j - (k - 1)]
  <2>1. /\ front \o back \in Seq(S) /\ Len(front \o back) = Len(front) + Len(back)
        /\ \A j \in 1 .. (Len(front) + Len(back)) :
              (front \o back)[j] = IF j <= Len(front) THEN front[j] ELSE back[j - Len(front)]
    BY <1>2, <1>3, ConcatProperties
  <2> QED
    BY <1>1, <1>2, <1>3, <2>1
<1>5. ASSUME NEW j \in 1 .. (Len(s) - 1)
      PROVE  (front \o back)[j] = s[IF j < k THEN j ELSE j + 1]
  <2>1. CASE j < k
    BY <1>1, <1>2, <1>4, <2>1
  <2>2. CASE ~(j < k)
    <3>1. j - (k - 1) \in 1 .. (Len(s) - k) /\ k + (j - (k - 1)) = j + 1
      BY <1>1, <2>2
    <3>2. (front \o back)[j] = back[j - (k - 1)]
      BY <1>1, <1>4, <2>2
    <3> QED
      BY <1>3, <2>2, <3>1, <3>2
  <2> QED
    BY <2>1, <2>2
<1>6. RemoveAt(s, k) = front \o back
  BY DEF RemoveAt, front, back
<1> QED
  BY <1>1, <1>4, <1>5, <1>6, LenProperties

(* What a failed run removes was its own, and nobody else holds it.         *)
LEMMA UnlinkInv ==
    ASSUME FreezeInv, NEW f \in Freezers, Unlink(f), UNCHANGED handed
    PROVE  FreezeInv'
<1> DEFINE old == freezer[f].linked
           b == freezer[f].docs
<1>1. PICK k \in DOMAIN old, removed \in BOOLEAN :
        /\ freezer' = [freezer EXCEPT ![f].linked = RemoveAt(old, k)]
        /\ files' = IF removed THEN [files EXCEPT ![old[k]] = None] ELSE files
  BY DEF Unlink
<1> DEFINE new == RemoveAt(old, k)
           r == State("undoing", b, new)
<1>2. old \in Seq(Names) /\ Len(old) \in Nat /\ DOMAIN old = 1 .. Len(old)
  BY FreezerShape, LenProperties
<1>3. /\ freezer[f].pc = "undoing" /\ b \in Bundles
      /\ \A j \in DOMAIN old : files[old[j]] = b[old[j]]
      /\ \A i, j \in DOMAIN old : old[i] = old[j] => i = j
  BY DEF Unlink, FreezeInv, FreezerOK, Active, Holding
<1>4. freezer \in [Freezers -> FreezerState] /\ files = [x \in Names |-> files[x]]
  BY DEF FreezeInv
<1>5. \A j \in DOMAIN old : old[j] \in Names
  BY <1>2, ElementOfSeq
<1>b. freezer' = [freezer EXCEPT ![f].linked = new]
  BY <1>1
<1> HIDE DEF old, b
<1>6. /\ new \in Seq(Names) /\ DOMAIN new = 1 .. (Len(old) - 1)
      /\ \A j \in 1 .. (Len(old) - 1) : new[j] = old[IF j < k THEN j ELSE j + 1]
  BY <1>1, <1>2, RemoveAtShape
<1> HIDE DEF new
<1>7. \A j \in DOMAIN new : \E i \in DOMAIN old \ {k} : new[j] = old[i]
  <2> TAKE j \in DOMAIN new
  <2>1. (IF j < k THEN j ELSE j + 1) \in DOMAIN old \ {k}
    BY <1>1, <1>2, <1>6
  <2> QED
    BY <1>6, <2>1
<1>8. \A i, j \in DOMAIN new : new[i] = new[j] => i = j
  <2> TAKE i, j \in DOMAIN new
  <2> HAVE new[i] = new[j]
  <2>1. /\ (IF i < k THEN i ELSE i + 1) \in DOMAIN old
        /\ (IF j < k THEN j ELSE j + 1) \in DOMAIN old
    BY <1>1, <1>2, <1>6
  <2>2. (IF i < k THEN i ELSE i + 1) = (IF j < k THEN j ELSE j + 1)
    BY <1>3, <1>6, <2>1
  <2> QED
    BY <1>1, <1>2, <1>6, <2>2
<1>9. /\ files' = [x \in Names |-> files'[x]]
      /\ \A x \in Names \ {old[k]} : files'[x] = files[x]
  BY <1>1, <1>4
<1>10. "undoing" \in FreezerPcs
  BY DEF FreezerPcs
<1>11. r \in FreezerState /\ r.pc = "undoing" /\ r.docs = b /\ r.linked = new
  BY <1>3, <1>6, <1>10, StateShape
<1>12. FreezerBecomes(f, r) /\ freezer'[f] = r
  <2>1. FreezerBecomes(f, r)
    BY <1>3, <1>6, <1>10, <1>b, FreezerUpdates DEF b
  <2> QED
    BY <2>1 DEF FreezerBecomes
<1> HIDE DEF r
<1>13. \A j \in DOMAIN new : files'[new[j]] = b[new[j]]
  BY <1>1, <1>3, <1>5, <1>7, <1>9
<1>14. FreezerOK(f)'
  BY <1>3, <1>8, <1>11, <1>12, <1>13 DEF FreezerOK
<1>15. ASSUME NEW g \in Freezers \ {f}, freezer[g].pc \in Holding,
              NEW m \in DOMAIN freezer[g].linked
       PROVE  /\ files'[freezer[g].linked[m]] = files[freezer[g].linked[m]]
              /\ \A j \in DOMAIN new : new[j] # freezer[g].linked[m]
  <2> DEFINE x == freezer[g].linked[m]
  <2>1. x \in Names
    BY FreezerShape, ElementOfSeq, LenProperties
  <2>2. \A j \in DOMAIN old : old[j] # x
    BY <1>3, <1>15 DEF FreezeInv, LinksAreExclusive, Holding, old
  <2> HIDE DEF x
  <2> QED
    BY <1>1, <1>7, <1>9, <2>1, <2>2 DEF x
<1>16. handed' \subseteq Bundles
  BY DEF FreezeInv
<1>17. \A g \in Freezers \ {f} : freezer[g].pc \in Holding =>
           \A m \in DOMAIN freezer[g].linked :
               /\ files'[freezer[g].linked[m]] = files[freezer[g].linked[m]]
               /\ r.pc \in Holding =>
                    \A j \in DOMAIN r.linked : r.linked[j] # freezer[g].linked[m]
  BY <1>11, <1>15
<1> QED
  BY <1>9, <1>11, <1>12, <1>14, <1>16, <1>17, FreezerStep

(* Four different names linked are all of them.                             *)
LEMMA DoneIsWhole ==
    ASSUME FreezeInv, NEW f \in Freezers, freezer[f].pc = "done"
    PROVE  /\ freezer[f].docs \in Bundles /\ files = freezer[f].docs
           /\ \A n \in Names : \E k \in DOMAIN freezer[f].linked : freezer[f].linked[k] = n
<1> DEFINE linked == freezer[f].linked
           b == freezer[f].docs
<1>1. linked \in Seq(Names) /\ DOMAIN linked = 1 .. Len(linked)
  BY FreezerShape, LenProperties
<1>2. /\ b \in Bundles /\ Len(linked) = 4
      /\ \A k \in DOMAIN linked : linked[k] = BundleNames[k]
      /\ \A k \in DOMAIN linked : files[linked[k]] = b[linked[k]]
  BY DEF FreezeInv, FreezerOK, Active, Holding
<1>3. files = [n \in Names |-> files[n]] /\ b = [n \in Names |-> b[n]]
  BY <1>2, BundleDocuments DEF FreezeInv
<1> HIDE DEF linked, b
<1>4. \A n \in Names : \E k \in DOMAIN linked : linked[k] = n
  BY <1>1, <1>2, BundleNamesFacts
<1>5. \A n \in Names : files[n] = b[n]
  BY <1>2, <1>4
<1>6. files = b
  BY <1>3, <1>5
<1> QED
  BY <1>2, <1>4, <1>6 DEF linked, b

LEMMA HandOverInv ==
    ASSUME FreezeInv, NEW f \in Freezers, HandOver(f)
    PROVE  FreezeInv'
<1> DEFINE r == State("handed", freezer[f].docs, freezer[f].linked)
<1>1. /\ freezer[f].pc = "done" /\ handed' = handed \cup {files}
      /\ freezer' = [freezer EXCEPT ![f].pc = "handed"]
      /\ files' = [n \in DOMAIN files |-> None]
  BY DEF HandOver
<1>2. freezer[f].docs \in Bundles /\ files = freezer[f].docs
  BY <1>1, DoneIsWhole
<1>3. "handed" \in FreezerPcs
  BY DEF FreezerPcs
<1>4. r \in FreezerState /\ r.pc = "handed"
  BY <1>2, <1>3, FreezerShape, StateShape
<1>5. FreezerBecomes(f, r) /\ freezer'[f] = r
  <2>1. FreezerBecomes(f, r)
    BY <1>1, <1>2, <1>3, FreezerShape, FreezerUpdates
  <2> QED
    BY <2>1 DEF FreezerBecomes
<1> HIDE DEF r
<1>6. FreezerOK(f)'
  BY <1>4, <1>5 DEF FreezerOK, Active, Holding
<1>7. files' = [n \in Names |-> files'[n]]
  BY <1>1 DEF FreezeInv
<1>8. handed' \subseteq Bundles
  BY <1>1, <1>2 DEF FreezeInv
<1>9. ASSUME NEW g \in Freezers \ {f}, freezer[g].pc \in Holding,
             NEW k \in DOMAIN freezer[g].linked
      PROVE  FALSE
  <2>1. freezer[g].linked[k] \in Names
    BY FreezerShape, ElementOfSeq, LenProperties
  <2>2. PICK j \in DOMAIN freezer[f].linked : freezer[f].linked[j] = freezer[g].linked[k]
    BY <1>1, <2>1, DoneIsWhole
  <2> QED
    BY <1>1, <1>9, <2>2 DEF FreezeInv, LinksAreExclusive, Holding
<1> QED
  BY <1>4, <1>5, <1>6, <1>7, <1>8, <1>9, FreezerStep

LEMMA ClearInv ==
    ASSUME FreezeInv, Clear
    PROVE  FreezeInv'
<1>1. /\ files' = [n \in Names |-> files'[n]] /\ freezer' = freezer /\ handed' = handed
      /\ \A f \in Freezers : freezer[f].pc \notin Active \cup {"done"}
  BY DEF Clear, FreezeInv
<1>2. \A f \in Freezers : FreezerOK(f)'
  BY <1>1 DEF FreezeInv, FreezerOK, Active, Holding
<1>3. LinksAreExclusive'
  BY <1>1 DEF FreezeInv, LinksAreExclusive
<1> QED
  BY <1>1, <1>2, <1>3 DEF FreezeInv

LEMMA FreezeStepInv ==
    ASSUME FreezeInv, NEW f \in Freezers, Freeze(f)
    PROVE  FreezeInv'
<1> UNCHANGED handed
  BY DEF Freeze
<1>1. CASE BeginFreeze(f)
  BY <1>1, BeginFreezeInv
<1>2. CASE WriteTemporaries(f)
  <2>1. PICK fault \in BOOLEAN :
          freezer' = [freezer EXCEPT ![f].pc = IF BundleIsAbsent /\ ~fault THEN "linking"
                                               ELSE "failed"]
    BY <1>2 DEF WriteTemporaries
  <2> DEFINE to == IF BundleIsAbsent /\ ~fault THEN "linking" ELSE "failed"
  <2>2. to \in FreezerPcs /\ to \in {"linking", "failed", "killed"}
    BY DEF FreezerPcs
  <2>3. freezer' = [freezer EXCEPT ![f].pc = to] /\ freezer[f].pc = "ready"
        /\ files' = files
    BY <1>2, <2>1 DEF WriteTemporaries
  <2> HIDE DEF to
  <2> QED
    BY <2>2, <2>3, FreezerMoves
<1>3. CASE Link(f)
  BY <1>3, LinkInv
<1>4. CASE LinkFails(f)
  <2>1. "undoing" \in FreezerPcs
    BY DEF FreezerPcs
  <2> QED
    BY <1>4, <2>1, FreezerMoves DEF LinkFails
<1>5. CASE Unlink(f)
  BY <1>5, UnlinkInv
<1>6. CASE GiveUp(f)
  <2>1. "failed" \in FreezerPcs
    BY DEF FreezerPcs
  <2> QED
    BY <1>6, <2>1, FreezerMoves DEF GiveUp
<1>7. CASE KillFreezer(f)
  <2>1. "killed" \in FreezerPcs
    BY DEF FreezerPcs
  <2>2. freezer[f].pc \in {"ready", "linking", "undoing"} /\ files' = files
        /\ freezer' = [freezer EXCEPT ![f].pc = "killed"]
    BY <1>7 DEF KillFreezer, Active
  <2> QED
    BY <2>1, <2>2, FreezerMoves
<1> QED
  BY <1>1, <1>2, <1>3, <1>4, <1>5, <1>6, <1>7 DEF Freeze

LEMMA FreezeInvInit ==
    ASSUME Init PROVE FreezeInv
<1>1. files = [n \in Names |-> files[n]] /\ handed \subseteq Bundles
  BY BundleNamesFacts DEF Init
<1>2. <<>> \in Seq(Names) /\ "idle" \in FreezerPcs
  BY DEF FreezerPcs
<1>3. \A f \in Freezers : freezer[f] = State("idle", None, <<>>)
  BY DEF Init, State
<1>4. State("idle", None, <<>>) \in FreezerState
  BY <1>2, StateShape
<1>5. freezer \in [Freezers -> FreezerState]
  BY <1>3, <1>4 DEF Init, State
<1>6. \A f \in Freezers : freezer[f].pc = "idle" /\ freezer[f].linked = <<>>
  BY DEF Init
<1>7. \A f \in Freezers : FreezerOK(f)
  BY <1>6 DEF FreezerOK, Active, Holding
<1>8. LinksAreExclusive
  BY <1>6 DEF LinksAreExclusive, Holding
<1> QED
  BY <1>1, <1>5, <1>7, <1>8 DEF FreezeInv

LEMMA FreezeInvNext ==
    ASSUME FreezeInv, [Next]_vars PROVE FreezeInv'
<1>1. ASSUME NEW f \in Freezers, Freeze(f) PROVE FreezeInv'
  BY <1>1, FreezeStepInv
<1>2. ASSUME NEW f \in Freezers, HandOver(f) PROVE FreezeInv'
  BY <1>2, HandOverInv
<1>3. CASE Clear
  BY <1>3, ClearInv
<1>4. CASE UNCHANGED <<files, handed, freezer>>
  BY <1>4 DEF FreezeInv, FreezerOK, LinksAreExclusive
<1>5. ASSUME NEW i \in Inferrers, Infer(i) PROVE FreezeInv'
  BY <1>4, <1>5 DEF Infer
<1>6. ASSUME NEW s \in Scorers, Score(s) PROVE FreezeInv'
  BY <1>4, <1>6 DEF Score
<1> QED
  BY <1>1, <1>2, <1>3, <1>4, <1>5, <1>6 DEF Next, vars

-----------------------------------------------------------------------------
(* The index of an attempt: whole blocks of repeats, one block for a case.  *)
LEMMA BlockOf ==
    ASSUME NEW r \in Nat \ {0}, NEW n \in Nat, NEW k \in 1 .. (n * r)
    PROVE  ((k - 1) \div r) + 1 \in 1 .. n
  OBVIOUS

LEMMA IndexOf ==
    ASSUME NEW r \in Nat \ {0}, NEW n \in Nat, NEW c \in 1 .. n, NEW j \in 1 .. r
    PROVE  /\ (c - 1) * r + j \in 1 .. (n * r)
           /\ ((c - 1) * r + j - 1) \div r = c - 1
           /\ ((c - 1) * r + j - 1) % r = j - 1
  OBVIOUS

LEMMA WholeBlocks ==
    ASSUME NEW r \in Nat \ {0}, NEW n \in Nat
    PROVE  (n * r) % r = 0
  OBVIOUS

LEMMA InputOfCorpus ==
    ASSUME NEW input \in Inputs
    PROVE  \E corpus \in Corpora :
              /\ IsCorpus(corpus) /\ Len(corpus) \in Nat \ {0}
              /\ DOMAIN corpus = 1 .. Len(corpus)
              /\ input = InputOf(Holdout, corpus)
              /\ Len(input.cases) = Len(corpus) /\ DOMAIN input.cases = 1 .. Len(corpus)
              /\ \A c \in 1 .. Len(corpus) :
                    input.cases[c].eval = EvaluationId(Holdout, corpus[c])
<1>1. PICK b \in Bundles : input = b.input
  BY DEF Inputs
<1>2. PICK corpus \in Corpora, audit \in PartitionSets, f \in Freezers :
        /\ IsFreezable(corpus, audit, Partition)
        /\ b = Bundle(Holdout, corpus, Partition, audit, f)
  BY BundleOf
<1>3. input = InputOf(Holdout, corpus)
  BY <1>1, <1>2 DEF Bundle
<1>4. IsCorpus(corpus) /\ corpus # <<>> /\ corpus \in Seq(ToSet(corpus))
  BY <1>2, ParametersAssumption DEF IsFreezable, IsCorpus
<1>5. Len(corpus) \in Nat \ {0} /\ DOMAIN corpus = 1 .. Len(corpus)
  <2>1. Len(corpus) \in Nat /\ DOMAIN corpus = 1 .. Len(corpus)
    BY <1>4, LenProperties
  <2>2. Len(corpus) # 0
    BY <1>4, EmptySeq
  <2> QED
    BY <2>1, <2>2
<1>6. input.cases = [i \in 1 .. Len(corpus) |->
                        [eval |-> EvaluationId(Holdout, corpus[i]),
                         request |-> corpus[i].request]]
  BY <1>3, <1>5 DEF InputOf
<1>7. Len(input.cases) = Len(corpus) /\ DOMAIN input.cases = 1 .. Len(corpus)
  BY <1>5, <1>6
<1>8. \A c \in 1 .. Len(corpus) : input.cases[c].eval = EvaluationId(Holdout, corpus[c])
  BY <1>6
<1> QED
  BY <1>3, <1>4, <1>5, <1>7, <1>8

(* The attempts a run pays for are what the builder and the scorer ask for. *)
LEMMA TuplesAreBlocks ==
    ASSUME NEW input \in Inputs
    PROVE  /\ Size(input) \in Nat \ {0}
           /\ Len(Tuples(input, Repeats)) = Size(input)
           /\ \A k \in 1 .. Size(input) : TupleAt(input, Repeats, k) # None
           /\ AreBlocks(Tuples(input, Repeats), Repeats)
<1>1. PICK corpus \in Corpora :
              /\ IsCorpus(corpus) /\ Len(corpus) \in Nat \ {0}
              /\ DOMAIN corpus = 1 .. Len(corpus)
              /\ input = InputOf(Holdout, corpus)
              /\ Len(input.cases) = Len(corpus) /\ DOMAIN input.cases = 1 .. Len(corpus)
              /\ \A c \in 1 .. Len(corpus) :
                    input.cases[c].eval = EvaluationId(Holdout, corpus[c])
  BY InputOfCorpus
<1> DEFINE n == Len(corpus)
           t == Tuples(input, Repeats)
<1>2. Repeats \in Nat \ {0} /\ n \in Nat \ {0}
  BY <1>1, ParametersAssumption
<1>3. Size(input) = n * Repeats
  BY <1>1 DEF Size
<1>4. Size(input) \in Nat \ {0}
  BY <1>2, <1>3
<1>5. \A k \in 1 .. Size(input) : TupleAt(input, Repeats, k) # None
  BY <1>1, <1>3, NoneAssumption
<1>6. t = [k \in 1 .. Size(input) |-> TupleAt(input, Repeats, k)]
  BY DEF Tuples, Size
<1>7. Len(t) = Size(input) /\ DOMAIN t = 1 .. Size(input)
  BY <1>4, <1>6
<1>8. Len(t) % Repeats = 0
  <2>1. (n * Repeats) % Repeats = 0
    BY <1>2, WholeBlocks
  <2> QED
    BY <1>3, <1>7, <2>1
<1>9. ASSUME NEW k \in 1 .. Size(input)
      PROVE  /\ t[k].repeat = ((k - 1) % Repeats) + 1
             /\ t[k].eval = input.cases[((k - 1) \div Repeats) + 1].eval
  <2>1. t[k] = TupleAt(input, Repeats, k)
    BY <1>6
  <2> QED
    BY <2>1 DEF TupleAt
<1>10. ASSUME NEW j \in 1 .. Size(input), NEW k \in 1 .. Size(input)
       PROVE  t[j].eval = t[k].eval <=> (j - 1) \div Repeats = (k - 1) \div Repeats
  <2> DEFINE a == ((j - 1) \div Repeats) + 1
             b == ((k - 1) \div Repeats) + 1
  <2>1. a \in 1 .. n /\ b \in 1 .. n
    BY <1>2, <1>3, BlockOf
  <2>2. (j - 1) \div Repeats = (k - 1) \div Repeats <=> a = b
    BY <1>2
  <2>3. t[j].eval = <<Holdout, corpus[a].id>> /\ t[k].eval = <<Holdout, corpus[b].id>>
    BY <1>1, <1>9, <2>1 DEF EvaluationId
  <2>4. corpus[a].id = corpus[b].id => a = b
    BY <1>1, <2>1 DEF IsCorpus, AllDiffer
  <2> HIDE DEF a, b
  <2> QED
    BY <2>2, <2>3, <2>4
<1>11. t # <<>>
  BY <1>4, <1>7
<1> HIDE DEF t
<1> QED
  BY <1>4, <1>5, <1>7, <1>8, <1>9, <1>10, <1>11 DEF AreBlocks, t

-----------------------------------------------------------------------------
LEMMA InferInvInit ==
    ASSUME Init PROVE InferInv
<1>1. DOMAIN inferrer = Inferrers
  BY DEF Init
<1>2. ASSUME NEW i \in Inferrers
      PROVE  /\ DOMAIN inferrer[i] = InferrerFields /\ inferrer[i].pc = "idle"
             /\ inferrer[i].attempts = <<>> /\ inferrer[i].paid = <<>>
             /\ inferrer[i].cursor = 0 /\ inferrer[i].taken = [w \in Workers |-> 0]
  BY DEF Init, InferrerFields
<1> QED
  BY <1>1, <1>2 DEF InferInv, InferrerShape, InferrerOK

(* A run that has begun: its attempts are as many as its input asks for.    *)
LEMMA InferrerRuns ==
    ASSUME InferInv, NEW i \in Inferrers, inferrer[i].pc # "idle"
    PROVE  /\ DOMAIN inferrer[i] = InferrerFields /\ DOMAIN inferrer = Inferrers
           /\ inferrer[i].input \in Inputs /\ inferrer[i].pricing \in Pricings
           /\ Size(inferrer[i].input) \in Nat \ {0}
           /\ Count(i) = Size(inferrer[i].input)
           /\ inferrer[i].cursor \in 0 .. Size(inferrer[i].input)
           /\ inferrer[i].taken \in [Workers -> Nat]
           /\ inferrer[i].attempts
                 \in [1 .. Size(inferrer[i].input) -> Answers(inferrer[i].input)]
           /\ inferrer[i].paid \in [1 .. Size(inferrer[i].input) -> Nat]
           /\ InferrerOK(i)
<1>1. /\ InferrerShape(i) /\ InferrerOK(i) /\ DOMAIN inferrer = Inferrers
  BY DEF InferInv
<1> DEFINE n == Size(inferrer[i].input)
           a == inferrer[i].attempts
           S == Answers(inferrer[i].input)
<1>2. n \in Nat \ {0}
  BY <1>1, TuplesAreBlocks DEF InferrerShape
<1>3. a \in [1 .. n -> S]
  BY <1>1 DEF InferrerShape
<1> HIDE DEF n, a, S
<1>4. Len(a) = n
  BY <1>2, <1>3
<1> QED
  BY <1>1, <1>2, <1>4 DEF InferrerShape, Count, n, a

LEMMA InferStep ==
    ASSUME InferInv, NEW i \in Inferrers, DOMAIN inferrer' = Inferrers,
           \A j \in Inferrers \ {i} : inferrer'[j] = inferrer[j],
           InferrerShape(i)', InferrerOK(i)'
    PROVE  InferInv'
<1> SUFFICES ASSUME NEW j \in Inferrers PROVE InferrerShape(j)' /\ InferrerOK(j)'
  BY DEF InferInv
<1>1. CASE j = i
  BY <1>1
<1>2. CASE j # i
  BY <1>2 DEF InferInv, InferrerShape, InferrerOK
<1> QED
  BY <1>1, <1>2

LEMMA BeginInferInv ==
    ASSUME InferInv, handed \subseteq Bundles, NEW i \in Inferrers, BeginInfer(i)
    PROVE  InferInv'
<1>1. PICK b \in handed, pricing \in Pricings :
        LET n == Len(b.input.cases) * Repeats
        IN  inferrer' = [inferrer EXCEPT
               ![i] = [@ EXCEPT !.pc = "running", !.input = b.input,
                          !.pricing = pricing, !.attempts = [k \in 1..n |-> None],
                          !.paid = [k \in 1..n |-> 0]]]
  BY DEF BeginInfer
<1> DEFINE n == Size(b.input)
           run == inferrer'[i]
<1>2. /\ DOMAIN inferrer = Inferrers /\ DOMAIN inferrer[i] = InferrerFields
      /\ inferrer[i].cursor = 0 /\ inferrer[i].taken = [w \in Workers |-> 0]
  BY DEF InferInv, InferrerShape, BeginInfer
<1>3. inferrer' = [inferrer EXCEPT
          ![i] = [@ EXCEPT !.pc = "running", !.input = b.input,
                     !.pricing = pricing, !.attempts = [k \in 1..n |-> None],
                     !.paid = [k \in 1..n |-> 0]]]
  BY <1>1 DEF Size
<1>4. b.input \in Inputs
  BY DEF Inputs
<1> HIDE DEF n
<1>5. /\ DOMAIN inferrer' = Inferrers
      /\ \A j \in Inferrers \ {i} : inferrer'[j] = inferrer[j]
      /\ DOMAIN run = InferrerFields
      /\ run.pc = "running" /\ run.input = b.input /\ run.pricing = pricing
      /\ run.attempts = [k \in 1..n |-> None] /\ run.paid = [k \in 1..n |-> 0]
      /\ run.cursor = 0 /\ run.taken = [w \in Workers |-> 0]
  BY <1>2, <1>3 DEF InferrerFields
<1>6. n \in Nat \ {0}
  BY <1>4, TuplesAreBlocks DEF n
<1> HIDE DEF run
<1>7. InferrerShape(i)'
  <2>1. run.attempts \in [1 .. n -> Answers(b.input)]
    BY <1>5 DEF Answers
  <2>2. run.paid \in [1 .. n -> Nat] /\ run.taken \in [Workers -> Nat] /\ run.cursor \in 0 .. n
    BY <1>5, <1>6
  <2> QED
    BY <1>4, <1>5, <2>1, <2>2 DEF InferrerShape, run, n
<1>8. InferrerOK(i)'
  <2>1. \A k \in 1 .. n : run.paid[k] = IF k <= run.cursor THEN 1 ELSE 0
    BY <1>5
  <2>2. \A k \in 1 .. run.cursor : FALSE
    BY <1>5
  <2> QED
    BY <1>5, <2>1, <2>2 DEF InferrerOK, run, n
<1> QED
  BY <1>5, <1>7, <1>8, InferStep

LEMMA TakeInv ==
    ASSUME InferInv, NEW i \in Inferrers, NEW w \in Workers, Take(i, w)
    PROVE  InferInv'
<1> DEFINE old == inferrer[i]
           run == inferrer'[i]
           n == Size(old.input)
           k == old.cursor + 1
<1>1. /\ old.pc \in {"running", "failed"} /\ old.taken[w] = 0 /\ k <= Count(i)
      /\ inferrer' = [inferrer EXCEPT ![i].cursor = k, ![i].taken[w] = k,
                                      ![i].paid[k] = @ + 1]
  BY DEF Take
<1>2. /\ DOMAIN old = InferrerFields /\ DOMAIN inferrer = Inferrers
      /\ old.input \in Inputs /\ old.pricing \in Pricings /\ n \in Nat \ {0}
      /\ Count(i) = n /\ old.cursor \in 0 .. n /\ old.taken \in [Workers -> Nat]
      /\ old.attempts \in [1 .. n -> Answers(old.input)] /\ old.paid \in [1 .. n -> Nat]
      /\ InferrerOK(i)
  BY <1>1, InferrerRuns
<1>3. k \in 1 .. n
  BY <1>1, <1>2
<1>4. /\ DOMAIN inferrer' = Inferrers
      /\ \A j \in Inferrers \ {i} : inferrer'[j] = inferrer[j]
      /\ DOMAIN run = InferrerFields
      /\ run.pc = old.pc /\ run.input = old.input /\ run.pricing = old.pricing
      /\ run.attempts = old.attempts /\ run.cursor = k
      /\ run.taken = [old.taken EXCEPT ![w] = k]
      /\ run.paid = [old.paid EXCEPT ![k] = @ + 1]
  BY <1>1, <1>2 DEF InferrerFields
<1> HIDE DEF run, n
<1>5. InferrerShape(i)'
  <2>1. /\ run.paid \in [1 .. n -> Nat] /\ run.taken \in [Workers -> Nat]
        /\ run.cursor \in 0 .. n
    BY <1>2, <1>3, <1>4
  <2> QED
    BY <1>1, <1>2, <1>4, <2>1 DEF InferrerShape, run, n
<1>6. InferrerOK(i)'
  <2>1. ASSUME NEW j \in 1 .. n
        PROVE  run.paid[j] = IF j <= run.cursor THEN 1 ELSE 0
    <3>1. old.paid[j] = IF j <= old.cursor THEN 1 ELSE 0
      BY <1>1, <1>2 DEF InferrerOK, n
    <3> QED
      BY <1>2, <1>3, <1>4, <3>1
  <2>2. ASSUME run.pc = "running", NEW j \in 1 .. run.cursor
        PROVE  \/ run.attempts[j] = TupleAt(run.input, Repeats, j)
               \/ \E v \in Workers : run.taken[v] = j
    <3>1. CASE j = k
      BY <1>2, <1>4, <3>1
    <3>2. CASE j # k
      <4>1. j \in 1 .. old.cursor
        BY <1>2, <1>4, <3>2
      <4>2. \/ old.attempts[j] = TupleAt(old.input, Repeats, j)
            \/ \E v \in Workers : old.taken[v] = j
        BY <1>2, <1>4, <2>2, <4>1 DEF InferrerOK
      <4>3. \A v \in Workers : old.taken[v] = j => v # w
        BY <1>1, <4>1
      <4> QED
        BY <1>2, <1>4, <4>2, <4>3
    <3> QED
      BY <3>1, <3>2
  <2> QED
    BY <1>1, <1>4, <2>1, <2>2 DEF InferrerOK, run, n
<1> QED
  BY <1>4, <1>5, <1>6, InferStep

LEMMA AnswerInv ==
    ASSUME InferInv, NEW i \in Inferrers, NEW w \in Workers, Answer(i, w)
    PROVE  InferInv'
<1> DEFINE old == inferrer[i]
           run == inferrer'[i]
           n == Size(old.input)
           k == old.taken[w]
<1>1. /\ old.pc \in {"running", "failed"} /\ k \in 1 .. Count(i)
      /\ inferrer' = [inferrer EXCEPT ![i].taken[w] = 0,
             ![i].attempts = Place(@, k, TupleAt(old.input, Repeats, k))]
  BY DEF Answer
<1>2. /\ DOMAIN old = InferrerFields /\ DOMAIN inferrer = Inferrers
      /\ old.input \in Inputs /\ old.pricing \in Pricings /\ n \in Nat \ {0}
      /\ Count(i) = n /\ old.cursor \in 0 .. n /\ old.taken \in [Workers -> Nat]
      /\ old.attempts \in [1 .. n -> Answers(old.input)] /\ old.paid \in [1 .. n -> Nat]
      /\ InferrerOK(i)
  BY <1>1, InferrerRuns
<1>3. k \in 1 .. n
  BY <1>1, <1>2
<1>4. /\ DOMAIN inferrer' = Inferrers
      /\ \A j \in Inferrers \ {i} : inferrer'[j] = inferrer[j]
      /\ DOMAIN run = InferrerFields
      /\ run.pc = old.pc /\ run.input = old.input /\ run.pricing = old.pricing
      /\ run.cursor = old.cursor /\ run.paid = old.paid
      /\ run.taken = [old.taken EXCEPT ![w] = 0]
      /\ run.attempts = [old.attempts EXCEPT ![k] = TupleAt(old.input, Repeats, k)]
  BY <1>1, <1>2 DEF InferrerFields, Place
<1> HIDE DEF run, n
<1>5. InferrerShape(i)'
  <2>1. TupleAt(old.input, Repeats, k) \in Answers(old.input)
    BY <1>3 DEF Answers, n
  <2>2. run.attempts \in [1 .. n -> Answers(old.input)]
    BY <1>2, <1>4, <2>1
  <2>3. run.taken \in [Workers -> Nat]
    BY <1>2, <1>4
  <2> QED
    BY <1>1, <1>2, <1>4, <2>2, <2>3 DEF InferrerShape, run, n
<1>6. InferrerOK(i)'
  <2>1. \A j \in 1 .. n : run.paid[j] = IF j <= run.cursor THEN 1 ELSE 0
    BY <1>1, <1>2, <1>4 DEF InferrerOK, n
  <2>2. ASSUME run.pc = "running", NEW j \in 1 .. run.cursor
        PROVE  \/ run.attempts[j] = TupleAt(run.input, Repeats, j)
               \/ \E v \in Workers : run.taken[v] = j
    <3>1. j \in 1 .. n
      BY <1>2, <1>4
    <3>2. CASE j = k
      BY <1>2, <1>4, <3>1, <3>2
    <3>3. CASE j # k
      <4>1. \/ old.attempts[j] = TupleAt(old.input, Repeats, j)
            \/ \E v \in Workers \ {w} : old.taken[v] = j
        BY <1>2, <1>4, <2>2, <3>3 DEF InferrerOK
      <4> QED
        BY <1>2, <1>4, <3>1, <3>3, <4>1
    <3> QED
      BY <3>2, <3>3
  <2> QED
    BY <1>1, <1>4, <2>1, <2>2 DEF InferrerOK, run, n
<1> QED
  BY <1>4, <1>5, <1>6, InferStep

(* A step that changes the run's pc and what its workers hold, to a pc that *)
(* demands no more, or to one that asks for every answer.                   *)
LEMMA InferrerEnds ==
    ASSUME InferInv, NEW i \in Inferrers, NEW to, inferrer[i].pc # "idle",
           DOMAIN inferrer' = Inferrers, DOMAIN inferrer'[i] = InferrerFields,
           \A j \in Inferrers \ {i} : inferrer'[j] = inferrer[j],
           inferrer'[i].pc = to, inferrer'[i].input = inferrer[i].input,
           inferrer'[i].pricing = inferrer[i].pricing,
           inferrer'[i].cursor = inferrer[i].cursor,
           inferrer'[i].taken \in [Workers -> Nat],
           inferrer'[i].attempts = inferrer[i].attempts,
           inferrer'[i].paid = inferrer[i].paid,
           to \in {"failed", "killed", "built", "published"},
           to \in {"built", "published"} =>
               /\ inferrer[i].cursor = Size(inferrer[i].input)
               /\ inferrer[i].attempts = Tuples(inferrer[i].input, Repeats)
    PROVE  InferInv'
<1>1. InferrerShape(i)'
  BY InferrerRuns DEF InferrerShape
<1>2. InferrerOK(i)'
  BY InferrerRuns DEF InferrerOK
<1> QED
  BY <1>1, <1>2, InferStep

LEMMA AnswerIsRefusedInv ==
    ASSUME InferInv, NEW i \in Inferrers, NEW w \in Workers, AnswerIsRefused(i, w)
    PROVE  InferInv'
<1> DEFINE old == inferrer[i]
           run == inferrer'[i]
           n == Size(old.input)
<1>1. /\ old.pc \in {"running", "failed"}
      /\ inferrer' = [inferrer EXCEPT ![i].taken[w] = Count(i) + 1, ![i].pc = "failed"]
  BY DEF AnswerIsRefused
<1>2. /\ DOMAIN old = InferrerFields /\ DOMAIN inferrer = Inferrers
      /\ old.input \in Inputs /\ old.pricing \in Pricings /\ n \in Nat \ {0}
      /\ Count(i) = n /\ old.cursor \in 0 .. n /\ old.taken \in [Workers -> Nat]
      /\ old.attempts \in [1 .. n -> Answers(old.input)] /\ old.paid \in [1 .. n -> Nat]
      /\ InferrerOK(i)
  BY <1>1, InferrerRuns
<1>3. /\ DOMAIN inferrer' = Inferrers
      /\ \A j \in Inferrers \ {i} : inferrer'[j] = inferrer[j]
      /\ DOMAIN run = InferrerFields
      /\ run.pc = "failed" /\ run.input = old.input /\ run.pricing = old.pricing
      /\ run.cursor = old.cursor /\ run.paid = old.paid /\ run.attempts = old.attempts
      /\ run.taken = [old.taken EXCEPT ![w] = Count(i) + 1]
  BY <1>1, <1>2 DEF InferrerFields
<1>4. run.taken \in [Workers -> Nat]
  BY <1>2, <1>3
<1> QED
  BY <1>1, <1>3, <1>4, InferrerEnds

(* A step that changes the run's pc only.                                   *)
LEMMA InferrerMoves ==
    ASSUME InferInv, NEW i \in Inferrers, NEW to, inferrer[i].pc # "idle",
           inferrer' = [inferrer EXCEPT ![i].pc = to],
           to \in {"failed", "killed", "built", "published"},
           to \in {"built", "published"} =>
               /\ inferrer[i].cursor = Size(inferrer[i].input)
               /\ inferrer[i].attempts = Tuples(inferrer[i].input, Repeats)
    PROVE  InferInv'
<1>1. DOMAIN inferrer[i] = InferrerFields /\ DOMAIN inferrer = Inferrers
      /\ inferrer[i].taken \in [Workers -> Nat]
  BY InferrerRuns
<1>2. /\ DOMAIN inferrer' = Inferrers
      /\ \A j \in Inferrers \ {i} : inferrer'[j] = inferrer[j]
      /\ DOMAIN inferrer'[i] = InferrerFields
      /\ inferrer'[i].pc = to /\ inferrer'[i].input = inferrer[i].input
      /\ inferrer'[i].pricing = inferrer[i].pricing
      /\ inferrer'[i].cursor = inferrer[i].cursor /\ inferrer'[i].paid = inferrer[i].paid
      /\ inferrer'[i].attempts = inferrer[i].attempts
      /\ inferrer'[i].taken = inferrer[i].taken
  BY <1>1 DEF InferrerFields
<1> QED
  BY <1>1, <1>2, InferrerEnds

(* When nothing is in the hands of a worker, every attempt is answered.     *)
LEMMA FinishedIsBuilt ==
    ASSUME InferInv, NEW i \in Inferrers, inferrer[i].pc = "running", Finished(i)
    PROVE  /\ inferrer[i].cursor = Size(inferrer[i].input)
           /\ inferrer[i].attempts = Tuples(inferrer[i].input, Repeats)
           /\ BuildAccepts(inferrer[i].input, inferrer[i].attempts)
<1> DEFINE input == inferrer[i].input
           a == inferrer[i].attempts
           n == Size(input)
           t == Tuples(input, Repeats)
<1>1. /\ input \in Inputs /\ n \in Nat \ {0} /\ Count(i) = n
      /\ a \in [1 .. n -> Answers(input)] /\ InferrerOK(i)
  BY InferrerRuns
<1>2. inferrer[i].cursor = n /\ \A w \in Workers : inferrer[i].taken[w] = 0
  BY <1>1 DEF Finished
<1>3. \A k \in 1 .. n : a[k] = TupleAt(input, Repeats, k)
  BY <1>1, <1>2 DEF InferrerOK
<1>4. t = [k \in 1 .. n |-> TupleAt(input, Repeats, k)]
  BY DEF Tuples, Size
<1> HIDE DEF input, a, n, t
<1>5. a = t /\ DOMAIN a = 1 .. n
  BY <1>1, <1>3, <1>4
<1>6. AreBlocks(a, Repeats) /\ \A k \in 1 .. n : TupleAt(input, Repeats, k) # None
  BY <1>1, <1>5, TuplesAreBlocks DEF n, t
<1>7. BuildAccepts(input, a)
  BY <1>3, <1>5, <1>6 DEF BuildAccepts, AttemptIsFor
<1> QED
  BY <1>2, <1>5, <1>7 DEF input, a, n, t

LEMMA InferStepInv ==
    ASSUME InferInv, handed \subseteq Bundles, NEW i \in Inferrers, Infer(i)
    PROVE  InferInv'
<1>1. CASE BeginInfer(i)
  BY <1>1, BeginInferInv
<1>2. CASE BuildArtifact(i)
  <2>1. BuildAccepts(inferrer[i].input, inferrer[i].attempts)
        /\ inferrer[i].cursor = Size(inferrer[i].input)
        /\ inferrer[i].attempts = Tuples(inferrer[i].input, Repeats)
    BY <1>2, FinishedIsBuilt DEF BuildArtifact
  <2>2. inferrer' = [inferrer EXCEPT ![i].pc = "built"] /\ inferrer[i].pc = "running"
    BY <1>2, <2>1 DEF BuildArtifact
  <2> QED
    BY <2>1, <2>2, InferrerMoves
<1>3. CASE PublishArtifact(i)
  <2>1. PICK outcome \in {"published", "failed"} :
          inferrer' = [inferrer EXCEPT ![i].pc = outcome]
    BY <1>3 DEF PublishArtifact
  <2>2. inferrer[i].pc = "built" /\ InferrerOK(i)
    BY <1>3 DEF PublishArtifact, InferInv
  <2>3. inferrer[i].cursor = Size(inferrer[i].input)
        /\ inferrer[i].attempts = Tuples(inferrer[i].input, Repeats)
    BY <2>2 DEF InferrerOK
  <2> QED
    BY <2>1, <2>2, <2>3, InferrerMoves
<1>4. CASE KillInferrer(i)
  BY <1>4, InferrerMoves DEF KillInferrer
<1>5. ASSUME NEW w \in Workers, Take(i, w) \/ Answer(i, w) \/ AnswerIsRefused(i, w)
      PROVE  InferInv'
  BY <1>5, TakeInv, AnswerInv, AnswerIsRefusedInv
<1> QED
  BY <1>1, <1>2, <1>3, <1>4, <1>5 DEF Infer

LEMMA InferInvNext ==
    ASSUME FreezeInv, InferInv, [Next]_vars PROVE InferInv'
<1>1. handed \subseteq Bundles
  BY DEF FreezeInv
<1>2. ASSUME NEW i \in Inferrers, Infer(i) PROVE InferInv'
  BY <1>1, <1>2, InferStepInv
<1>3. CASE inferrer' = inferrer
  BY <1>3 DEF InferInv, InferrerShape, InferrerOK
<1>4. ASSUME NEW f \in Freezers, Freeze(f) \/ HandOver(f) PROVE InferInv'
  BY <1>3, <1>4 DEF Freeze, HandOver
<1>5. CASE Clear
  BY <1>3, <1>5 DEF Clear
<1>6. ASSUME NEW s \in Scorers, Score(s) PROVE InferInv'
  BY <1>3, <1>6 DEF Score
<1> QED
  BY <1>2, <1>3, <1>4, <1>5, <1>6 DEF Next, vars

-----------------------------------------------------------------------------
(* The documents of a bundle name one another.                              *)
LEMMA BundleIsTied ==
    ASSUME NEW b \in Bundles
    PROVE  /\ b.input \in Inputs
           /\ b.commitment.input = b.input /\ b.commitment.oracle = b.oracle
           /\ b.receipt = ReceiptOf(b.commitment) /\ b.receipt.commitment = b.commitment
<1>1. PICK corpus \in Corpora, audit \in PartitionSets, f \in Freezers :
         b = Bundle(Holdout, corpus, Partition, audit, f)
  BY BundleOf
<1>2. b.input = InputOf(Holdout, corpus) /\ b.oracle = OracleOf(Holdout, corpus)
      /\ b.commitment = CommitmentOf(Holdout, corpus, Partition, audit, f)
      /\ b.receipt = ReceiptOf(b.commitment)
  BY <1>1 DEF Bundle
<1>3. b.commitment.input = b.input /\ b.commitment.oracle = b.oracle
  BY <1>2 DEF CommitmentOf
<1>4. b.receipt.commitment = b.commitment
  BY <1>2 DEF ReceiptOf
<1> QED
  BY <1>2, <1>3, <1>4 DEF Inputs

(* Whatever files are given, those that are accepted are of one bundle.     *)
LEMMA AcceptedIsScorable ==
    ASSUME FreezeInv, InferInv,
           NEW a \in handed, NEW b \in handed, NEW c \in handed, NEW d \in handed,
           NEW artifact \in Artifacts, NEW pins, NEW pricing,
           MayScore([input |-> a.input, oracle |-> b.oracle, commitment |-> c.commitment,
                     receipt |-> d.receipt, artifact |-> artifact], pins, pricing)
    PROVE  Scorable([input |-> a.input, oracle |-> b.oracle, commitment |-> c.commitment,
                     receipt |-> d.receipt, artifact |-> artifact])
<1> DEFINE docs == [input |-> a.input, oracle |-> b.oracle, commitment |-> c.commitment,
                    receipt |-> d.receipt, artifact |-> artifact]
<1>1. /\ docs.input = a.input /\ docs.oracle = b.oracle /\ docs.receipt = d.receipt
      /\ docs.commitment = c.commitment /\ docs.artifact = artifact
  OBVIOUS
<1>2. /\ docs.commitment.input = docs.input /\ docs.commitment.oracle = docs.oracle
      /\ docs.receipt.commitment = docs.commitment /\ docs.artifact.input = docs.input
  BY DEF MayScore, CommitmentsMatch, DocumentsAreBound
<1> HIDE DEF docs
<1>3. a \in Bundles /\ b \in Bundles /\ c \in Bundles /\ d \in Bundles
  BY DEF FreezeInv
<1>4. a.input = c.input /\ b.oracle = c.oracle
  BY <1>1, <1>2, <1>3, BundleIsTied
<1>5. d.receipt = c.receipt
  BY <1>1, <1>2, <1>3, BundleIsTied
<1>6. PICK i \in Inferrers :
        /\ inferrer[i].pc = "published"
        /\ artifact = Artifact(inferrer[i].input, Repeats, inferrer[i].pricing,
                               inferrer[i].attempts)
  BY DEF Artifacts
<1>7. /\ inferrer[i].pricing \in Pricings
      /\ inferrer[i].attempts = Tuples(inferrer[i].input, Repeats)
  BY <1>6 DEF InferInv, InferrerShape, InferrerOK
<1>8. inferrer[i].input = c.input
  BY <1>1, <1>2, <1>4, <1>6 DEF Artifact
<1>9. docs = [input |-> c.input, oracle |-> c.oracle, commitment |-> c.commitment,
              receipt |-> c.receipt,
              artifact |-> Artifact(c.input, Repeats, inferrer[i].pricing,
                                    Tuples(c.input, Repeats))]
  BY <1>4, <1>5, <1>6, <1>7, <1>8 DEF docs
<1> QED
  BY <1>7, <1>9 DEF Scorable, docs

LEMMA ScoreInvInit ==
    ASSUME Init PROVE ScoreInv
<1>1. /\ DOMAIN scorer = Scorers /\ DOMAIN dir = {"made", "at"} /\ dir.made \in BOOLEAN
      /\ DOMAIN dir.at = ToSet(ResultNames)
  BY DEF Init
<1>2. ASSUME NEW s \in Scorers
      PROVE  /\ DOMAIN scorer[s] = {"pc", "docs", "linked"} /\ scorer[s].pc = "idle"
             /\ scorer[s].linked = <<>>
  BY DEF Init
<1>3. \A s \in Scorers : ScorerOK(s)
  <2>1. <<>> \in Seq(ToSet(ResultNames))
    OBVIOUS
  <2> QED
    BY <1>2, <2>1 DEF ScorerOK, Holding
<1>4. DirectoryIsExclusive
  BY <1>2 DEF DirectoryIsExclusive, Holding
<1> QED
  BY <1>1, <1>3, <1>4 DEF ScoreInv

(* A step of run s that leaves the directory, or the part of it that the    *)
(* others count on, as it was.                                              *)
LEMMA ScoreStep ==
    ASSUME ScoreInv, NEW s \in Scorers, DOMAIN scorer' = Scorers,
           \A t \in Scorers \ {s} : scorer'[t] = scorer[t],
           DOMAIN dir' = {"made", "at"}, dir'.made \in BOOLEAN,
           DOMAIN dir'.at = ToSet(ResultNames), handed' = handed,
           ScorerOK(s)',
           \A t \in Scorers \ {s} : scorer[t].pc \in Holding =>
               dir' = dir /\ scorer'[s].pc \notin Holding
    PROVE  ScoreInv'
<1>1. ASSUME NEW t \in Scorers PROVE ScorerOK(t)'
  <2>1. CASE t = s
    BY <2>1
  <2>2. CASE t # s
    <3>1. scorer'[t] = scorer[t] /\ ScorerOK(t)
      BY <2>2 DEF ScoreInv
    <3>2. Scorable(scorer[t].docs) => Scorable(scorer[t].docs)'
      BY <3>1 DEF Scorable
    <3>3. CASE scorer[t].pc \in Holding
      <4>1. dir' = dir
        BY <2>2, <3>3
      <4> QED
        BY <3>1, <3>2, <4>1 DEF ScorerOK
    <3>4. CASE scorer[t].pc \notin Holding
      BY <3>1, <3>4, <3>2 DEF ScorerOK, Holding
    <3> QED
      BY <3>3, <3>4
  <2> QED
    BY <2>1, <2>2
<1>2. DirectoryIsExclusive'
  BY DEF ScoreInv, DirectoryIsExclusive
<1> QED
  BY <1>1, <1>2 DEF ScoreInv

(* The run at work in the directory has it for itself.                      *)
LEMMA HolderIsAlone ==
    ASSUME ScoreInv, NEW s \in Scorers,
           scorer[s].pc \in Holding \/ ~dir.made
    PROVE  \A t \in Scorers \ {s} : scorer[t].pc \notin Holding
  BY DEF ScoreInv, ScorerOK, DirectoryIsExclusive

LEMMA ScorerShape ==
    ASSUME ScoreInv, NEW s \in Scorers
    PROVE  /\ DOMAIN scorer = Scorers /\ DOMAIN dir = {"made", "at"}
           /\ dir.made \in BOOLEAN /\ DOMAIN dir.at = ToSet(ResultNames)
           /\ DOMAIN scorer[s] = {"pc", "docs", "linked"}
           /\ scorer[s].linked \in Seq(ToSet(ResultNames))
           /\ Len(scorer[s].linked) \in Nat
           /\ DOMAIN scorer[s].linked = 1 .. Len(scorer[s].linked)
           /\ ScorerOK(s)
<1>1. ScorerOK(s) /\ scorer[s].linked \in Seq(ToSet(ResultNames))
  BY DEF ScoreInv, ScorerOK
<1> QED
  BY <1>1, LenProperties DEF ScoreInv, ScorerOK

(* A step that changes the run's pc only, and not the directory.            *)
LEMMA ScorerMoves ==
    ASSUME ScoreInv, NEW s \in Scorers, NEW to,
           scorer' = [scorer EXCEPT ![s].pc = to], UNCHANGED <<dir, handed>>,
           \/ scorer[s].pc \in Active /\ to \in {"failed", "killed"}
           \/ scorer[s].pc = "linking" /\ to = "undoing"
           \/ /\ scorer[s].pc = "linking" /\ to = "done"
              /\ Len(scorer[s].linked) = Len(ResultNames)
    PROVE  ScoreInv'
<1> DEFINE run == scorer'[s]
<1>1. /\ DOMAIN scorer' = Scorers
      /\ \A t \in Scorers \ {s} : scorer'[t] = scorer[t]
      /\ DOMAIN run = {"pc", "docs", "linked"}
      /\ run.pc = to /\ run.docs = scorer[s].docs /\ run.linked = scorer[s].linked
  BY ScorerShape
<1>2. ScorerOK(s) /\ dir' = dir /\ handed' = handed
  BY ScorerShape
<1>3. Scorable(scorer[s].docs) => Scorable(scorer[s].docs)'
  BY DEF Scorable
<1> HIDE DEF run
<1>4. ScorerOK(s)'
  BY <1>1, <1>2, <1>3 DEF ScorerOK, Active, Holding, run
<1>5. \A t \in Scorers \ {s} : scorer[t].pc \in Holding => run.pc \notin Holding
  <2>1. CASE to \in {"failed", "killed"}
    BY <1>1, <2>1 DEF Holding
  <2>2. CASE scorer[s].pc = "linking"
    BY <2>2, HolderIsAlone DEF Holding
  <2> QED
    BY <2>1, <2>2
<1> QED
  BY <1>1, <1>2, <1>4, <1>5, ScorerShape, ScoreStep DEF run

LEMMA BeginScoreInv ==
    ASSUME FreezeInv, InferInv, ScoreInv, NEW s \in Scorers, BeginScore(s),
           UNCHANGED handed
    PROVE  ScoreInv'
<1>1. PICK docs : Scorable(docs)
                  /\ scorer' = [scorer EXCEPT ![s].pc = "ready", ![s].docs = docs]
  BY AcceptedIsScorable DEF BeginScore
<1> DEFINE run == scorer'[s]
<1>2. /\ DOMAIN scorer' = Scorers
      /\ \A t \in Scorers \ {s} : scorer'[t] = scorer[t]
      /\ DOMAIN run = {"pc", "docs", "linked"}
      /\ run.pc = "ready" /\ run.docs = docs /\ run.linked = scorer[s].linked
  BY <1>1, ScorerShape
<1>3. ScorerOK(s) /\ dir' = dir /\ handed' = handed /\ scorer[s].pc = "idle"
  BY ScorerShape DEF BeginScore
<1>4. Scorable(docs)'
  BY <1>1, <1>3 DEF Scorable
<1> HIDE DEF run
<1>5. ScorerOK(s)'
  BY <1>2, <1>3, <1>4 DEF ScorerOK, Holding, run
<1>6. run.pc \notin Holding
  BY <1>2 DEF Holding
<1> QED
  BY <1>2, <1>3, <1>5, <1>6, ScorerShape, ScoreStep DEF run

(* The directory was not there, so nobody was at work in it.                *)
LEMMA ReserveInv ==
    ASSUME ScoreInv, NEW s \in Scorers, Reserve(s), UNCHANGED handed
    PROVE  ScoreInv'
<1>1. scorer[s].pc = "ready"
  BY DEF Reserve
<1>2. CASE scorer' = [scorer EXCEPT ![s].pc = "failed"] /\ dir' = dir
  BY <1>1, <1>2, ScorerMoves DEF Active
<1>3. CASE /\ scorer' = [scorer EXCEPT ![s].pc = "linking"] /\ ~dir.made
           /\ dir' = [dir EXCEPT !.made = TRUE]
  <2> DEFINE run == scorer'[s]
  <2>1. /\ DOMAIN scorer' = Scorers
        /\ \A t \in Scorers \ {s} : scorer'[t] = scorer[t]
        /\ DOMAIN run = {"pc", "docs", "linked"}
        /\ run.pc = "linking" /\ run.docs = scorer[s].docs
        /\ run.linked = scorer[s].linked
    BY <1>3, ScorerShape
  <2>2. /\ DOMAIN dir' = {"made", "at"} /\ dir'.made = TRUE /\ dir'.at = dir.at
        /\ DOMAIN dir'.at = ToSet(ResultNames)
    BY <1>3, ScorerShape
  <2>3. ScorerOK(s) /\ handed' = handed
    BY ScorerShape
  <2>4. scorer[s].linked = <<>> /\ Scorable(scorer[s].docs)
    BY <1>1, <2>3 DEF ScorerOK
  <2>5. Scorable(scorer[s].docs)'
    BY <2>1, <2>3, <2>4 DEF Scorable
  <2> HIDE DEF run
  <2>6. Len(run.linked) = 0 /\ Len(ResultNames) \in Nat
    BY <2>1, <2>4, ParametersAssumption
  <2>7. run.linked \in Seq(ToSet(ResultNames)) /\ \A k \in 1 .. Len(run.linked) : FALSE
    BY <2>1, <2>6, ScorerShape
  <2>8. ScorerOK(s)'
    BY <2>1, <2>2, <2>5, <2>6, <2>7 DEF ScorerOK, Holding, run
  <2>9. \A t \in Scorers \ {s} : scorer[t].pc \notin Holding
    BY <1>3, HolderIsAlone
  <2> QED
    BY <2>1, <2>2, <2>3, <2>8, <2>9, ScoreStep DEF run
<1> QED
  BY <1>2, <1>3 DEF Reserve

LEMMA LinkResultInv ==
    ASSUME ScoreInv, NEW s \in Scorers, LinkResult(s), UNCHANGED handed
    PROVE  ScoreInv'
<1> DEFINE old == scorer[s].linked
           n == Len(old) + 1
           name == ResultNames[n]
           run == scorer'[s]
<1>1. /\ scorer[s].pc = "linking" /\ Len(old) < Len(ResultNames) /\ dir.made
      /\ dir' = [dir EXCEPT !.at[name] = s]
      /\ scorer' = [scorer EXCEPT ![s].linked = Append(@, name)]
  BY DEF LinkResult
<1>2. /\ DOMAIN scorer' = Scorers
      /\ \A t \in Scorers \ {s} : scorer'[t] = scorer[t]
      /\ DOMAIN run = {"pc", "docs", "linked"}
      /\ run.pc = "linking" /\ run.docs = scorer[s].docs /\ run.linked = Append(old, name)
  BY <1>1, ScorerShape
<1>3. /\ old \in Seq(ToSet(ResultNames)) /\ Len(old) \in Nat /\ ScorerOK(s)
      /\ Len(ResultNames) \in Nat /\ handed' = handed
  BY ScorerShape, ParametersAssumption
<1>4. name \in ToSet(ResultNames)
  <2>1. n \in 1 .. Len(ResultNames) /\ DOMAIN ResultNames = 1 .. Len(ResultNames)
    BY <1>1, <1>3, ParametersAssumption
  <2> QED
    BY <2>1 DEF ToSet
<1>5. /\ \A k \in 1 .. Len(old) : old[k] = ResultNames[k] /\ dir.at[old[k]] = s
      /\ \A k \in 1 .. Len(old) : old[k] \in ToSet(ResultNames)
      /\ Scorable(scorer[s].docs)
  BY <1>1, <1>3, ElementOfSeq, LenProperties DEF ScorerOK
<1> HIDE DEF old, name
<1>6. /\ DOMAIN dir' = {"made", "at"} /\ dir'.made = TRUE
      /\ DOMAIN dir'.at = ToSet(ResultNames)
      /\ dir'.at[name] = s
      /\ \A x \in ToSet(ResultNames) \ {name} : dir'.at[x] = dir.at[x]
  BY <1>1, <1>4, ScorerShape
<1> HIDE DEF run
<1>7. /\ run.linked \in Seq(ToSet(ResultNames)) /\ Len(run.linked) = n
      /\ \A k \in 1 .. Len(old) : run.linked[k] = old[k]
      /\ run.linked[n] = name
  BY <1>2, <1>3, <1>4, AppendProperties
<1>8. ASSUME NEW k \in 1 .. n
      PROVE  run.linked[k] = ResultNames[k] /\ dir'.at[run.linked[k]] = s
  <2>1. CASE k = n
    BY <1>6, <1>7, <2>1 DEF name
  <2>2. CASE k # n
    <3>1. k \in 1 .. Len(old)
      BY <1>3, <2>2
    <3> QED
      BY <1>5, <1>6, <1>7, <3>1
  <2> QED
    BY <2>1, <2>2
<1>9. Scorable(scorer[s].docs)' /\ n <= Len(ResultNames)
  BY <1>1, <1>3, <1>5 DEF Scorable, old
<1>10. ScorerOK(s)'
  BY <1>2, <1>6, <1>7, <1>8, <1>9 DEF ScorerOK, Holding, run
<1>11. \A t \in Scorers \ {s} : scorer[t].pc \notin Holding
  BY <1>1, HolderIsAlone DEF Holding
<1> QED
  BY <1>2, <1>3, <1>6, <1>10, <1>11, ScoreStep DEF run

LEMMA UnlinkResultInv ==
    ASSUME ScoreInv, NEW s \in Scorers, UnlinkResult(s), UNCHANGED handed
    PROVE  ScoreInv'
<1> DEFINE old == scorer[s].linked
           run == scorer'[s]
<1>1. PICK removed \in BOOLEAN :
        dir' = IF removed THEN [dir EXCEPT !.at[Head(old)] = None] ELSE dir
  BY DEF UnlinkResult
<1>2. /\ scorer[s].pc = "undoing" /\ old # <<>>
      /\ scorer' = [scorer EXCEPT ![s].linked = Tail(@)]
  BY DEF UnlinkResult
<1>3. /\ DOMAIN scorer' = Scorers
      /\ \A t \in Scorers \ {s} : scorer'[t] = scorer[t]
      /\ DOMAIN run = {"pc", "docs", "linked"}
      /\ run.pc = "undoing" /\ run.docs = scorer[s].docs /\ run.linked = Tail(old)
  BY <1>2, ScorerShape
<1>4. /\ DOMAIN dir' = {"made", "at"} /\ dir'.made = dir.made
      /\ DOMAIN dir'.at = ToSet(ResultNames)
  BY <1>1, ScorerShape
<1>5. old \in Seq(ToSet(ResultNames)) /\ ScorerOK(s) /\ handed' = handed
  BY ScorerShape
<1>6. Tail(old) \in Seq(ToSet(ResultNames))
  BY <1>2, <1>5, HeadTailProperties
<1>7. Scorable(scorer[s].docs)' /\ dir.made
  BY <1>2, <1>3, <1>5 DEF ScorerOK, Scorable, Holding
<1> HIDE DEF old, run
<1>8. ScorerOK(s)'
  BY <1>3, <1>4, <1>6, <1>7 DEF ScorerOK, Holding, run
<1>9. \A t \in Scorers \ {s} : scorer[t].pc \notin Holding
  BY <1>2, HolderIsAlone DEF Holding
<1>10. dir'.made \in BOOLEAN
  BY <1>4, ScorerShape
<1> QED
  BY <1>3, <1>4, <1>5, <1>8, <1>9, <1>10, ScoreStep DEF run

LEMMA RemoveDirectoryInv ==
    ASSUME ScoreInv, NEW s \in Scorers, RemoveDirectory(s), UNCHANGED handed
    PROVE  ScoreInv'
<1> DEFINE run == scorer'[s]
<1>1. PICK removed \in BOOLEAN :
        dir' = [dir EXCEPT !.made =
                    ~(removed /\ \A n \in DOMAIN dir.at : dir.at[n] = None)]
  BY DEF RemoveDirectory
<1>2. /\ scorer[s].pc = "undoing" /\ scorer[s].linked = <<>>
      /\ scorer' = [scorer EXCEPT ![s].pc = "failed"]
  BY DEF RemoveDirectory
<1>3. /\ DOMAIN scorer' = Scorers
      /\ \A t \in Scorers \ {s} : scorer'[t] = scorer[t]
      /\ DOMAIN run = {"pc", "docs", "linked"}
      /\ run.pc = "failed" /\ run.docs = scorer[s].docs
      /\ run.linked = scorer[s].linked
  BY <1>2, ScorerShape
<1>4. /\ DOMAIN dir' = {"made", "at"} /\ dir'.made \in BOOLEAN
      /\ DOMAIN dir'.at = ToSet(ResultNames)
  BY <1>1, ScorerShape
<1>5. ScorerOK(s) /\ handed' = handed /\ run.linked \in Seq(ToSet(ResultNames))
  BY <1>3, ScorerShape
<1>6. Scorable(scorer[s].docs)'
  <2>1. Scorable(scorer[s].docs)
    BY <1>2, <1>5 DEF ScorerOK
  <2>2. scorer'[s].docs = scorer[s].docs
    BY <1>3
  <2> QED
    BY <1>5, <2>1, <2>2 DEF Scorable
<1> HIDE DEF run
<1>7. ScorerOK(s)'
  BY <1>3, <1>5, <1>6 DEF ScorerOK, Holding, run
<1>8. \A t \in Scorers \ {s} : scorer[t].pc \notin Holding
  BY <1>2, HolderIsAlone DEF Holding
<1> QED
  BY <1>3, <1>4, <1>5, <1>7, <1>8, ScoreStep DEF run

LEMMA ScoreStepInv ==
    ASSUME FreezeInv, InferInv, ScoreInv, NEW s \in Scorers, Score(s)
    PROVE  ScoreInv'
<1> UNCHANGED handed
  BY DEF Score
<1>1. CASE SyncResults(s)
  BY <1>1, ScorerMoves DEF SyncResults
<1>2. CASE PublicationFails(s)
  BY <1>2, ScorerMoves DEF PublicationFails
<1>3. CASE KillScorer(s)
  BY <1>3, ScorerMoves DEF KillScorer
<1> QED
  BY <1>1, <1>2, <1>3, BeginScoreInv, ReserveInv, LinkResultInv, UnlinkResultInv,
     RemoveDirectoryInv DEF Score

(* The other commands leave the scorers alone, and bundles are handed over  *)
(* for good.                                                                *)
LEMMA ScoreInvNext ==
    ASSUME FreezeInv, InferInv, ScoreInv, [Next]_vars PROVE ScoreInv'
<1>1. ASSUME NEW s \in Scorers, Score(s) PROVE ScoreInv'
  BY <1>1, ScoreStepInv
<1>2. CASE scorer' = scorer /\ dir' = dir /\ handed \subseteq handed'
  <2>1. \A s \in Scorers : Scorable(scorer[s].docs) => Scorable(scorer[s].docs)'
    BY <1>2 DEF Scorable
  <2>2. \A s \in Scorers : ScorerOK(s)'
    BY <1>2, <2>1 DEF ScoreInv, ScorerOK
  <2>3. DirectoryIsExclusive'
    BY <1>2 DEF ScoreInv, DirectoryIsExclusive
  <2> QED
    BY <1>2, <2>2, <2>3 DEF ScoreInv
<1>3. ASSUME NEW f \in Freezers, Freeze(f) \/ HandOver(f) PROVE ScoreInv'
  BY <1>2, <1>3 DEF Freeze, HandOver
<1>4. CASE Clear
  BY <1>2, <1>4 DEF Clear
<1>5. ASSUME NEW i \in Inferrers, Infer(i) PROVE ScoreInv'
  BY <1>2, <1>5 DEF Infer
<1>6. CASE UNCHANGED vars
  BY <1>2, <1>6 DEF vars
<1> QED
  BY <1>1, <1>3, <1>4, <1>5, <1>6 DEF Next

-----------------------------------------------------------------------------
(* Input and oracle make a corpus again, with evaluation ids for ids.       *)
LEMMA RejoinedIsCorpus ==
    ASSUME NEW b \in Bundles
    PROVE  Rejoin(b.input, b.oracle)
<1>1. PICK corpus \in Corpora, audit \in PartitionSets, f \in Freezers :
        /\ IsFreezable(corpus, audit, Partition)
        /\ b = Bundle(Holdout, corpus, Partition, audit, f)
  BY BundleOf
<1> DEFINE n == Len(corpus)
           input == b.input
           oracle == b.oracle
           cases == Rejoined(input, oracle)
<1>2. input = InputOf(Holdout, corpus) /\ oracle = OracleOf(Holdout, corpus)
  BY <1>1 DEF Bundle
<1>3. IsCorpus(corpus) /\ corpus # <<>> /\ corpus \in Seq(ToSet(corpus))
  BY <1>1, ParametersAssumption DEF IsFreezable, IsCorpus
<1>4. n \in Nat \ {0} /\ DOMAIN corpus = 1 .. n
  <2>1. n \in Nat /\ DOMAIN corpus = 1 .. n
    BY <1>3, LenProperties
  <2>2. n # 0
    BY <1>3, EmptySeq
  <2> QED
    BY <2>1, <2>2
<1> HIDE DEF n, input, oracle, cases
<1>5. input.cases = [i \in 1 .. n |-> [eval |-> EvaluationId(Holdout, corpus[i]),
                                       request |-> corpus[i].request]]
  BY <1>2, <1>4 DEF InputOf
<1>6. oracle.cases = [i \in 1 .. n |-> [eval |-> EvaluationId(Holdout, corpus[i]),
                                        family |-> corpus[i].family,
                                        split |-> corpus[i].split,
                                        label |-> corpus[i].label]]
  BY <1>2, <1>4 DEF OracleOf
<1>7. /\ Len(input.cases) = n /\ DOMAIN input.cases = 1 .. n
      /\ Len(oracle.cases) = n /\ DOMAIN oracle.cases = 1 .. n
  BY <1>4, <1>5, <1>6
<1>8. \A i \in 1 .. n :
        /\ input.cases[i].eval = <<Holdout, corpus[i].id>>
        /\ oracle.cases[i].eval = <<Holdout, corpus[i].id>>
        /\ input.cases[i].request = corpus[i].request
        /\ oracle.cases[i].family = corpus[i].family
        /\ oracle.cases[i].split = corpus[i].split
        /\ oracle.cases[i].label = corpus[i].label
  BY <1>5, <1>6 DEF EvaluationId
<1>9. cases = [i \in 1 .. n |->
          [id |-> input.cases[i].eval, request |-> input.cases[i].request,
           family |-> oracle.cases[i].family, split |-> oracle.cases[i].split,
           label |-> oracle.cases[i].label]]
  BY <1>7 DEF cases, Rejoined
<1>10. /\ DOMAIN cases = 1 .. n
       /\ \A i \in 1 .. n :
            /\ cases[i].id = <<Holdout, corpus[i].id>>
            /\ cases[i].request = corpus[i].request
            /\ cases[i].family = corpus[i].family
            /\ cases[i].split = corpus[i].split
            /\ cases[i].label = corpus[i].label
  BY <1>8, <1>9
<1>11. IsCorpus(cases)
  <2>1. cases # <<>>
    BY <1>4, <1>10
  <2>2. \A i \in DOMAIN cases : CaseIsValid(cases[i])
    BY <1>3, <1>4, <1>10 DEF IsCorpus, CaseIsValid
  <2>3. AllDiffer(cases, LAMBDA c : c.id)
    BY <1>3, <1>4, <1>10 DEF IsCorpus, AllDiffer
  <2>4. AllDiffer(cases, LAMBDA c : c.request)
    BY <1>3, <1>4, <1>10 DEF IsCorpus, AllDiffer
  <2>5. \A i, j \in DOMAIN cases :
          cases[i].family = cases[j].family => cases[i].split = cases[j].split
    BY <1>3, <1>4, <1>10 DEF IsCorpus
  <2> QED
    BY <2>1, <2>2, <2>3, <2>4, <2>5 DEF IsCorpus
<1> QED
  BY <1>7, <1>8, <1>11 DEF Rejoin, cases, input, oracle

(* The artifact of a finished run answers each case and repeat in its place. *)
LEMMA TuplesAreComplete ==
    ASSUME NEW input \in Inputs, NEW artifact,
           artifact.repeats = Repeats, artifact.attempts = Tuples(input, Repeats)
    PROVE  AttemptsAreComplete(input, artifact)
<1> DEFINE n == Len(input.cases)
           t == Tuples(input, Repeats)
<1>1. /\ n \in Nat /\ DOMAIN input.cases = 1 .. n
      /\ Repeats \in Nat \ {0} /\ Len(t) = n * Repeats
  BY InputOfCorpus, TuplesAreBlocks, ParametersAssumption DEF Size
<1>2. t = [k \in 1 .. (n * Repeats) |-> TupleAt(input, Repeats, k)]
  BY DEF Tuples
<1> HIDE DEF n, t
<1>3. ASSUME NEW c \in 1 .. n, NEW r \in 1 .. Repeats
      PROVE  AttemptIsFor(t[(c - 1) * Repeats + r],
                          [eval |-> input.cases[c].eval, repeat |-> r])
  <2> DEFINE k == (c - 1) * Repeats + r
  <2>1. k \in 1 .. (n * Repeats) /\ (k - 1) \div Repeats = c - 1
        /\ (k - 1) % Repeats = r - 1
    BY <1>1, IndexOf
  <2> HIDE DEF k
  <2>2. t[k] = TupleAt(input, Repeats, k)
    BY <1>2, <2>1
  <2>3. t[k].eval = input.cases[((k - 1) \div Repeats) + 1].eval
        /\ t[k].repeat = ((k - 1) % Repeats) + 1
    BY <2>2 DEF TupleAt
  <2>4. ((k - 1) \div Repeats) + 1 = c /\ ((k - 1) % Repeats) + 1 = r
    BY <2>1
  <2> QED
    BY <2>3, <2>4 DEF AttemptIsFor, k
<1> QED
  BY <1>1, <1>3 DEF AttemptsAreComplete, n, t

-----------------------------------------------------------------------------
(* What every freeze, inference and score has done so far.                  *)
THEOREM ProtocolHolds == Spec => []HInv
<1>1. Init => HInv
  BY FreezeInvInit, InferInvInit, ScoreInvInit DEF HInv
<1>2. HInv /\ [Next]_vars => HInv'
  BY FreezeInvNext, InferInvNext, ScoreInvNext DEF HInv
<1> QED
  BY <1>1, <1>2, PTL DEF Spec

(* A freeze that reports success leaves the four files of its own bundle,   *)
(* however many freezes race for those names, fail, or are killed.          *)
THEOREM FreezeIsWhole == Spec => []FrozenIsWhole
<1>1. HInv => FrozenIsWhole
  BY DoneIsWhole DEF HInv, FrozenIsWhole
<1> QED
  BY <1>1, ProtocolHolds, PTL

(* However many workers share the cursor, no case and repeat is paid for    *)
(* twice, and none is left out of an artifact.                              *)
THEOREM InferencePaysOnce == Spec => []PaysOnce
<1>1. HInv => PaysOnce
  <2> SUFFICES ASSUME HInv, NEW i \in Inferrers, NEW k \in DOMAIN inferrer[i].paid
               PROVE  /\ inferrer[i].paid[k] <= 1
                      /\ inferrer[i].pc \in {"built", "published"} => inferrer[i].paid[k] = 1
    BY DEF PaysOnce
  <2>1. inferrer[i].pc # "idle"
    BY DEF HInv, InferInv, InferrerShape
  <2>2. /\ inferrer[i].paid \in [1 .. Size(inferrer[i].input) -> Nat] /\ InferrerOK(i)
        /\ Size(inferrer[i].input) \in Nat
    BY <2>1, InferrerRuns DEF HInv
  <2> QED
    BY <2>1, <2>2 DEF InferrerOK
<1> QED
  BY <1>1, ProtocolHolds, PTL

(* The artifact of a run whose every answer was accepted is never refused   *)
(* by the builder, in whichever order the answers came in.                  *)
THEOREM AnsweredIsBuilt == Spec => []BuildsWhenAnswered
<1>1. HInv => BuildsWhenAnswered
  BY DEF HInv, InferInv, InferrerOK, BuildsWhenAnswered
<1> QED
  BY <1>1, ProtocolHolds, PTL

(* Whatever files a scorer is given and whichever bundles there are, it     *)
(* scores the documents of one freeze and an attempt at each case of it.    *)
THEOREM ScoresOneFreeze == Spec => []ScoreIsOfOneFreeze
<1>1. HInv => ScoreIsOfOneFreeze
  <2> SUFFICES ASSUME HInv, NEW s \in Scorers, scorer[s].pc # "idle"
               PROVE  \E b \in handed :
                         /\ \A n \in ToSet(BundleNames) : scorer[s].docs[n] = b[n]
                         /\ scorer[s].docs.artifact.attempts = Tuples(b.input, Repeats)
    BY DEF ScoreIsOfOneFreeze
  <2>1. PICK b \in handed, pricing \in Pricings :
        scorer[s].docs =
            [input |-> b.input, oracle |-> b.oracle, commitment |-> b.commitment,
             receipt |-> b.receipt,
             artifact |-> Artifact(b.input, Repeats, pricing, Tuples(b.input, Repeats))]
    BY DEF HInv, ScoreInv, ScorerOK, Scorable
  <2>2. \A n \in Names : scorer[s].docs[n] = b[n]
    BY <2>1 DEF Names
  <2>3. scorer[s].docs.artifact.attempts = Tuples(b.input, Repeats)
    BY <2>1 DEF Artifact
  <2> QED
    BY <2>2, <2>3, BundleNamesFacts
<1> QED
  BY <1>1, ProtocolHolds, PTL

(* A score that reports success is whole and its own, however many scorers  *)
(* try at that directory, fail half-way, or are killed.                     *)
THEOREM ScoreStaysWhole == Spec => []ScoreIsWhole
<1>1. HInv => ScoreIsWhole
  <2> SUFFICES ASSUME HInv, NEW s \in Scorers, scorer[s].pc = "done"
               PROVE  dir.made /\ \A n \in DOMAIN dir.at : dir.at[n] = s
    BY DEF ScoreIsWhole
  <2>1. /\ dir.made /\ Len(scorer[s].linked) = Len(ResultNames)
        /\ \A k \in 1 .. Len(scorer[s].linked) :
              scorer[s].linked[k] = ResultNames[k] /\ dir.at[scorer[s].linked[k]] = s
    BY DEF HInv, ScoreInv, ScorerOK, Holding
  <2>2. \A n \in ToSet(ResultNames) : \E k \in 1 .. Len(ResultNames) : n = ResultNames[k]
    BY ParametersAssumption DEF ToSet
  <2> QED
    BY <2>1, <2>2, ScorerShape DEF HInv
<1> QED
  BY <1>1, ProtocolHolds, PTL

(* What was frozen and then inferred is accepted by the scorer, whatever    *)
(* the corpus, the number of repeats and the prices.                        *)
THEOREM InferredIsScorable == Spec => []BoundIsScorable
<1>1. HInv => BoundIsScorable
  <2> SUFFICES ASSUME HInv, NEW b \in handed, NEW a \in Artifacts,
                      a.input = b.input, PriceIsReportable(a.pricing)
               PROVE  LET docs == [input |-> b.input, oracle |-> b.oracle,
                                   receipt |-> b.receipt,
                                   commitment |-> b.commitment, artifact |-> a]
                      IN  MayScore(docs, docs, a.pricing)
    BY DEF BoundIsScorable
  <2> DEFINE docs == [input |-> b.input, oracle |-> b.oracle, receipt |-> b.receipt,
                      commitment |-> b.commitment, artifact |-> a]
  <2>1. /\ docs.input = b.input /\ docs.oracle = b.oracle /\ docs.receipt = b.receipt
        /\ docs.commitment = b.commitment /\ docs.artifact = a
    OBVIOUS
  <2> HIDE DEF docs
  <2>2. b \in Bundles
    BY DEF HInv, FreezeInv
  <2>3. PICK i \in Inferrers :
          /\ inferrer[i].pc = "published"
          /\ a = Artifact(inferrer[i].input, Repeats, inferrer[i].pricing,
                          inferrer[i].attempts)
    BY DEF Artifacts
  <2>4. inferrer[i].attempts = Tuples(inferrer[i].input, Repeats)
    BY <2>3 DEF HInv, InferInv, InferrerOK
  <2>5. /\ a.input = b.input /\ a.holdout = b.input.holdout /\ a.repeats = Repeats
        /\ a.attempts = Tuples(b.input, Repeats)
    BY <2>3, <2>4 DEF Artifact
  <2>6. b.input \in Inputs
    BY <2>2, BundleIsTied
  <2>7. AreBlocks(a.attempts, a.repeats)
    BY <2>5, <2>6, TuplesAreBlocks
  <2>8. AttemptsAreComplete(b.input, a)
    BY <2>5, <2>6, TuplesAreComplete
  <2>9. Rejoin(b.input, b.oracle)
    BY <2>2, RejoinedIsCorpus
  <2>10. CommitmentsMatch(docs, docs) /\ DocumentsAreBound(docs)
    <3>1. PICK corpus \in Corpora, audit \in PartitionSets, f \in Freezers :
            b = Bundle(Holdout, corpus, Partition, audit, f)
      BY <2>2, BundleOf
    <3>2. /\ b.input = InputOf(Holdout, corpus) /\ b.oracle = OracleOf(Holdout, corpus)
          /\ b.commitment = CommitmentOf(Holdout, corpus, Partition, audit, f)
          /\ b.receipt = ReceiptOf(b.commitment)
      BY <3>1 DEF Bundle
    <3>3. /\ b.input.holdout = Holdout
          /\ b.oracle.holdout = Holdout /\ b.oracle.input = b.input
      BY <3>2 DEF InputOf, OracleOf
    <3>4. /\ b.commitment.holdout = Holdout /\ b.commitment.input = b.input
          /\ b.commitment.oracle = b.oracle /\ b.commitment.cases = Len(corpus)
      BY <3>2 DEF CommitmentOf
    <3>5. /\ b.receipt.holdout = b.commitment.holdout
          /\ b.receipt.input = b.commitment.input
          /\ b.receipt.commitment = b.commitment
          /\ b.receipt.partition = b.commitment.partition
          /\ b.receipt.audit = b.commitment.audit
      BY <3>2 DEF ReceiptOf
    <3>6. Len(b.input.cases) = Len(corpus)
      <4>1. Len(corpus) \in Nat /\ DOMAIN corpus = 1 .. Len(corpus)
        BY ParametersAssumption, LenProperties
      <4>2. b.input.cases = [k \in 1 .. Len(corpus) |->
                               [eval |-> EvaluationId(Holdout, corpus[k]),
                                request |-> corpus[k].request]]
        BY <3>2, <4>1 DEF InputOf
      <4> QED
        BY <4>1, <4>2
    <3>7. CommitmentsMatch(docs, docs)
      BY <2>1, <3>3, <3>4, <3>5, <3>6 DEF CommitmentsMatch
    <3>8. DocumentsAreBound(docs)
      BY <2>1, <2>5, <3>3 DEF DocumentsAreBound
    <3> QED
      BY <3>7, <3>8
  <2>11. MayScore(docs, docs, a.pricing)
    BY <2>1, <2>7, <2>8, <2>9, <2>10 DEF MayScore
  <2> QED
    BY <2>11 DEF docs
<1> QED
  BY <1>1, ProtocolHolds, PTL
=============================================================================
