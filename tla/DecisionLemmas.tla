--------------------------- MODULE DecisionLemmas ---------------------------
(***************************************************************************)
(* What the proofs about the gate, its store and the decision pipeline     *)
(* share: lemmas about their operators.                                    *)
(*                                                                         *)
(* The run decision store, for every set of runs, every setting            *)
(* snapshotOptions accepts and every clock: Sound(s) is what the inductive *)
(* invariants of the store and of the gate say of the store value; each    *)
(* operation is a composition of CleanupExpired, MakeRoom and Touch, and   *)
(* each of these preserves it.                                             *)
(*                                                                         *)
(* From a judge's reply to the value a hook returns, for every verdict and *)
(* every action: what a result that the gate can come to looks like, and   *)
(* what the feedback code, the hook value and the store's metadata make of *)
(* it.                                                                     *)
(***************************************************************************)
EXTENDS RunDecisions, Verdict, FiniteSetTheorems, SequenceTheorems,
        WellFoundedInduction, TLAPS

Sound(s) ==
    /\ StoreTypeOK(s)
    /\ IsFiniteSet(Resident(s))
    /\ WithinCapacity(s)
    /\ AllLive(s)
    /\ OrderedByAccess(s)
    /\ BelowLimits(s)

-----------------------------------------------------------------------------
(* What Keep leaves: the runs of S with the entries and the order they had. *)
LEMMA KeepShape ==
    ASSUME NEW s, StoreTypeOK(s), NEW S \in SUBSET Resident(s)
    PROVE  /\ StoreTypeOK(Keep(s, S))
           /\ Resident(Keep(s, S)) = S
           /\ \A r \in S : Keep(s, S).runs[r] = s.runs[r]
           /\ Keep(s, S).older = s.older \cap (S \X S)
           /\ Keep(s, S).lastClock = s.lastClock
  BY DEF StoreTypeOK, Keep, Resident

(* Dropping runs disturbs none of the invariants. *)
LEMMA KeepSound ==
    ASSUME NEW s, Sound(s), NEW S \in SUBSET Resident(s)
    PROVE  Sound(Keep(s, S))
<1> DEFINE k == Keep(s, S)
<1>1. /\ StoreTypeOK(k)
      /\ Resident(k) = S
      /\ \A r \in S : k.runs[r] = s.runs[r]
      /\ k.older = s.older \cap (S \X S)
      /\ k.lastClock = s.lastClock
  BY KeepShape DEF Sound
<1> HIDE DEF k
<1>2. IsFiniteSet(S) /\ Cardinality(S) <= Cardinality(Resident(s))
      /\ Cardinality(S) \in Nat /\ Cardinality(Resident(s)) \in Nat
  BY FS_Subset, FS_CardinalityType DEF Sound
<1>3. WithinCapacity(k)
  BY <1>1, <1>2, OptionsAssumption DEF Sound, WithinCapacity
<1>4. AllLive(k)
  BY <1>1 DEF Sound, AllLive
<1>5. OrderedByAccess(k)
  <2>1. \A p, q \in S : <<p, q>> \in k.older <=> <<p, q>> \in s.older
    BY <1>1
  <2> QED
    BY <1>1, <2>1 DEF Sound, OrderedByAccess, TotallyOrdered
<1>6. BelowLimits(k)
  BY <1>1 DEF Sound, BelowLimits
<1> QED
  BY <1>1, <1>2, <1>3, <1>4, <1>5, <1>6 DEF Sound, k

(* Expiry leaves exactly the runs that were used less than TtlMs ago.       *)
LEMMA CleanupShape ==
    ASSUME NEW s, StoreTypeOK(s), NEW t \in Nat
    PROVE  LET c == CleanupExpired(s, t)
               live == Resident(s) \ Expired(s, t)
           IN  /\ StoreTypeOK(c)
               /\ Resident(c) = live
               /\ \A r \in live : c.runs[r] = s.runs[r]
               /\ c.older = s.older \cap (live \X live)
               /\ c.lastClock = t
<1> DEFINE read == ReadClock(s, t)
           live == Resident(s) \ Expired(s, t)
<1>1. /\ StoreTypeOK(read)
      /\ Resident(read) = Resident(s)
      /\ read.runs = s.runs
      /\ read.older = s.older
      /\ read.lastClock = t
  BY DEF ReadClock, StoreTypeOK, Resident
<1>2. live \in SUBSET Resident(read)
  BY <1>1
<1> HIDE DEF read, live
<1> QED
  BY <1>1, <1>2, KeepShape DEF CleanupExpired, read, live

(* Once expired runs are gone, every run left is live at the new clock.     *)
LEMMA CleanupSound ==
    ASSUME NEW s, Sound(s), NEW t \in Nat, ClockValid(s, t)
    PROVE  Sound(CleanupExpired(s, t))
<1> DEFINE c == CleanupExpired(s, t)
           live == Resident(s) \ Expired(s, t)
           k == Keep(s, live)
<1>1. /\ StoreTypeOK(c)
      /\ Resident(c) = live
      /\ \A r \in live : c.runs[r] = s.runs[r]
      /\ c.older = s.older \cap (live \X live)
      /\ c.lastClock = t
  BY CleanupShape DEF Sound
<1>2. Sound(k) /\ Resident(k) = live
      /\ (\A r \in live : k.runs[r] = s.runs[r])
      /\ k.older = s.older \cap (live \X live)
  BY KeepSound, KeepShape DEF Sound
<1>3. AllLive(c)
  <2> SUFFICES ASSUME NEW r \in live
               PROVE  /\ s.runs[r].lastAccess <= t
                      /\ t - s.runs[r].lastAccess < TtlMs
    BY <1>1 DEF AllLive
  <2>1. s.runs[r].lastAccess \in Nat /\ s.lastClock \in Nat
    BY DEF Sound, StoreTypeOK, Entry
  <2>2. s.runs[r].lastAccess <= s.lastClock /\ s.lastClock <= t
    BY DEF Sound, AllLive, ClockValid
  <2>3. ~(t - s.runs[r].lastAccess >= TtlMs)
    BY DEF Expired
  <2> QED
    BY <2>1, <2>2, <2>3, OptionsAssumption
<1> HIDE DEF c, k, live
<1>4. OrderedByAccess(c) /\ BelowLimits(c) /\ WithinCapacity(c)
      /\ IsFiniteSet(Resident(c))
  <2>1. c.older = k.older /\ Resident(c) = Resident(k)
        /\ \A r \in Resident(k) : c.runs[r] = k.runs[r]
    BY <1>1, <1>2
  <2> QED
    BY <1>2, <2>1
       DEF Sound, OrderedByAccess, TotallyOrdered, BelowLimits, WithinCapacity
<1> QED
  BY <1>1, <1>3, <1>4 DEF Sound, c

-----------------------------------------------------------------------------
(* A store that holds a run has an oldest one: among the sets of runs that  *)
(* come before a resident there is a minimal one, and it is empty.          *)
LEMMA OldestExists ==
    ASSUME NEW s, Sound(s), Resident(s) # {}
    PROVE  IsOldest(s, Oldest(s))
<1> DEFINE before(r) == {q \in Resident(s) : <<q, r>> \in s.older}
           downs == {before(r) : r \in Resident(s)}
           R == StrictSubsetOrdering(Resident(s))
<1>1. IsWellFoundedOn(R, FiniteSubsetsOf(Resident(s)))
  BY FS_StrictSubsetOrderingWellFounded
<1>2. \A r \in Resident(s) : IsFiniteSet(before(r))
  <2> TAKE r \in Resident(s)
  <2> QED
    BY FS_Subset DEF Sound
<1>3. downs \subseteq FiniteSubsetsOf(Resident(s)) /\ downs # {}
  BY <1>2 DEF FiniteSubsetsOf
<1>4. PICK D \in downs : \A E \in downs : <<E, D>> \notin R
  BY <1>1, <1>3, WFMin
<1>5. PICK r \in Resident(s) : D = before(r)
  BY <1>4
<1>6. ASSUME NEW q \in Resident(s), <<q, r>> \in s.older
      PROVE  FALSE
  <2>1. before(q) \subseteq before(r) /\ q \in before(r) /\ q \notin before(q)
    BY <1>6 DEF Sound, OrderedByAccess, TotallyOrdered
  <2>2. <<before(q), before(r)>> \in R
    BY <2>1 DEF StrictSubsetOrdering
  <2> QED
    BY <1>4, <1>5, <2>2
<1>7. IsOldest(s, r)
  BY <1>6 DEF IsOldest, Sound, OrderedByAccess, TotallyOrdered
<1> QED
  BY <1>7 DEF Oldest, IsOldest

(* After MakeRoom there is room for one more run.                           *)
LEMMA MakeRoomSound ==
    ASSUME NEW s, Sound(s)
    PROVE  /\ Sound(MakeRoom(s))
           /\ Cardinality(Resident(MakeRoom(s))) < MaxRuns
           /\ Resident(MakeRoom(s)) \subseteq Resident(s)
           /\ MakeRoom(s).lastClock = s.lastClock
           /\ \A r \in Resident(MakeRoom(s)) :
                MakeRoom(s).runs[r] = s.runs[r]
<1>1. IsFiniteSet(Resident(s)) /\ Cardinality(Resident(s)) \in Nat
      /\ Cardinality(Resident(s)) <= MaxRuns /\ MaxRuns \in Nat \ {0}
  BY FS_CardinalityType, OptionsAssumption DEF Sound, WithinCapacity
<1>2. CASE Cardinality(Resident(s)) >= MaxRuns
  <2> DEFINE rest == Resident(s) \ {Oldest(s)}
  <2>1. Resident(s) # {}
    BY <1>1, <1>2, FS_EmptySet
  <2>2. Oldest(s) \in Resident(s)
    BY <2>1, OldestExists DEF IsOldest
  <2>3. Cardinality(rest) = Cardinality(Resident(s)) - 1
    BY <1>1, <2>2, FS_RemoveElement
  <2>4. MakeRoom(s) = Keep(s, rest)
    BY <1>2 DEF MakeRoom
  <2>5. Sound(Keep(s, rest))
    BY KeepSound
  <2>6. /\ Resident(Keep(s, rest)) = rest
        /\ Keep(s, rest).lastClock = s.lastClock
        /\ \A r \in rest : Keep(s, rest).runs[r] = s.runs[r]
    BY KeepShape DEF Sound
  <2>7. Cardinality(rest) < MaxRuns /\ rest \subseteq Resident(s)
    BY <1>1, <2>3
  <2> HIDE DEF rest
  <2> QED
    BY <2>4, <2>5, <2>6, <2>7
<1>3. CASE ~(Cardinality(Resident(s)) >= MaxRuns)
  BY <1>1, <1>3 DEF MakeRoom
<1> QED
  BY <1>2, <1>3

-----------------------------------------------------------------------------
(* What Touch leaves: r has the entry e and is the newest run.              *)
LEMMA TouchShape ==
    ASSUME NEW s, StoreTypeOK(s), NEW r \in Runs, NEW e \in Entry,
           Len(e.history) <= HistoryLimit, NEW t \in Nat
    PROVE  LET n == Touch(s, r, e, t)
               others == Resident(s) \ {r}
           IN  /\ StoreTypeOK(n)
               /\ Resident(n) = Resident(s) \cup {r}
               /\ n.runs[r] = Accessed(e, t)
               /\ \A q \in others : n.runs[q] = s.runs[q]
               /\ n.older = (s.older \cap (others \X others))
                              \cup (others \X {r})
               /\ n.lastClock = s.lastClock
<1> DEFINE n == Touch(s, r, e, t)
           others == Resident(s) \ {r}
<1>1. Resident(s) \cup {r} = others \cup {r}
  OBVIOUS
<1>2. /\ n.runs = [q \in others \cup {r} |->
                     IF q = r THEN Accessed(e, t) ELSE s.runs[q]]
      /\ n.older = (s.older \cap (others \X others)) \cup (others \X {r})
      /\ n.lastClock = s.lastClock
      /\ DOMAIN n = {"runs", "older", "lastClock"}
  BY DEF Touch
<1>3. Accessed(e, t) \in Entry /\ Accessed(e, t).history = e.history
  BY DEF Accessed, Entry
<1>4. \A q \in others : s.runs[q] \in Entry
                         /\ Len(s.runs[q].history) <= HistoryLimit
  BY DEF StoreTypeOK
<1>5. Resident(n) = Resident(s) \cup {r} /\ r \notin others
  BY <1>1, <1>2 DEF Resident
<1>6. Resident(s) \subseteq Runs /\ s.lastClock \in Nat
  BY DEF StoreTypeOK
<1> HIDE DEF n
<1>7. n.runs \in [Resident(n) -> Entry]
  BY <1>1, <1>2, <1>3, <1>4, <1>5
<1>8. \A q \in Resident(n) : Len(n.runs[q].history) <= HistoryLimit
  BY <1>1, <1>2, <1>3, <1>4, <1>5
<1>9. n.older \subseteq Resident(n) \X Resident(n)
  BY <1>1, <1>2, <1>5
<1>10. StoreTypeOK(n)
  BY <1>2, <1>5, <1>6, <1>7, <1>8, <1>9 DEF StoreTypeOK
<1>11. n.runs[r] = Accessed(e, t) /\ \A q \in others : n.runs[q] = s.runs[q]
  BY <1>2, <1>5
<1> QED
  BY <1>2, <1>5, <1>10, <1>11 DEF n

EntryOK(e) ==
    /\ e \in Entry
    /\ Len(e.history) <= HistoryLimit
    /\ ~e.tripped => /\ e.consecutiveDenies < ConsecutiveDenyLimit
                     /\ RollingDenies(e.history) < RollingDenyLimit

(* A run that is touched at the store's clock becomes the newest run and    *)
(* every invariant holds of the result, if there was room for it.           *)
LEMMA TouchSound ==
    ASSUME NEW s, Sound(s), NEW r \in Runs, NEW e, EntryOK(e),
           r \in Resident(s) \/ Cardinality(Resident(s)) < MaxRuns
    PROVE  Sound(Touch(s, r, e, s.lastClock))
<1> DEFINE t == s.lastClock
           n == Touch(s, r, e, t)
           others == Resident(s) \ {r}
<1>0. t \in Nat /\ e \in Entry /\ Len(e.history) <= HistoryLimit
  BY DEF Sound, StoreTypeOK, EntryOK
<1>1. /\ StoreTypeOK(n)
      /\ Resident(n) = Resident(s) \cup {r}
      /\ n.runs[r] = Accessed(e, t)
      /\ \A q \in others : n.runs[q] = s.runs[q]
      /\ n.older = (s.older \cap (others \X others)) \cup (others \X {r})
      /\ n.lastClock = t
  BY <1>0, TouchShape DEF Sound
<1>2. IsFiniteSet(Resident(s)) /\ Cardinality(Resident(s)) \in Nat
      /\ Cardinality(Resident(s)) <= MaxRuns /\ MaxRuns \in Nat
  BY FS_CardinalityType, OptionsAssumption DEF Sound, WithinCapacity
<1>4. n.runs[r].lastAccess = t /\ n.runs[r].tripped = e.tripped
      /\ n.runs[r].consecutiveDenies = e.consecutiveDenies
      /\ n.runs[r].history = e.history
  BY <1>1 DEF Accessed
<1>5. \A q \in Resident(n) : q = r \/ q \in others
  BY <1>1
<1>6. \A q \in others : /\ s.runs[q].lastAccess <= t
                         /\ t - s.runs[q].lastAccess < TtlMs
  BY DEF Sound, AllLive
<1> HIDE DEF n, t
<1>3. IsFiniteSet(Resident(n)) /\ WithinCapacity(n)
  <2>1. /\ IsFiniteSet(Resident(s) \cup {r})
        /\ Cardinality(Resident(s) \cup {r}) =
             IF r \in Resident(s) THEN Cardinality(Resident(s))
                                  ELSE Cardinality(Resident(s)) + 1
    BY <1>2, FS_AddElement
  <2>2. Cardinality(Resident(s) \cup {r}) <= MaxRuns
    BY <1>2, <2>1
  <2> QED
    BY <1>1, <2>1, <2>2 DEF WithinCapacity
<1>7. AllLive(n)
  BY <1>0, <1>1, <1>4, <1>5, <1>6, OptionsAssumption DEF AllLive
<1>8. TotallyOrdered(n)
  <2>1. TotallyOrdered(s)
    BY DEF Sound, OrderedByAccess
  <2>2. \A p, q \in Resident(n) :
          <<p, q>> \in n.older <=>
             /\ p \in others
             /\ q = r \/ (q \in others /\ <<p, q>> \in s.older)
    BY <1>1, <1>5
  <2> QED
    BY <1>5, <2>1, <2>2 DEF TotallyOrdered
<1>9. ASSUME NEW p \in Resident(n), NEW q \in Resident(n),
             <<p, q>> \in n.older
      PROVE  n.runs[p].lastAccess <= n.runs[q].lastAccess
  <2>1. p \in others /\ (q = r \/ (q \in others /\ <<p, q>> \in s.older))
    BY <1>1, <1>5, <1>9
  <2>2. CASE q = r
    BY <1>1, <1>4, <1>6, <2>1, <2>2
  <2>3. CASE q \in others /\ <<p, q>> \in s.older
    BY <1>1, <2>1, <2>3 DEF Sound, OrderedByAccess
  <2> QED
    BY <2>1, <2>2, <2>3
<1>10. BelowLimits(n)
  BY <1>1, <1>4, <1>5 DEF BelowLimits, Sound, EntryOK
<1> QED
  BY <1>1, <1>3, <1>7, <1>8, <1>9, <1>10 DEF Sound, OrderedByAccess, n, t

-----------------------------------------------------------------------------
LEMMA RollingDeniesType ==
    ASSUME NEW h \in Seq(Metadata)
    PROVE  RollingDenies(h) \in Nat
<1> DEFINE denials == {i \in DOMAIN h : h[i].outcome = "deny"}
<1>1. DOMAIN h = 1 .. Len(h) /\ Len(h) \in Nat
  OBVIOUS
<1>2. IsFiniteSet(DOMAIN h)
  BY <1>1, FS_Interval
<1>3. denials \in SUBSET DOMAIN h
  OBVIOUS
<1> QED
  BY <1>2, <1>3, FS_Subset, FS_CardinalityType DEF RollingDenies

(* The history stays a sequence of metadata within its limit.               *)
LEMMA SlideType ==
    ASSUME NEW h \in Seq(Metadata), Len(h) <= HistoryLimit,
           NEW m \in Metadata
    PROVE  Slide(h, m) \in Seq(Metadata) /\ Len(Slide(h, m)) <= HistoryLimit
<1> DEFINE longer == Append(h, m)
<1>1. longer \in Seq(Metadata) /\ Len(longer) = Len(h) + 1 /\ Len(h) \in Nat
  OBVIOUS
<1>2. Tail(longer) \in Seq(Metadata) /\ Len(Tail(longer)) = Len(h)
  BY <1>1
<1> QED
  BY <1>1, <1>2, OptionsAssumption DEF Slide

(* Recording keeps an entry well formed, keeps a tripped one tripped, and   *)
(* leaves an untripped one below both limits.                               *)
LEMMA RecordEntryOK ==
    ASSUME NEW e, EntryOK(e), NEW m \in Metadata
    PROVE  EntryOK(RecordEntry(e, m)) /\ (e.tripped => RecordEntry(e, m).tripped)
<1> DEFINE n == RecordEntry(e, m)
           h == Slide(e.history, IF e.tripped THEN RepeatedDenialMetadata ELSE m)
           d == IF e.tripped THEN e.consecutiveDenies
                             ELSE CountDenies(e.consecutiveDenies, m.outcome)
<1>1. e.history \in Seq(Metadata) /\ Len(e.history) <= HistoryLimit
      /\ e.consecutiveDenies \in Nat /\ e.lastAccess \in Nat
      /\ e.tripped \in BOOLEAN
  BY DEF EntryOK, Entry
<1>2. RepeatedDenialMetadata \in Metadata
  BY DEF RepeatedDenialMetadata, Metadata, Outcomes, Null, ReasonCodes, HostCodes
<1>3. h \in Seq(Metadata) /\ Len(h) <= HistoryLimit
  BY <1>1, <1>2, SlideType
<1>4. RollingDenies(h) \in Nat
  BY <1>3, RollingDeniesType
<1>5. d \in Nat
  BY <1>1 DEF CountDenies
<1>6. ConsecutiveDenyLimit \in Nat /\ RollingDenyLimit \in Nat
  BY OptionsAssumption
<1> HIDE DEF h, d
<1>7. n = [lastAccess |-> e.lastAccess, history |-> h, consecutiveDenies |-> d,
           tripped |-> \/ e.tripped
                       \/ d >= ConsecutiveDenyLimit
                       \/ RollingDenies(h) >= RollingDenyLimit]
  BY DEF RecordEntry, h, d
<1> HIDE DEF n
<1>8. n.lastAccess = e.lastAccess /\ n.history = h /\ n.consecutiveDenies = d
      /\ n.tripped = (\/ e.tripped
                      \/ d >= ConsecutiveDenyLimit
                      \/ RollingDenies(h) >= RollingDenyLimit)
      /\ n.tripped \in BOOLEAN
  BY <1>1, <1>7
<1>9. n \in Entry
  BY <1>1, <1>3, <1>5, <1>7 DEF Entry
<1>10. ~n.tripped => d < ConsecutiveDenyLimit /\ RollingDenies(h) < RollingDenyLimit
  BY <1>4, <1>5, <1>6, <1>8
<1>11. e.tripped => n.tripped
  BY <1>8
<1> QED
  BY <1>3, <1>8, <1>9, <1>10, <1>11 DEF EntryOK, n

LEMMA NewEntryOK ==
    ASSUME NEW t \in Nat
    PROVE  EntryOK(NewEntry(t))
<1>1. <<>> \in Seq(Metadata) /\ Len(<<>>) = 0
  OBVIOUS
<1>2. RollingDenies(<<>>) = 0
  BY FS_EmptySet DEF RollingDenies
<1> QED
  BY <1>1, <1>2, OptionsAssumption DEF EntryOK, NewEntry, Entry

LEMMA ResidentEntryOK ==
    ASSUME NEW s, Sound(s), NEW r \in Resident(s)
    PROVE  EntryOK(s.runs[r]) /\ r \in Runs
  BY DEF Sound, StoreTypeOK, BelowLimits, EntryOK

(* find, and so isTripped and snapshot.                                     *)
LEMMA FindSound ==
    ASSUME NEW s, Sound(s), NEW r \in Runs, NEW t \in Nat, ClockValid(s, t)
    PROVE  Sound(Find(s, r, t))
<1> DEFINE c == CleanupExpired(s, t)
<1>1. Sound(c) /\ c.lastClock = t
  BY CleanupSound, CleanupShape DEF Sound
<1> HIDE DEF c
<1>2. CASE r \in Resident(c)
  <2>1. EntryOK(c.runs[r])
    BY <1>1, <1>2, ResidentEntryOK
  <2>2. Sound(Touch(c, r, c.runs[r], t))
    BY <1>1, <1>2, <2>1, TouchSound
  <2> QED
    BY <1>2, <2>2 DEF Find, c
<1>3. CASE r \notin Resident(c)
  BY <1>1, <1>3 DEF Find, c
<1> QED
  BY <1>2, <1>3

(* record, of a known run and of a new one.                                 *)
LEMMA RecordSound ==
    ASSUME NEW s, Sound(s), NEW r \in Runs, NEW m \in Metadata,
           NEW t \in Nat, ClockValid(s, t)
    PROVE  Sound(Record(s, r, m, t))
<1> DEFINE c == CleanupExpired(s, t)
<1>1. Sound(c) /\ c.lastClock = t
  BY CleanupSound, CleanupShape DEF Sound
<1> HIDE DEF c
<1>2. CASE r \in Resident(c)
  <2>1. EntryOK(RecordEntry(c.runs[r], m))
    BY <1>1, <1>2, ResidentEntryOK, RecordEntryOK
  <2>2. Sound(Touch(c, r, RecordEntry(c.runs[r], m), t))
    BY <1>1, <1>2, <2>1, TouchSound
  <2> QED
    BY <1>2, <2>2 DEF Record, c
<1>3. CASE r \notin Resident(c)
  <2>1. EntryOK(RecordEntry(NewEntry(t), m))
    BY NewEntryOK, RecordEntryOK
  <2>2. /\ Sound(MakeRoom(c)) /\ MakeRoom(c).lastClock = t
        /\ Cardinality(Resident(MakeRoom(c))) < MaxRuns
    BY <1>1, MakeRoomSound
  <2>3. Sound(Touch(MakeRoom(c), r, RecordEntry(NewEntry(t), m), t))
    BY <2>1, <2>2, TouchSound
  <2> QED
    BY <1>3, <2>3 DEF Record, c
<1> QED
  BY <1>2, <1>3

(* A store that was just created.                                           *)
LEMMA EmptyStoreSound ==
    ASSUME NEW t \in Nat
    PROVE  Sound(EmptyStore(t))
<1> DEFINE s == EmptyStore(t)
<1>1. Resident(s) = {} /\ s.older = {} /\ s.lastClock = t
      /\ DOMAIN s = {"runs", "older", "lastClock"}
  BY DEF EmptyStore, Resident
<1>2. s.runs \in [Resident(s) -> Entry]
  BY <1>1 DEF EmptyStore, Resident
<1> HIDE DEF s
<1>3. StoreTypeOK(s)
  BY <1>1, <1>2 DEF StoreTypeOK
<1>4. IsFiniteSet(Resident(s)) /\ WithinCapacity(s)
  BY <1>1, FS_EmptySet, OptionsAssumption DEF WithinCapacity
<1>5. AllLive(s) /\ OrderedByAccess(s) /\ BelowLimits(s)
  BY <1>1 DEF AllLive, OrderedByAccess, TotallyOrdered, BelowLimits
<1> QED
  BY <1>3, <1>4, <1>5 DEF Sound, s

-----------------------------------------------------------------------------
(* What an access leaves of an entry: everything but the time.              *)
SameRecord(e, f) ==
    /\ e.history = f.history
    /\ e.consecutiveDenies = f.consecutiveDenies
    /\ e.tripped = f.tripped

(* isTripped, snapshot and size forget the expired runs and no other, and   *)
(* leave what the other entries record.                                     *)
LEMMA FindShape ==
    ASSUME NEW s, Sound(s), NEW r \in Runs, NEW t \in Nat, ClockValid(s, t)
    PROVE  LET n == Find(s, r, t)
           IN  /\ Resident(n) \subseteq Resident(s)
               /\ \A q \in Resident(n) : SameRecord(n.runs[q], s.runs[q])
<1> DEFINE c == CleanupExpired(s, t)
           live == Resident(s) \ Expired(s, t)
<1>1. /\ Sound(c) /\ StoreTypeOK(c) /\ Resident(c) = live
      /\ \A q \in live : c.runs[q] = s.runs[q]
  BY CleanupSound, CleanupShape DEF Sound
<1>2. live \subseteq Resident(s)
  OBVIOUS
<1> HIDE DEF c, live
<1>3. CASE r \in Resident(c)
  <2> DEFINE n == Touch(c, r, c.runs[r], t)
  <2>1. EntryOK(c.runs[r])
    BY <1>1, <1>3, ResidentEntryOK
  <2>2. /\ Resident(n) = Resident(c) \cup {r}
        /\ n.runs[r] = Accessed(c.runs[r], t)
        /\ \A q \in Resident(c) \ {r} : n.runs[q] = c.runs[q]
    BY <1>1, <2>1, TouchShape DEF EntryOK
  <2>3. n = Find(s, r, t)
    BY <1>3 DEF Find, c
  <2>4. SameRecord(Accessed(c.runs[r], t), c.runs[r])
    BY DEF SameRecord, Accessed
  <2> HIDE DEF n
  <2> QED
    BY <1>1, <1>2, <1>3, <2>2, <2>3, <2>4 DEF SameRecord
<1>4. CASE r \notin Resident(c)
  <2>1. Find(s, r, t) = c
    BY <1>4 DEF Find, c
  <2> QED
    BY <1>1, <1>2, <2>1 DEF SameRecord
<1> QED
  BY <1>3, <1>4

(* record leaves r with its old entry, or a new one, one decision further;  *)
(* it forgets expired runs, and one more only when r is new.                *)
LEMMA RecordShape ==
    ASSUME NEW s, Sound(s), NEW r \in Runs, NEW m \in Metadata,
           NEW t \in Nat, ClockValid(s, t)
    PROVE  LET n == Record(s, r, m, t)
               known == Resident(CleanupExpired(s, t))
               old == IF r \in known THEN s.runs[r] ELSE NewEntry(t)
           IN  /\ known \subseteq Resident(s)
               /\ Resident(n) \ {r} \subseteq known
               /\ r \in Resident(n)
               /\ EntryOK(old)
               /\ SameRecord(n.runs[r], RecordEntry(old, m))
               /\ \A q \in Resident(n) \ {r} : n.runs[q] = s.runs[q]
<1> DEFINE n == Record(s, r, m, t)
           c == CleanupExpired(s, t)
           old == IF r \in Resident(c) THEN s.runs[r] ELSE NewEntry(t)
           room == IF r \in Resident(c) THEN c ELSE MakeRoom(c)
<1>1. /\ Sound(c) /\ StoreTypeOK(c) /\ Resident(c) \subseteq Resident(s)
      /\ \A q \in Resident(c) : c.runs[q] = s.runs[q]
  BY CleanupSound, CleanupShape DEF Sound
<1> HIDE DEF c
<1>2. /\ Sound(room) /\ StoreTypeOK(room) /\ Resident(room) \subseteq Resident(c)
      /\ \A q \in Resident(room) : room.runs[q] = c.runs[q]
  BY <1>1, MakeRoomSound DEF Sound
<1>3. EntryOK(old)
  BY <1>1, ResidentEntryOK, NewEntryOK
<1>4. n = Touch(room, r, RecordEntry(old, m), t)
  BY <1>1 DEF Record, c
<1> HIDE DEF old, room
<1>5. EntryOK(RecordEntry(old, m))
  BY <1>3, RecordEntryOK
<1> DEFINE e == RecordEntry(old, m)
<1> HIDE DEF e
<1>6. /\ Resident(n) = Resident(room) \cup {r}
      /\ n.runs[r] = Accessed(e, t)
      /\ \A q \in Resident(room) \ {r} : n.runs[q] = room.runs[q]
  BY <1>2, <1>4, <1>5, TouchShape DEF EntryOK, e
<1>7. SameRecord(Accessed(e, t), e)
  BY DEF SameRecord, Accessed
<1> HIDE DEF n
<1>8. \A q \in Resident(n) \ {r} : q \in Resident(room) /\ n.runs[q] = s.runs[q]
  BY <1>1, <1>2, <1>6
<1> QED
  BY <1>1, <1>2, <1>3, <1>6, <1>7, <1>8 DEF n, c, old, e

-----------------------------------------------------------------------------
(* A history ends with what was recorded last.                              *)
LEMMA SlideShape ==
    ASSUME NEW h \in Seq(Metadata), NEW m \in Metadata
    PROVE  \E drop \in {0, 1} :
             /\ Len(Slide(h, m)) = Len(h) + 1 - drop
             /\ Slide(h, m) \in Seq(Metadata)
             /\ drop = 1 => Len(h) >= HistoryLimit
             /\ \A i \in 1 .. Len(Slide(h, m)) :
                  Slide(h, m)[i] = IF i + drop <= Len(h) THEN h[i + drop] ELSE m
<1> DEFINE longer == Append(h, m)
           n == Slide(h, m)
<1>1. /\ longer \in Seq(Metadata) /\ longer # <<>>
      /\ Len(longer) = Len(h) + 1 /\ Len(h) \in Nat
      /\ \A i \in 1 .. Len(h) : longer[i] = h[i]
      /\ longer[Len(h) + 1] = m
  BY AppendProperties, LenProperties
<1> HIDE DEF longer
<1>2. n = IF Len(longer) > HistoryLimit THEN Tail(longer) ELSE longer
  BY DEF Slide, longer
<1>3. /\ Len(Tail(longer)) = Len(longer) - 1 /\ Tail(longer) \in Seq(Metadata)
      /\ \A i \in 1 .. Len(Tail(longer)) : Tail(longer)[i] = longer[i + 1]
  BY <1>1, HeadTailProperties
<1>4. \A j \in 1 .. Len(h) + 1 : longer[j] = IF j <= Len(h) THEN h[j] ELSE m
  BY <1>1
<1> HIDE DEF n
<1>5. CASE Len(longer) > HistoryLimit
  <2>1. Len(n) = Len(h) + 1 - 1 /\ n \in Seq(Metadata) /\ Len(h) >= HistoryLimit
    BY <1>1, <1>2, <1>3, <1>5, OptionsAssumption
  <2>2. \A i \in 1 .. Len(n) : n[i] = IF i + 1 <= Len(h) THEN h[i + 1] ELSE m
    BY <1>1, <1>2, <1>3, <1>4, <1>5, <2>1
  <2> QED
    BY <2>1, <2>2 DEF n
<1>6. CASE ~(Len(longer) > HistoryLimit)
  <2>1. n = longer /\ Len(n) = Len(h) + 1 - 0
    BY <1>1, <1>2, <1>6
  <2>2. \A i \in 1 .. Len(n) : n[i] = IF i + 0 <= Len(h) THEN h[i + 0] ELSE m
    BY <1>1, <1>4, <2>1
  <2> QED
    BY <1>1, <2>1, <2>2 DEF n
<1> QED
  BY <1>5, <1>6

(* What is not a denial does not add to the denials of the history.         *)
LEMMA SlideDenies ==
    ASSUME NEW h \in Seq(Metadata), NEW m \in Metadata, m.outcome # "deny"
    PROVE  RollingDenies(Slide(h, m)) <= RollingDenies(h)
<1> DEFINE n == Slide(h, m)
           before == {i \in DOMAIN h : h[i].outcome = "deny"}
           after == {i \in DOMAIN n : n[i].outcome = "deny"}
<1>1. PICK drop \in {0, 1} :
        /\ Len(n) = Len(h) + 1 - drop
        /\ n \in Seq(Metadata)
        /\ \A i \in 1 .. Len(n) :
             n[i] = IF i + drop <= Len(h) THEN h[i + drop] ELSE m
  BY SlideShape
<1>2. DOMAIN h = 1 .. Len(h) /\ Len(h) \in Nat
      /\ DOMAIN n = 1 .. Len(n) /\ Len(n) \in Nat
  BY <1>1, LenProperties
<1> HIDE DEF n
<1> DEFINE shift == [i \in after |-> i + drop]
<1>3. ASSUME NEW i \in after PROVE i \in Nat /\ i + drop \in before
  <2>1. i \in 1 .. Len(n) /\ n[i].outcome = "deny"
    BY <1>2
  <2>2. n[i] = IF i + drop <= Len(h) THEN h[i + drop] ELSE m
    BY <1>1, <2>1
  <2>3. i + drop <= Len(h) /\ h[i + drop].outcome = "deny"
    BY <2>1, <2>2
  <2>4. i \in Nat /\ i + drop \in 1 .. Len(h)
    BY <1>2, <2>1, <2>3
  <2> QED
    BY <1>2, <2>3, <2>4
<1>4. shift \in Injection(after, before)
  <2>1. shift \in [after -> before]
    BY <1>3
  <2>2. \A i, j \in after : shift[i] = shift[j] => i = j
    BY <1>1, <1>3
  <2> QED
    BY <2>1, <2>2 DEF Injection, IsInjective
<1>5. IsFiniteSet(before)
  <2>1. IsFiniteSet(DOMAIN h)
    BY <1>2, FS_Interval
  <2> QED
    BY <2>1, FS_Subset
<1>6. Cardinality(after) <= Cardinality(before)
  BY <1>4, <1>5, FS_Injection DEF ExistsInjection
<1> QED
  BY <1>6 DEF RollingDenies, n

(* What record leaves at the end of the history: the outcome it was given,  *)
(* or a repeated denial of a run that had tripped.                          *)
LEMMA LastRecorded ==
    ASSUME NEW s, Sound(s), NEW r \in Runs, NEW m \in Metadata,
           NEW t \in Nat, ClockValid(s, t)
    PROVE  LET h == Record(s, r, m, t).runs[r].history
           IN  h[Len(h)].outcome = IF IsTripped(s, r, t) THEN "deny"
                                                       ELSE m.outcome
<1> DEFINE known == Resident(CleanupExpired(s, t))
           old == IF r \in known THEN s.runs[r] ELSE NewEntry(t)
           stored == IF old.tripped THEN RepeatedDenialMetadata ELSE m
           h == Record(s, r, m, t).runs[r].history
<1>1. EntryOK(old) /\ h = RecordEntry(old, m).history
  BY RecordShape DEF SameRecord
<1>2. h = Slide(old.history, stored)
  BY <1>1 DEF RecordEntry
<1>3. old.history \in Seq(Metadata) /\ Len(old.history) <= HistoryLimit
      /\ Len(old.history) \in Nat
  BY <1>1, LenProperties DEF EntryOK, Entry
<1>4. stored \in Metadata /\ RepeatedDenialMetadata.outcome = "deny"
  BY DEF RepeatedDenialMetadata, Metadata, Outcomes, Null, ReasonCodes, HostCodes
<1>5. IsTripped(s, r, t) <=> old.tripped
  <2>1. \A q \in known : CleanupExpired(s, t).runs[q] = s.runs[q]
    BY CleanupShape DEF Sound
  <2>2. r \notin known => ~old.tripped
    BY DEF NewEntry
  <2> QED
    BY <2>1, <2>2 DEF IsTripped
<1> HIDE DEF old, stored, h
<1>6. h[Len(h)] = stored
  <2> DEFINE n == Slide(old.history, stored)
  <2>1. PICK drop \in {0, 1} :
          /\ Len(n) = Len(old.history) + 1 - drop
          /\ n \in Seq(Metadata)
          /\ drop = 1 => Len(old.history) >= HistoryLimit
          /\ \A i \in 1 .. Len(n) :
               n[i] = IF i + drop <= Len(old.history)
                      THEN old.history[i + drop] ELSE stored
    BY <1>3, <1>4, SlideShape
  <2> HIDE DEF n
  <2>0. h = n
    BY <1>2 DEF n
  <2>2. Len(h) \in 1 .. Len(h) /\ ~(Len(h) + drop <= Len(old.history))
    BY <1>3, <2>0, <2>1, OptionsAssumption
  <2> QED
    BY <2>0, <2>1, <2>2
<1> QED
  BY <1>4, <1>5, <1>6 DEF h, stored

(* Only a denial trips a run.                                               *)
LEMMA TripsOnDenial ==
    ASSUME NEW s, Sound(s), NEW r \in Runs, NEW m \in Metadata,
           NEW t \in Nat, ClockValid(s, t), NewlyTripped(s, r, m, t)
    PROVE  m.outcome = "deny"
<1> SUFFICES ASSUME m.outcome # "deny" PROVE FALSE
  OBVIOUS
<1> DEFINE known == Resident(CleanupExpired(s, t))
           old == IF r \in known THEN s.runs[r] ELSE NewEntry(t)
<1>1. EntryOK(old) /\ RecordEntry(old, m).tripped
  BY RecordShape DEF SameRecord, NewlyTripped
<1>2. ~old.tripped
  <2>1. \A q \in known : CleanupExpired(s, t).runs[q] = s.runs[q]
    BY CleanupShape DEF Sound
  <2>2. r \notin known => ~old.tripped
    BY DEF NewEntry
  <2> QED
    BY <2>1, <2>2 DEF IsTripped, NewlyTripped
<1> HIDE DEF old
<1>3. /\ old.history \in Seq(Metadata) /\ old.consecutiveDenies \in Nat
      /\ old.consecutiveDenies < ConsecutiveDenyLimit
      /\ RollingDenies(old.history) < RollingDenyLimit
  BY <1>1, <1>2 DEF EntryOK, Entry
<1>4. CountDenies(old.consecutiveDenies, m.outcome) \in {0, old.consecutiveDenies}
  BY DEF CountDenies, Metadata, Outcomes
<1>5. RollingDenies(Slide(old.history, m)) <= RollingDenies(old.history)
      /\ RollingDenies(Slide(old.history, m)) \in Nat
      /\ RollingDenies(old.history) \in Nat
  <2>1. PICK drop \in {0, 1} : Slide(old.history, m) \in Seq(Metadata)
    BY <1>3, SlideShape
  <2> QED
    BY <1>3, <2>1, SlideDenies, RollingDeniesType
<1>6. RecordEntry(old, m).tripped =
        (\/ old.tripped
         \/ CountDenies(old.consecutiveDenies, m.outcome) >= ConsecutiveDenyLimit
         \/ RollingDenies(Slide(old.history, m)) >= RollingDenyLimit)
  BY <1>2 DEF RecordEntry
<1>7. ConsecutiveDenyLimit \in Nat \ {0} /\ RollingDenyLimit \in Nat
  BY OptionsAssumption
<1>8. ~(CountDenies(old.consecutiveDenies, m.outcome) >= ConsecutiveDenyLimit)
  BY <1>3, <1>4, <1>7
<1>9. ~(RollingDenies(Slide(old.history, m)) >= RollingDenyLimit)
  BY <1>3, <1>5, <1>7
<1> QED
  BY <1>1, <1>2, <1>6, <1>8, <1>9

-----------------------------------------------------------------------------
JudgeOrNone == Verdicts \cup {NoVerdict}

(* A result of the gate: its kind, and the code it is reported with.        *)
ResultOK(r) ==
    /\ r.kind \in Outcomes
    /\ r.kind = "allow" => SelectFeedbackCode(r) = Null
    /\ r.kind # "allow" => SelectFeedbackCode(r) \in ModelCodes \cup HostCodes
    /\ r.kind = "failure" => SelectFeedbackCode(r) \in FailureCodes
    /\ SelectFeedbackCode(r) = "repeated_denials" => r = RepeatedDenials
    /\ FeedbackRequiresBlock(SelectFeedbackCode(r)) => r.kind = "deny"

(* What an allow of the gate stands on. *)
Grounds(v) ==
    /\ v.risk = "low"
    /\ \/ v.decision = "allow" /\ v.authorization = "high"
       \/ v.decision = "review"

-----------------------------------------------------------------------------
LEMMA VerdictType ==
    ASSUME NEW v \in Verdicts
    PROVE  /\ v.decision \in {"allow", "deny", "review"}
           /\ v.risk \in Risks
           /\ v.authorization \in Authorizations
           /\ v.reason_code \in JudgeCodes \cup {SafeCode}
           /\ v.decision = "allow" <=> v.reason_code = SafeCode
           /\ v.decision # "allow" => v.reason_code \in ModelCodes
  BY JudgeCodesAssumption DEF Verdicts

LEMMA HostResultFields ==
    ASSUME NEW kind, NEW code
    PROVE  LET r == HostResult(kind, code)
           IN  /\ r.kind = kind /\ r.code = code /\ r.mark = Null
               /\ r.verdict = NoVerdict
  BY DEF HostResult

(* The gate's own results are reported with the code they were made with.   *)
LEMMA HostResultsOK ==
    /\ \A code \in FailureCodes :
         /\ ResultOK(Failure(code)) /\ Failure(code).kind = "failure"
         /\ SelectFeedbackCode(Failure(code)) = code
    /\ ResultOK(RepeatedDenials) /\ RepeatedDenials.kind = "deny"
    /\ SelectFeedbackCode(RepeatedDenials) = "repeated_denials"
    /\ ResultOK(HardPolicyBlock) /\ HardPolicyBlock.kind = "deny"
    /\ SelectFeedbackCode(HardPolicyBlock) = "hard_policy_block"
<1>1. ASSUME NEW kind \in {"failure", "deny"}, NEW code \in HostCodes
      PROVE  SelectFeedbackCode(HostResult(kind, code)) = code
             /\ HostResult(kind, code).kind = kind
  BY <1>1, HostResultFields DEF SelectFeedbackCode, Null, HostCodes
<1>2. FailureCodes \subseteq HostCodes /\ "hard_policy_block" \in HostCodes
      /\ "repeated_denials" \in HostCodes /\ "repeated_denials" \notin FailureCodes
  BY DEF FailureCodes, HostCodes
<1> QED
  BY <1>1, <1>2
     DEF ResultOK, Failure, RepeatedDenials, HardPolicyBlock, Outcomes,
         FeedbackRequiresBlock, FailureCodes

-----------------------------------------------------------------------------
(* The gate's own check of what the normaliser returns never fires: a       *)
(* verdict is kept, except that an unconvincing allow becomes a review.     *)
LEMMA NormalizedIs ==
    ASSUME NEW v \in Verdicts
    PROVE  NormalizedSnapshot(NormalizeVerdict(v)) =
             ModelResult(IF v.decision = "allow" /\ ~LocallySafeAllow(v)
                         THEN "review" ELSE v.decision, v, Null)
<1> DEFINE n == NormalizeVerdict(v)
<1>1. n.kind = (IF v.decision = "allow" /\ ~LocallySafeAllow(v)
                THEN "review" ELSE v.decision) /\ n.verdict = v
  BY DEF NormalizeVerdict, ModelResult
<1> HIDE DEF n
<1>2. ~ \/ n.kind = "allow" /\ ~LocallySafeAllow(n.verdict)
        \/ n.kind = "deny" /\ n.verdict.decision # "deny"
        \/ /\ n.kind = "review"
           /\ n.verdict.decision # "review"
           /\ n.verdict.decision # "allow" \/ LocallySafeAllow(n.verdict)
  BY <1>1
<1>3. NormalizedSnapshot(n) = ModelResult(n.kind, n.verdict, Null)
  BY <1>2 DEF NormalizedSnapshot
<1> QED
  BY <1>1, <1>3 DEF n

(* What a verdict comes to: a denial stays one, and everything else is the  *)
(* verdict under a mark.                                                    *)
LEMMA GuardedShape ==
    ASSUME NEW v \in Verdicts, NEW a \in Traits
    PROVE  \E kind \in {"allow", "deny", "review"},
              mark \in {Null, "opaque", "local_guard", "trusted_observation"} :
             /\ GuardedResult(v, a) = ModelResult(kind, v, mark)
             /\ kind = "deny" <=> v.decision = "deny"
             /\ kind = "deny" => mark = Null
             /\ kind = "allow" =>
                  /\ ~a.unsafe
                  /\ \/ mark = Null /\ LocallySafeAllow(v) /\ ~a.opaque
                     \/ /\ mark = "trusted_observation"
                        /\ v.decision = "review" /\ v.risk = "low"
                        /\ a.observation /\ v.reason_code \in OverrideReasons
             /\ kind = "review" =>
                  \/ v.decision = "allow"
                     /\ (mark = Null => ~LocallySafeAllow(v))
                     /\ mark \in {Null, "opaque", "local_guard"}
                     /\ (mark = "opaque" => a.opaque)
                     /\ (mark = "local_guard" => a.unsafe)
                  \/ /\ v.decision = "review" /\ mark = Null
                     /\ ~(/\ v.risk = "low" /\ a.observation /\ ~a.unsafe
                          /\ v.reason_code \in OverrideReasons)
<1> DEFINE k0 == IF v.decision = "allow" /\ ~LocallySafeAllow(v)
                 THEN "review" ELSE v.decision
           r0 == ModelResult(k0, v, Null)
           r1 == ApplyOpaqueDowngrade(r0, a)
           r2 == ApplyLocalSafetyDowngrade(r1, a)
           r3 == ApplyTrustedObservationAllow(r2, a)
<1>1. GuardedResult(v, a) = r3
  BY NormalizedIs DEF GuardedResult
<1>2. v.decision \in {"allow", "deny", "review"}
  BY VerdictType
<1>3. k0 \in {"allow", "deny", "review"}
      /\ (k0 = "allow" <=> LocallySafeAllow(v))
      /\ (k0 = "deny" <=> v.decision = "deny")
  BY <1>2 DEF LocallySafeAllow
<1>4. ApplyLocalSafetyDowngrade(ModelResult("allow", v, "trusted_observation"),
        a).kind = IF a.unsafe THEN "review" ELSE "allow"
  BY DEF ModelResult, ApplyLocalSafetyDowngrade
<1> HIDE DEF k0
<1>5. CASE k0 = "allow" /\ a.opaque
  <2>1. r1 = ModelResult("review", v, "opaque")
    BY <1>5 DEF ModelResult, Null, ApplyOpaqueDowngrade
  <2> HIDE DEF r1
  <2>2. r2 = ModelResult("review", v, "opaque")
    BY <2>1 DEF ModelResult, Null, ApplyLocalSafetyDowngrade
  <2> HIDE DEF r2
  <2>3. r3 = ModelResult("review", v, "opaque")
    BY <2>2 DEF ModelResult, Null, ApplyTrustedObservationAllow, Overridable
  <2>4. v.decision = "allow" /\ "opaque" # Null
    BY <1>3, <1>5 DEF LocallySafeAllow, Null
  <2> HIDE DEF r3
  <2> QED
    BY <1>1, <1>5, <2>3, <2>4
<1>6. CASE k0 = "allow" /\ ~a.opaque /\ a.unsafe
  <2>1. r1 = ModelResult("allow", v, Null)
    BY <1>6 DEF ModelResult, Null, ApplyOpaqueDowngrade
  <2> HIDE DEF r1
  <2>2. r2 = ModelResult("review", v, "local_guard")
    BY <1>6, <2>1 DEF ModelResult, Null, ApplyLocalSafetyDowngrade
  <2> HIDE DEF r2
  <2>3. r3 = ModelResult("review", v, "local_guard")
    BY <2>2 DEF ModelResult, Null, ApplyTrustedObservationAllow, Overridable
  <2>4. v.decision = "allow" /\ "local_guard" # Null
    BY <1>3, <1>6 DEF LocallySafeAllow, Null
  <2> HIDE DEF r3
  <2> QED
    BY <1>1, <1>6, <2>3, <2>4
<1>7. CASE k0 = "allow" /\ ~a.opaque /\ ~a.unsafe
  <2>1. r1 = ModelResult("allow", v, Null)
    BY <1>7 DEF ModelResult, Null, ApplyOpaqueDowngrade
  <2> HIDE DEF r1
  <2>2. r2 = ModelResult("allow", v, Null)
    BY <1>7, <2>1 DEF ModelResult, Null, ApplyLocalSafetyDowngrade
  <2> HIDE DEF r2
  <2>3. r3 = ModelResult("allow", v, Null)
    BY <2>2 DEF ModelResult, Null, ApplyTrustedObservationAllow, Overridable
  <2>4. v.decision = "allow" /\ LocallySafeAllow(v)
    BY <1>3, <1>7 DEF LocallySafeAllow
  <2> HIDE DEF r3
  <2> QED
    BY <1>1, <1>7, <2>3, <2>4
<1>8. CASE k0 # "allow"
  <2>1. r1 = ModelResult(k0, v, Null)
    BY <1>8 DEF ModelResult, Null, ApplyOpaqueDowngrade
  <2> HIDE DEF r1
  <2>2. r2 = ModelResult(k0, v, Null)
    BY <1>8, <2>1 DEF ModelResult, Null, ApplyLocalSafetyDowngrade
  <2> HIDE DEF r2
  <2>3. Overridable(r2, a) <=>
          /\ k0 = "review" /\ a.observation /\ v.risk = "low"
          /\ v.decision = "review" /\ v.reason_code \in OverrideReasons
    BY <2>2 DEF ModelResult, Null, Overridable, Null
  <2>4. r3 = IF Overridable(r2, a) /\ ~a.unsafe
             THEN ModelResult("allow", v, "trusted_observation")
             ELSE ModelResult(k0, v, Null)
    BY <1>4, <2>2 DEF ModelResult, Null, ApplyTrustedObservationAllow
  <2> HIDE DEF r3
  <2>5. CASE Overridable(r2, a) /\ ~a.unsafe
    BY <1>1, <1>3, <2>3, <2>4, <2>5
  <2>6. CASE ~(Overridable(r2, a) /\ ~a.unsafe)
    <3>1. GuardedResult(v, a) = ModelResult(k0, v, Null)
      BY <1>1, <2>4, <2>6
    <3>2. k0 \in {"deny", "review"}
      BY <1>3, <1>8
    <3>3. CASE k0 = "deny"
      BY <1>3, <3>1, <3>3
    <3>4. CASE k0 = "review"
      BY <1>2, <1>3, <2>3, <2>6, <3>1, <3>4 DEF Null
    <3> QED
      BY <3>2, <3>3, <3>4
  <2> QED
    BY <2>5, <2>6
<1> QED
  BY <1>5, <1>6, <1>7, <1>8

(* The result of a verdict is one of the gate's; an allow stands on the     *)
(* judge's word, and a denial of the judge stays a denial.                  *)
LEMMA GuardedResultOK ==
    ASSUME NEW v \in Verdicts, NEW a \in Traits
    PROVE  LET r == GuardedResult(v, a)
           IN  /\ ResultOK(r)
               /\ r.kind \in {"allow", "deny", "review"}
               /\ r.kind = "deny" <=> v.decision = "deny"
               /\ r.kind = "allow" =>
                    Grounds(v) /\ OrdinaryDecisionSource(r, v) = "llm"
<1>1. PICK kind \in {"allow", "deny", "review"},
           mark \in {Null, "opaque", "local_guard", "trusted_observation"} :
        /\ GuardedResult(v, a) = ModelResult(kind, v, mark)
        /\ kind = "deny" <=> v.decision = "deny"
        /\ kind = "deny" => mark = Null
        /\ kind = "allow" =>
             \/ mark = Null /\ LocallySafeAllow(v)
             \/ /\ mark = "trusted_observation"
                /\ v.decision = "review" /\ v.risk = "low"
        /\ kind = "review" =>
             \/ v.decision = "allow" /\ mark \in {Null, "opaque", "local_guard"}
             \/ v.decision = "review" /\ mark = Null
  BY GuardedShape
<1> DEFINE r == GuardedResult(v, a)
<1>2. r.kind = kind /\ r.verdict = v /\ r.mark = mark /\ r.code = Null
  BY <1>1 DEF ModelResult
<1> HIDE DEF r
<1>3. v.decision # "allow" => v.reason_code \in ModelCodes
  BY VerdictType
<1>4. SelectFeedbackCode(r) =
        IF kind = "allow" THEN Null
        ELSE IF mark = "opaque" THEN "opaque_or_unverifiable"
        ELSE IF mark = "local_guard" \/ v.decision = "allow"
             THEN "local_policy_review"
        ELSE v.reason_code
  <2>1. mark \notin {"opaque", "local_guard"} <=>
          mark \in {Null, "trusted_observation"}
    BY DEF Null
  <2> QED
    BY <1>1, <1>2, <1>3, <2>1 DEF SelectFeedbackCode, Null
<1>5. ~FeedbackRequiresBlock(SelectFeedbackCode(r))
  BY <1>1, <1>3, <1>4 DEF Null, ModelCodes, FeedbackRequiresBlock
<1>6. kind # "allow" => SelectFeedbackCode(r) \in ModelCodes \cup HostCodes
  BY <1>1, <1>3, <1>4 DEF ModelCodes, HostCodes
<1>7. ResultOK(r)
  BY <1>1, <1>2, <1>4, <1>5, <1>6 DEF ResultOK, Outcomes, FeedbackRequiresBlock
<1>8. kind = "allow" => Grounds(v) /\ OrdinaryDecisionSource(r, v) = "llm"
  BY <1>1, <1>2 DEF Grounds, LocallySafeAllow, OrdinaryDecisionSource, Null
<1> QED
  BY <1>1, <1>2, <1>7, <1>8 DEF r

-----------------------------------------------------------------------------
(* What is reported is what was decided.                                    *)
LEMMA OutcomeIsKind ==
    ASSUME NEW r, ResultOK(r)
    PROVE  SelectFeedbackOutcome(r) = r.kind
  BY DEF ResultOK, SelectFeedbackOutcome

(* The store's metadata of a result are always metadata, and refused only   *)
(* for an allow whose verdict is not one of low risk and high authorization. *)
LEMMA MetadataOK ==
    ASSUME NEW r, ResultOK(r), NEW judge \in JudgeOrNone
    PROVE  LET m == DecisionMetadata(r, judge)
           IN  /\ m.outcome = r.kind
               /\ m.reason_code = "repeated_denials" <=> r = RepeatedDenials
               /\ r.kind = "allow" => m.risk = judge.risk
                                      /\ m.authorization = judge.authorization
               /\ r.kind # "allow" => ValidMetadata(m)
               /\ judge.risk = "low" /\ judge.authorization = "high"
                    => ValidMetadata(m)
<1> DEFINE m == DecisionMetadata(r, judge)
           code == IF r.kind = "allow" THEN SafeCode ELSE SelectFeedbackCode(r)
<1>1. m = [outcome |-> r.kind,
           risk |-> IF code = "repeated_denials" THEN Null ELSE judge.risk,
           authorization |-> IF code = "repeated_denials" THEN Null
                             ELSE judge.authorization,
           reason_code |-> code]
  BY OutcomeIsKind DEF DecisionMetadata
<1>2. judge.risk \in Risks \cup {Null}
      /\ judge.authorization \in Authorizations \cup {Null}
  BY VerdictType DEF JudgeOrNone, NoVerdict
<1>3. SafeCode # "repeated_denials" /\ SafeCode \in ReasonCodes
      /\ "repeated_denials" \in HostCodes
  BY DEF SafeCode, ReasonCodes, HostCodes
<1>4. r.kind # "allow" => code \in ReasonCodes /\ code # SafeCode
  BY DEF ResultOK, ReasonCodes, ModelCodes, HostCodes, SafeCode
<1>5. code = "repeated_denials" <=> r = RepeatedDenials
  BY <1>3, HostResultsOK DEF ResultOK
<1>6. r = RepeatedDenials => r.kind = "deny"
  BY HostResultsOK
<1>7. r.kind \in Outcomes /\ (r.kind = "allow" => code = SafeCode)
  BY DEF ResultOK
<1> HIDE DEF code, m
<1>8. m \in Metadata
  BY <1>1, <1>2, <1>3, <1>4, <1>7 DEF Metadata
<1>9. m.outcome = r.kind /\ m.reason_code = code
      /\ m.risk = (IF code = "repeated_denials" THEN Null ELSE judge.risk)
      /\ m.authorization = (IF code = "repeated_denials" THEN Null
                            ELSE judge.authorization)
  BY <1>1
<1>10. r.kind # "allow" => ValidMetadata(m)
  BY <1>4, <1>5, <1>6, <1>8, <1>9 DEF ValidMetadata
<1>11. r.kind = "allow" /\ judge.risk = "low" /\ judge.authorization = "high"
       => ValidMetadata(m)
  BY <1>3, <1>7, <1>8, <1>9 DEF ValidMetadata
<1> QED
  BY <1>3, <1>5, <1>7, <1>9, <1>10, <1>11 DEF m

(* An accepted allow is one of low risk and high authorization.             *)
LEMMA AcceptedAllow ==
    ASSUME NEW r, ResultOK(r), NEW judge \in JudgeOrNone, r.kind = "allow",
           ValidMetadata(DecisionMetadata(r, judge))
    PROVE  judge.risk = "low" /\ judge.authorization = "high"
<1>1. DecisionMetadata(r, judge).outcome = "allow"
      /\ DecisionMetadata(r, judge).risk = judge.risk
      /\ DecisionMetadata(r, judge).authorization = judge.authorization
  BY MetadataOK
<1> QED
  BY <1>1 DEF ValidMetadata

-----------------------------------------------------------------------------
(* A technical failure leaves a denial alone and makes everything else a    *)
(* failure.                                                                 *)
LEMMA TechnicalFailureOK ==
    ASSUME NEW r, ResultOK(r), NEW source,
           source \in {"circuit_breaker", "hard_boundary"} => r.kind = "deny"
    PROVE  LET d == TechnicalFailure(r, source)
           IN  IF r.kind = "deny" THEN d.result = r /\ d.source = source
               ELSE /\ d.result = Failure("invalid_judge_response")
                    /\ d.source = "failure"
  BY DEF TechnicalFailure

(* What an enforcing gate returns: parameters for an allow and only for it, *)
(* a block for every denial.                                                *)
LEMMA MappedIs ==
    ASSUME NEW config, NEW r, ResultOK(r)
    PROVE  LET h == MapVerdict(config, r)
           IN  IF config.enforcement = "shadow" THEN h = NoHookValue
               ELSE /\ h.kind \in {"params", "block", "approval"}
                    /\ h.kind = "params" <=> r.kind = "allow"
                    /\ r.kind = "deny" => h.kind = "block"
                    /\ h.kind # "params" => h.code = SelectFeedbackCode(r)
<1>1. ASSUME NEW kind, NEW code
      PROVE  HookValue(kind, code).kind = kind /\ HookValue(kind, code).code = code
  BY DEF HookValue
<1> QED
  BY <1>1 DEF MapVerdict, ResultOK, NoHookValue

LEMMA MappedExactly ==
    ASSUME NEW config, NEW r, ResultOK(r), config.enforcement # "shadow"
    PROVE  MapVerdict(config, r) =
             IF r.kind = "allow" THEN HookValue("params", Null)
             ELSE IF config.mode = "supervised" /\ r.kind # "deny"
                  THEN HookValue("approval", SelectFeedbackCode(r))
             ELSE HookValue("block", SelectFeedbackCode(r))
  BY DEF MapVerdict, ResultOK
=============================================================================
