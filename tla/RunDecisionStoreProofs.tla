----------------------- MODULE RunDecisionStoreProofs -----------------------
(***************************************************************************)
(* Proofs about the run decision store, for every set of runs, every       *)
(* setting snapshotOptions accepts and every clock.  Sound(store), which   *)
(* every method preserves, is the inductive invariant.                     *)
(*                                                                         *)
(* The second half proves that the store implements CircuitBreaker.  The   *)
(* link between an entry and the full log of its outcomes is Matches: the  *)
(* entry is tripped when the log is latched, and until then its counter    *)
(* and its bounded history say of the log what the limits ask of it.       *)
(***************************************************************************)
EXTENDS RunDecisionStoreLog, DecisionLemmas, SequenceTheorems,
        FunctionTheorems

IInv == now \in Nat /\ Sound(store)

-----------------------------------------------------------------------------
LEMMA InitSound == Init => IInv
<1> SUFFICES ASSUME Init PROVE IInv
  OBVIOUS
<1>1. now = 0 /\ store = EmptyStore(now)
  BY DEF Init
<1> QED
  BY <1>1, EmptyStoreSound DEF IInv

LEMMA StepSound == IInv /\ [Next]_vars => IInv'
<1> SUFFICES ASSUME IInv, [Next]_vars PROVE IInv'
  OBVIOUS
<1>0. now \in Nat /\ Sound(store)
  BY DEF IInv
<1>1. ASSUME NEW r \in Runs, Inspect(r) PROVE IInv'
  BY <1>0, <1>1, FindSound DEF Inspect, IInv
<1>2. ASSUME NEW r \in Runs, NEW m \in Submissions, RecordDecision(r, m)
      PROVE  IInv'
  <2>1. m \in Metadata /\ ClockValid(store, now) /\ now' = now
        /\ store' = Record(store, r, m, now)
    BY <1>2 DEF RecordDecision, ValidMetadata
  <2> QED
    BY <1>0, <2>1, RecordSound DEF IInv
<1>3. CASE Size
  BY <1>0, <1>3, CleanupSound DEF Size, IInv
<1>4. CASE ClockAdvance
  BY <1>0, <1>4 DEF ClockAdvance, IInv
<1>5. CASE ClockStepBack
  BY <1>0, <1>5 DEF ClockStepBack, IInv
<1>6. CASE UNCHANGED vars
  BY <1>0, <1>6 DEF vars, IInv
<1> QED
  BY <1>1, <1>2, <1>3, <1>4, <1>5, <1>6 DEF Next

(* Sound(store) holds in every reachable state.                             *)
THEOREM StoreSound == Spec => []IInv
<1>1. Init => IInv
  BY InitSound
<1>2. IInv /\ [Next]_vars => IInv'
  BY StepSound
<1> QED
  BY <1>1, <1>2, PTL DEF Spec

(* The store keeps its shape, and no history outgrows HistoryLimit, however *)
(* its methods are called and whatever the clock does.                      *)
THEOREM TypeCorrect == Spec => []TypeOK
<1>1. IInv => TypeOK
  BY DEF IInv, Sound, TypeOK
<1> QED
  BY <1>1, StoreSound, PTL

(* record never leaves more than MaxRuns runs: when the Map is full there   *)
(* is an oldest run to evict, whichever calls came before.                  *)
THEOREM CapacityHolds == Spec => []CapacityRespected
<1>1. IInv => CapacityRespected
  BY DEF IInv, Sound, CapacityRespected
<1> QED
  BY <1>1, StoreSound, PTL

(* cleanupExpired leaves no run that was idle for TtlMs.                    *)
THEOREM LivenessOfResidents == Spec => []ResidentsAreLive
<1>1. IInv => ResidentsAreLive
  BY DEF IInv, Sound, ResidentsAreLive
<1> QED
  BY <1>1, StoreSound, PTL

(* touch keeps the Map in the order of last use, so eviction takes a least  *)
(* recently used run.                                                       *)
THEOREM LruOrder == Spec => []OrderFollowsAccess
<1>1. IInv => OrderFollowsAccess
  BY DEF IInv, Sound, OrderFollowsAccess
<1> QED
  BY <1>1, StoreSound, PTL

(* No denial is recorded without testing both limits.                       *)
THEOREM BreakerTrips == Spec => []UntrippedBelowLimits
<1>1. IInv => UntrippedBelowLimits
  BY DEF IInv, Sound, UntrippedBelowLimits
<1> QED
  BY <1>1, StoreSound, PTL

-----------------------------------------------------------------------------
(* A tripped run that is not idle is still tripped after expiry.            *)
LEMMA CleanupKeepsTrip ==
    ASSUME NEW s, Sound(s), NEW r \in Resident(s), s.runs[r].tripped,
           NEW t \in Nat, ClockValid(s, t),
           ~(t - s.runs[r].lastAccess >= TtlMs)
    PROVE  LET c == CleanupExpired(s, t)
           IN  Sound(c) /\ c.lastClock = t /\ Tripped(c, r)
<1>1. Sound(CleanupExpired(s, t))
  BY CleanupSound
<1>2. r \in Resident(s) \ Expired(s, t)
  BY DEF Expired
<1> QED
  BY <1>1, <1>2, CleanupShape DEF Sound, Tripped

(* Touch keeps r tripped, whichever run is touched, provided that r's own   *)
(* entry is replaced by a tripped one.                                      *)
LEMMA TouchKeepsTrip ==
    ASSUME NEW s, Sound(s), NEW r, Tripped(s, r),
           NEW q \in Runs, NEW e, EntryOK(e), q = r => e.tripped
    PROVE  Tripped(Touch(s, q, e, s.lastClock), r)
<1>1. s.lastClock \in Nat /\ e \in Entry /\ Len(e.history) <= HistoryLimit
  BY DEF Sound, StoreTypeOK, EntryOK
<1>2. LET n == Touch(s, q, e, s.lastClock)
      IN  /\ Resident(n) = Resident(s) \cup {q}
          /\ n.runs[q] = Accessed(e, s.lastClock)
          /\ \A p \in Resident(s) \ {q} : n.runs[p] = s.runs[p]
  BY <1>1, TouchShape DEF Sound
<1> QED
  BY <1>2 DEF Tripped, Accessed

LEMMA FindKeepsTrip ==
    ASSUME NEW s, Sound(s), NEW r \in Resident(s), s.runs[r].tripped,
           NEW t \in Nat, ClockValid(s, t),
           ~(t - s.runs[r].lastAccess >= TtlMs), NEW q \in Runs
    PROVE  Tripped(Find(s, q, t), r)
<1> DEFINE c == CleanupExpired(s, t)
<1>1. Sound(c) /\ c.lastClock = t /\ Tripped(c, r)
  BY CleanupKeepsTrip
<1> HIDE DEF c
<1>2. CASE q \in Resident(c)
  <2>1. EntryOK(c.runs[q]) /\ (q = r => c.runs[q].tripped)
    BY <1>1, <1>2, ResidentEntryOK DEF Tripped
  <2> QED
    BY <1>1, <1>2, <2>1, TouchKeepsTrip DEF Find, c
<1>3. CASE q \notin Resident(c)
  BY <1>1, <1>3 DEF Find, c
<1> QED
  BY <1>2, <1>3

(* record can only take a tripped run away by evicting it.                  *)
LEMMA RecordKeepsTrip ==
    ASSUME NEW s, Sound(s), NEW r \in Resident(s), s.runs[r].tripped,
           NEW t \in Nat, ClockValid(s, t),
           ~(t - s.runs[r].lastAccess >= TtlMs),
           NEW q \in Runs, NEW m \in Metadata,
           ~Tripped(Record(s, q, m, t), r)
    PROVE  LET c == CleanupExpired(s, t)
               n == Record(s, q, m, t)
           IN  /\ IsOldest(c, r)
               /\ Cardinality(Resident(c)) >= MaxRuns
               /\ r \notin Resident(n)
               /\ q \in Resident(n) /\ q \notin Resident(c)
<1> DEFINE c == CleanupExpired(s, t)
           n == Record(s, q, m, t)
<1>1. Sound(c) /\ c.lastClock = t /\ Tripped(c, r) /\ r \in Resident(c)
  BY CleanupKeepsTrip DEF Tripped
<1> HIDE DEF c
<1>2. q \notin Resident(c)
  <2> SUFFICES ASSUME q \in Resident(c) PROVE FALSE
    OBVIOUS
  <2>1. /\ EntryOK(RecordEntry(c.runs[q], m))
        /\ q = r => RecordEntry(c.runs[q], m).tripped
    BY <1>1, ResidentEntryOK, RecordEntryOK DEF Tripped
  <2>2. Record(s, q, m, t) = Touch(c, q, RecordEntry(c.runs[q], m), t)
    BY DEF Record, c
  <2>3. Tripped(Touch(c, q, RecordEntry(c.runs[q], m), t), r)
    BY <1>1, <2>1, TouchKeepsTrip
  <2> QED
    BY <2>2, <2>3
<1>3. r # q
  BY <1>1, <1>2
<1> DEFINE e == RecordEntry(NewEntry(t), m)
           room == MakeRoom(c)
<1>4. n = Touch(room, q, e, t)
  BY <1>2 DEF Record, c
<1>5. EntryOK(e)
  BY NewEntryOK, RecordEntryOK
<1>6. Sound(room) /\ room.lastClock = t
  BY <1>1, MakeRoomSound
<1>7. Resident(n) = Resident(room) \cup {q}
  BY <1>4, <1>5, <1>6, TouchShape DEF Sound, EntryOK
<1> HIDE DEF e
<1>8. ~Tripped(room, r)
  BY <1>3, <1>4, <1>5, <1>6, TouchKeepsTrip
<1>9. Cardinality(Resident(c)) >= MaxRuns
  BY <1>1, <1>8 DEF MakeRoom
<1>10. room = Keep(c, Resident(c) \ {Oldest(c)})
  BY <1>9 DEF MakeRoom
<1>11. r = Oldest(c)
  <2> SUFFICES ASSUME r \in Resident(c) \ {Oldest(c)} PROVE FALSE
    BY <1>1
  <2>1. Resident(room) = Resident(c) \ {Oldest(c)} /\ room.runs[r] = c.runs[r]
    BY <1>1, <1>10, KeepShape DEF Sound
  <2> QED
    BY <1>1, <1>8, <2>1 DEF Tripped
<1>12. IsOldest(c, r)
  BY <1>1, <1>11, OldestExists
<1>13. r \notin Resident(room)
  BY <1>1, <1>10, <1>11, KeepShape DEF Sound
<1> QED
  BY <1>2, <1>3, <1>7, <1>9, <1>12, <1>13 DEF c

(* A tripped breaker opens again only when its run was idle for TtlMs or    *)
(* was evicted as the least recently used run of a full store.              *)
THEOREM TripIsKept == Spec => TripSurvives
<1>1. IInv /\ [Next]_vars => [LosesOnlyForgotten]_vars
  <2> SUFFICES ASSUME IInv, Next,
                      NEW r \in Resident(store),
                      Tripped(store, r), ~Tripped(store', r),
                      ~ForgottenAsIdle(r)
               PROVE  EvictedAsOldest(r)
    BY DEF LosesOnlyForgotten
  <2>1. /\ now \in Nat /\ Sound(store) /\ store.runs[r].tripped
        /\ ~(now - store.runs[r].lastAccess >= TtlMs)
    BY DEF IInv, Tripped, ForgottenAsIdle
  <2>2. ASSUME NEW q \in Runs, Inspect(q) PROVE FALSE
    BY <2>1, <2>2, FindKeepsTrip DEF Inspect
  <2>3. ASSUME NEW q \in Runs, NEW m \in Submissions, RecordDecision(q, m)
        PROVE  EvictedAsOldest(r)
    <3>1. m \in Metadata /\ ClockValid(store, now)
          /\ store' = Record(store, q, m, now)
      BY <2>3 DEF RecordDecision, ValidMetadata
    <3> QED
      BY <2>1, <3>1, RecordKeepsTrip DEF EvictedAsOldest
  <2>4. CASE Size
    BY <2>1, <2>4, CleanupKeepsTrip DEF Size
  <2>5. CASE ClockAdvance \/ ClockStepBack
    BY <2>5 DEF ClockAdvance, ClockStepBack
  <2> QED
    BY <2>2, <2>3, <2>4, <2>5 DEF Next
<1> QED
  BY <1>1, StoreSound, PTL DEF Spec, TripSurvives

-----------------------------------------------------------------------------
(* The end of the log, with what came after the trip as denials.            *)
KeepsEndOf(h, log) ==
    LET gap == Len(log) - Len(h)
    IN  /\ Len(h) = IF Len(log) > HistoryLimit THEN HistoryLimit ELSE Len(log)
        /\ \A i \in DOMAIN h :
             h[i].outcome = IF Breaker!Latched(SubSeq(log, 1, i + gap - 1))
                            THEN "deny" ELSE log[i + gap]

Matches(e, log) ==
    /\ log \in Seq(Outcomes)
    /\ e.tripped <=> Breaker!Latched(log)
    /\ ~e.tripped => e.consecutiveDenies = Breaker!DeniesSinceAllow(log)
    /\ KeepsEndOf(e.history, log)

LInv ==
    /\ IInv
    /\ verdicts \in [Resident(store) -> Seq(Outcomes)]
    /\ \A r \in Resident(store) : Matches(store.runs[r], verdicts[r])

-----------------------------------------------------------------------------
(* CircuitBreaker counts with the Cardinality the store counts with.        *)
LEMMA SameCardinality ==
    ASSUME NEW S
    PROVE  Breaker!Cardinality(S) = Cardinality(S)
  BY DEF Breaker!Cardinality, Cardinality

LEMMA PrefixOfAppend ==
    ASSUME NEW S, NEW log \in Seq(S), NEW o \in S, NEW n \in 0 .. Len(log)
    PROVE  SubSeq(Append(log, o), 1, n) = SubSeq(log, 1, n)
<1> DEFINE new == Append(log, o)
<1>1. /\ new \in Seq(S) /\ Len(new) = Len(log) + 1 /\ Len(log) \in Nat
      /\ \A i \in 1 .. Len(log) : new[i] = log[i] /\ new[i] \in S
  BY AppendProperties, LenProperties, ElementOfSeq
<1> HIDE DEF new
<1>2. \A i \in 1 .. n : new[i] \in S /\ log[i] \in S
  BY <1>1
<1>3. /\ SubSeq(new, 1, n) \in Seq(S)
      /\ Len(SubSeq(new, 1, n)) = IF 1 <= n THEN n - 1 + 1 ELSE 0
      /\ \A i \in 1 .. n - 1 + 1 : SubSeq(new, 1, n)[i] = new[1 + i - 1]
  BY <1>2, SubSeqProperties
<1>4. /\ SubSeq(log, 1, n) \in Seq(S)
      /\ Len(SubSeq(log, 1, n)) = IF 1 <= n THEN n - 1 + 1 ELSE 0
      /\ \A i \in 1 .. n - 1 + 1 : SubSeq(log, 1, n)[i] = log[1 + i - 1]
  BY <1>2, SubSeqProperties
<1>5. Len(SubSeq(new, 1, n)) = Len(SubSeq(log, 1, n))
  BY <1>3, <1>4
<1>6. \A i \in 1 .. Len(SubSeq(new, 1, n)) :
         SubSeq(new, 1, n)[i] = SubSeq(log, 1, n)[i]
  <2> TAKE i \in 1 .. Len(SubSeq(new, 1, n))
  <2>1. i \in 1 .. n /\ 1 + i - 1 = i /\ i \in 1 .. n - 1 + 1
    BY <1>3
  <2> QED
    BY <1>1, <1>3, <1>4, <2>1
<1> QED
  BY <1>3, <1>4, <1>5, <1>6, SeqEqual DEF new

LEMMA PrefixOfPrefix ==
    ASSUME NEW S, NEW log \in Seq(S), NEW n \in 0 .. Len(log), NEW k \in 0 .. n
    PROVE  /\ SubSeq(log, 1, n) \in Seq(S)
           /\ Len(SubSeq(log, 1, n)) = n
           /\ SubSeq(SubSeq(log, 1, n), 1, k) = SubSeq(log, 1, k)
<1> DEFINE p == SubSeq(log, 1, n)
<1>1. Len(log) \in Nat /\ \A i \in 1 .. n : log[i] \in S
  BY LenProperties, ElementOfSeq
<1>2. /\ p \in Seq(S)
      /\ Len(p) = IF 1 <= n THEN n - 1 + 1 ELSE 0
      /\ \A i \in 1 .. n - 1 + 1 : p[i] = log[1 + i - 1]
  BY <1>1, SubSeqProperties
<1> HIDE DEF p
<1>3. Len(p) = n /\ \A i \in 1 .. n : p[i] = log[i]
  <2>1. \A i \in 1 .. n : 1 + i - 1 = i /\ i \in 1 .. n - 1 + 1
    OBVIOUS
  <2> QED
    BY <1>2, <2>1
<1>4. \A i \in 1 .. k : p[i] \in S /\ p[i] = log[i]
  BY <1>1, <1>3
<1>5. /\ SubSeq(p, 1, k) \in Seq(S)
      /\ Len(SubSeq(p, 1, k)) = IF 1 <= k THEN k - 1 + 1 ELSE 0
      /\ \A i \in 1 .. k - 1 + 1 : SubSeq(p, 1, k)[i] = p[1 + i - 1]
  BY <1>4, SubSeqProperties
<1>6. /\ SubSeq(log, 1, k) \in Seq(S)
      /\ Len(SubSeq(log, 1, k)) = IF 1 <= k THEN k - 1 + 1 ELSE 0
      /\ \A i \in 1 .. k - 1 + 1 : SubSeq(log, 1, k)[i] = log[1 + i - 1]
  BY <1>4, SubSeqProperties
<1>7. \A i \in 1 .. Len(SubSeq(p, 1, k)) : SubSeq(p, 1, k)[i] = SubSeq(log, 1, k)[i]
  <2> TAKE i \in 1 .. Len(SubSeq(p, 1, k))
  <2>1. i \in 1 .. k /\ 1 + i - 1 = i /\ i \in 1 .. k - 1 + 1
    BY <1>5
  <2> QED
    BY <1>4, <1>5, <1>6, <2>1
<1>8. SubSeq(p, 1, k) = SubSeq(log, 1, k)
  BY <1>5, <1>6, <1>7, SeqEqual
<1> QED
  BY <1>2, <1>3, <1>8 DEF p

(* A log whose prefix earned the trip is latched.                           *)
LEMMA LatchedPrefix ==
    ASSUME NEW log \in Seq(Outcomes), NEW n \in 0 .. Len(log),
           Breaker!Latched(SubSeq(log, 1, n))
    PROVE  Breaker!Latched(log)
<1>1. Len(log) \in Nat
  BY LenProperties
<1>2. Len(SubSeq(log, 1, n)) = n
  BY PrefixOfPrefix
<1>3. PICK k \in 1 .. n : Breaker!Earned(SubSeq(SubSeq(log, 1, n), 1, k))
  BY <1>2 DEF Breaker!Latched
<1>4. SubSeq(SubSeq(log, 1, n), 1, k) = SubSeq(log, 1, k)
  BY PrefixOfPrefix
<1>5. k \in 1 .. Len(log)
  BY <1>1
<1> QED
  BY <1>3, <1>4, <1>5 DEF Breaker!Latched

(* One more outcome latches a log when the whole log now earns the trip.    *)
LEMMA LatchedAppend ==
    ASSUME NEW log \in Seq(Outcomes), NEW o \in Outcomes
    PROVE  Breaker!Latched(Append(log, o)) <=>
               Breaker!Latched(log) \/ Breaker!Earned(Append(log, o))
<1> DEFINE new == Append(log, o)
<1>1. new \in Seq(Outcomes) /\ Len(new) = Len(log) + 1 /\ Len(log) \in Nat
  BY AppendProperties, LenProperties
<1>2. SubSeq(new, 1, Len(log) + 1) = new
  BY <1>1, SubSeqFull
<1>3. \A n \in 1 .. Len(log) : SubSeq(new, 1, n) = SubSeq(log, 1, n)
  BY <1>1, PrefixOfAppend
<1> HIDE DEF new
<1>4. \A n \in 1 .. Len(new) : n \in 1 .. Len(log) \/ n = Len(log) + 1
  BY <1>1
<1>5. Len(log) + 1 \in 1 .. Len(new) /\ \A n \in 1 .. Len(log) : n \in 1 .. Len(new)
  BY <1>1
<1> QED
  BY <1>2, <1>3, <1>4, <1>5 DEF Breaker!Latched, new

(* The counter of an entry counts the denials since the last allow.         *)
LEMMA DeniesSinceAppend ==
    ASSUME NEW log \in Seq(Outcomes), NEW o \in Outcomes
    PROVE  Breaker!DeniesSinceAllow(Append(log, o)) =
               CountDenies(Breaker!DeniesSinceAllow(log), o)
<1> DEFINE new == Append(log, o)
           since(l) == {i \in DOMAIN l :
                          l[i] = "deny" /\ \A j \in i .. Len(l) : l[j] # "allow"}
<1>1. /\ Len(new) = Len(log) + 1 /\ Len(log) \in Nat
      /\ DOMAIN new = 1 .. Len(log) + 1 /\ DOMAIN log = 1 .. Len(log)
      /\ \A i \in 1 .. Len(log) : new[i] = log[i]
      /\ new[Len(log) + 1] = o
  BY AppendProperties, LenProperties
<1>2. IsFiniteSet(since(log))
  <2>1. IsFiniteSet(1 .. Len(log))
    BY <1>1, FS_Interval
  <2> QED
    BY <1>1, <2>1, FS_Subset
<1>3. Breaker!DeniesSinceAllow(new) = Cardinality(since(new))
      /\ Breaker!DeniesSinceAllow(log) = Cardinality(since(log))
  BY SameCardinality DEF Breaker!DeniesSinceAllow
<1> HIDE DEF new
<1>4. CASE o = "allow"
  <2>1. since(new) = {}
    <3> SUFFICES ASSUME NEW i \in since(new) PROVE FALSE
      OBVIOUS
    <3>1. Len(log) + 1 \in i .. Len(new)
      BY <1>1
    <3> QED
      BY <1>1, <1>4, <3>1
  <2> QED
    BY <1>3, <1>4, <2>1, FS_EmptySet DEF CountDenies, new
<1>5. ASSUME o # "allow"
      PROVE  \A i \in 1 .. Len(log) : i \in since(new) <=> i \in since(log)
  <2> TAKE i \in 1 .. Len(log)
  <2>1. \A j \in i .. Len(log) : new[j] = log[j]
    BY <1>1
  <2>2. \A j \in i .. Len(log) + 1 : j \in i .. Len(log) \/ j = Len(log) + 1
    BY <1>1
  <2>3. \A j \in i .. Len(log) : j \in i .. Len(log) + 1
    BY <1>1
  <2>4. (\A j \in i .. Len(new) : new[j] # "allow")
          <=> (\A j \in i .. Len(log) : log[j] # "allow")
    BY <1>1, <1>5, <2>1, <2>2, <2>3
  <2>5. i \in DOMAIN new /\ i \in DOMAIN log /\ new[i] = log[i]
    BY <1>1
  <2> QED
    BY <2>4, <2>5
<1>6. CASE o = "deny"
  <2>1. Len(log) + 1 \in since(new)
    <3>1. \A j \in Len(log) + 1 .. Len(new) : j = Len(log) + 1
      BY <1>1
    <3> QED
      BY <1>1, <1>6, <3>1
  <2>2. Len(log) + 1 \notin since(log)
    BY <1>1
  <2>3. since(new) = since(log) \cup {Len(log) + 1}
    <3>1. \A i \in DOMAIN new : i \in 1 .. Len(log) \/ i = Len(log) + 1
      BY <1>1
    <3>2. since(log) \subseteq 1 .. Len(log) /\ since(new) \subseteq DOMAIN new
      BY <1>1
    <3> HIDE DEF since
    <3> QED
      BY <1>5, <1>6, <2>1, <2>2, <3>1, <3>2
  <2> HIDE DEF since
  <2>4. Cardinality(since(new)) = Cardinality(since(log)) + 1
    BY <1>2, <2>2, <2>3, FS_AddElement
  <2> QED
    BY <1>3, <1>6, <2>4 DEF CountDenies, new
<1>7. CASE o \notin {"allow", "deny"}
  <2>1. Len(log) + 1 \notin since(new) /\ Len(log) + 1 \notin since(log)
    BY <1>1, <1>7
  <2>2. since(new) = since(log)
    <3>1. \A i \in DOMAIN new : i \in 1 .. Len(log) \/ i = Len(log) + 1
      BY <1>1
    <3>2. since(log) \subseteq 1 .. Len(log) /\ since(new) \subseteq DOMAIN new
      BY <1>1
    <3> HIDE DEF since
    <3> QED
      BY <1>5, <1>7, <2>1, <3>1, <3>2
  <2> HIDE DEF since
  <2> QED
    BY <1>3, <1>7, <2>2 DEF CountDenies, new
<1> QED
  BY <1>4, <1>6, <1>7

(* While the log was not latched before its last outcome, the kept history  *)
(* holds exactly the denials of the log's window.                           *)
LEMMA WindowIsHistory ==
    ASSUME NEW log \in Seq(Outcomes),
           \A n \in 0 .. Len(log) - 1 : ~Breaker!Latched(SubSeq(log, 1, n)),
           NEW h \in Seq(Metadata), KeepsEndOf(h, log)
    PROVE  RollingDenies(h) = Breaker!DeniesInWindow(log)
<1> DEFINE gap == Len(log) - Len(h)
           kept == {i \in DOMAIN h : h[i].outcome = "deny"}
           window == {j \in DOMAIN log :
                        log[j] = "deny" /\ j + HistoryLimit > Len(log)}
           f == [i \in kept |-> i + gap]
<1>1. /\ Len(log) \in Nat /\ DOMAIN log = 1 .. Len(log)
      /\ Len(h) \in Nat /\ DOMAIN h = 1 .. Len(h)
      /\ HistoryLimit \in Nat \ {0}
  BY LenProperties, OptionsAssumption
<1>2. Len(h) = IF Len(log) > HistoryLimit THEN HistoryLimit ELSE Len(log)
  BY DEF KeepsEndOf
<1>3. gap \in Nat /\ Len(h) + gap = Len(log)
      /\ \A j \in DOMAIN log : j + HistoryLimit > Len(log) <=> j > gap
  BY <1>1, <1>2
<1>4. \A i \in DOMAIN h : h[i].outcome = log[i + gap]
  <2> TAKE i \in DOMAIN h
  <2>1. i + gap - 1 \in 0 .. Len(log) - 1
    BY <1>1, <1>3
  <2>2. ~Breaker!Latched(SubSeq(log, 1, i + gap - 1))
    BY <2>1
  <2> QED
    BY <2>2 DEF KeepsEndOf
<1> HIDE DEF gap
<1>5. \A i \in kept : i + gap \in window
  BY <1>1, <1>3, <1>4
<1>6. \A j \in window : j - gap \in kept /\ (j - gap) + gap = j
  <2> TAKE j \in window
  <2>1. j \in 1 .. Len(log) /\ j > gap
    BY <1>1, <1>3
  <2>2. j - gap \in DOMAIN h /\ (j - gap) + gap = j
    BY <1>1, <1>3, <2>1
  <2> QED
    BY <1>4, <2>2
<1>7. \A i, j \in kept : i + gap = j + gap => i = j
  BY <1>1, <1>3
<1>8. kept \subseteq 1 .. Len(h) /\ window \subseteq 1 .. Len(log)
  BY <1>1
<1>9. IsFiniteSet(kept)
  <2>1. IsFiniteSet(1 .. Len(h))
    BY <1>1, FS_Interval
  <2> HIDE DEF kept
  <2> QED
    BY <1>8, <2>1, FS_Subset
<1>10. RollingDenies(h) = Cardinality(kept)
       /\ Breaker!DeniesInWindow(log) = Cardinality(window)
  BY SameCardinality DEF RollingDenies, Breaker!DeniesInWindow
<1> HIDE DEF kept, window
<1>11. f \in Bijection(kept, window)
  <2>1. f \in [kept -> window]
    BY <1>5
  <2>2. \A i, j \in kept : f[i] = f[j] => i = j
    BY <1>7
  <2>3. \A j \in window : \E i \in kept : f[i] = j
    BY <1>6
  <2> QED
    BY <2>1, <2>2, <2>3, Fun_IsBij
<1>12. Cardinality(window) = Cardinality(kept)
  BY <1>9, <1>11, FS_Bijection DEF ExistsBijection
<1> QED
  BY <1>10, <1>12

-----------------------------------------------------------------------------
(* Sliding the history by one decision follows the log by one outcome.      *)
LEMMA SlideKeepsEnd ==
    ASSUME NEW log \in Seq(Outcomes), NEW o \in Outcomes,
           NEW h \in Seq(Metadata), KeepsEndOf(h, log),
           NEW m \in Metadata,
           m.outcome = IF Breaker!Latched(log) THEN "deny" ELSE o
    PROVE  KeepsEndOf(Slide(h, m), Append(log, o))
<1> DEFINE new == Append(log, o)
           longer == Append(h, m)
           n == Slide(h, m)
           gap == Len(log) - Len(h)
<1>1. /\ new \in Seq(Outcomes) /\ Len(new) = Len(log) + 1 /\ Len(log) \in Nat
      /\ \A i \in 1 .. Len(log) : new[i] = log[i]
      /\ new[Len(log) + 1] = o
  BY AppendProperties, LenProperties
<1>2. \A k \in 0 .. Len(log) : SubSeq(new, 1, k) = SubSeq(log, 1, k)
  BY PrefixOfAppend
<1>3. SubSeq(log, 1, Len(log)) = log
  BY SubSeqFull
<1>4. /\ longer \in Seq(Metadata) /\ longer # <<>>
      /\ Len(longer) = Len(h) + 1 /\ Len(h) \in Nat
      /\ \A i \in 1 .. Len(h) : longer[i] = h[i]
      /\ longer[Len(h) + 1] = m
  BY AppendProperties, LenProperties
<1>5. HistoryLimit \in Nat \ {0}
  BY OptionsAssumption
<1>6. /\ Len(h) = IF Len(log) > HistoryLimit THEN HistoryLimit ELSE Len(log)
      /\ \A i \in DOMAIN h :
           h[i].outcome = IF Breaker!Latched(SubSeq(log, 1, i + gap - 1))
                          THEN "deny" ELSE log[i + gap]
  BY DEF KeepsEndOf
<1>7. DOMAIN h = 1 .. Len(h)
  BY LenProperties
<1> HIDE DEF new, longer
<1>8. n = IF Len(longer) > HistoryLimit THEN Tail(longer) ELSE longer
  BY DEF Slide, longer
<1>9. /\ Len(Tail(longer)) = Len(longer) - 1 /\ Tail(longer) \in Seq(Metadata)
      /\ \A i \in 1 .. Len(Tail(longer)) : Tail(longer)[i] = longer[i + 1]
  BY <1>4, HeadTailProperties
<1> HIDE DEF n
<1>10. PICK drop \in {0, 1} :
         /\ Len(n) = Len(h) + 1 - drop /\ n \in Seq(Metadata)
         /\ \A i \in 1 .. Len(n) : n[i] = longer[i + drop]
  <2>1. CASE Len(longer) > HistoryLimit
    <3>1. n = Tail(longer)
      BY <1>8, <2>1
    <3>2. Len(n) = Len(h) + 1 - 1 /\ \A i \in 1 .. Len(n) : n[i] = longer[i + 1]
      BY <1>4, <1>9, <3>1
    <3> QED
      BY <1>9, <3>1, <3>2
  <2>2. CASE ~(Len(longer) > HistoryLimit)
    <3>1. n = longer
      BY <1>8, <2>2
    <3>2. Len(n) = Len(h) + 1 - 0
      BY <1>4, <3>1
    <3>3. \A i \in 1 .. Len(n) : n[i] = longer[i + 0]
      BY <3>1, <3>2
    <3> QED
      BY <1>4, <3>1, <3>2, <3>3
  <2> QED
    BY <2>1, <2>2
<1>11. DOMAIN n = 1 .. Len(n)
  BY <1>10, LenProperties
<1>12. Len(n) = IF Len(new) > HistoryLimit THEN HistoryLimit ELSE Len(new)
  BY <1>1, <1>4, <1>5, <1>6, <1>8, <1>9
<1>13. /\ gap \in Nat /\ drop \in Nat /\ Len(h) \in Nat /\ Len(log) \in Nat
       /\ Len(log) = Len(h) + gap
  BY <1>1, <1>4, <1>5, <1>6
<1> HIDE DEF gap
<1>14. Len(new) - Len(n) = gap + drop
  <2>1. Len(new) = Len(h) + gap + 1 /\ Len(n) = Len(h) + 1 - drop
    BY <1>1, <1>10, <1>13
  <2> QED
    BY <1>13, <2>1
<1>15. ASSUME NEW i \in 1 .. Len(n)
       PROVE  n[i].outcome =
                IF Breaker!Latched(SubSeq(new, 1, i + (gap + drop) - 1))
                THEN "deny" ELSE new[i + (gap + drop)]
  <2>1. PICK j \in Nat : j = i + drop
    BY <1>13
  <2>2. j \in 1 .. Len(h) + 1 /\ n[i] = longer[j]
    BY <1>10, <1>13, <2>1
  <2>3. i + (gap + drop) = j + gap /\ i + (gap + drop) - 1 = j + gap - 1
    BY <1>13, <2>1
  <2>4. CASE j \in 1 .. Len(h)
    <3>1. j + gap - 1 \in 0 .. Len(log) /\ j + gap \in 1 .. Len(log)
      BY <1>13, <2>4
    <3>2. SubSeq(new, 1, j + gap - 1) = SubSeq(log, 1, j + gap - 1)
      BY <1>2, <3>1
    <3>3. new[j + gap] = log[j + gap]
      BY <1>1, <3>1
    <3>4. n[i] = h[j] /\ j \in DOMAIN h
      BY <1>4, <1>7, <2>2, <2>4
    <3>5. h[j].outcome = IF Breaker!Latched(SubSeq(new, 1, j + gap - 1))
                         THEN "deny" ELSE new[j + gap]
      BY <1>6, <3>2, <3>3, <3>4
    <3> QED
      BY <2>3, <3>4, <3>5
  <2>5. CASE j = Len(h) + 1
    <3>1. j + gap - 1 = Len(log) /\ j + gap = Len(log) + 1
      BY <1>13, <2>5
    <3>2. SubSeq(new, 1, j + gap - 1) = log /\ new[j + gap] = o
      BY <1>1, <1>2, <1>3, <1>13, <3>1
    <3>3. n[i] = m
      BY <1>4, <2>2, <2>5
    <3>4. m.outcome = IF Breaker!Latched(SubSeq(new, 1, j + gap - 1))
                      THEN "deny" ELSE new[j + gap]
      BY <3>2
    <3> QED
      BY <2>3, <3>3, <3>4
  <2> QED
    BY <1>13, <2>2, <2>4, <2>5
<1> QED
  BY <1>11, <1>12, <1>14, <1>15 DEF KeepsEndOf, n, new

(* Recording an outcome keeps an entry and its log in step: before the trip *)
(* the counter and the window agree with the log, so the entry trips when   *)
(* the log earns it, and after the trip both stay tripped.                  *)
LEMMA RecordMatches ==
    ASSUME NEW e, EntryOK(e), NEW log, Matches(e, log), NEW m \in Metadata
    PROVE  Matches(RecordEntry(e, m), Append(log, m.outcome))
<1> DEFINE o == m.outcome
           new == Append(log, o)
           stored == IF e.tripped THEN RepeatedDenialMetadata ELSE m
           h == Slide(e.history, stored)
           d == IF e.tripped THEN e.consecutiveDenies
                             ELSE CountDenies(e.consecutiveDenies, o)
           n == RecordEntry(e, m)
<1>1. /\ e.history \in Seq(Metadata) /\ Len(e.history) <= HistoryLimit
      /\ e.tripped \in BOOLEAN
  BY DEF EntryOK, Entry
<1>2. o \in Outcomes
  BY DEF Metadata
<1>3. /\ log \in Seq(Outcomes)
      /\ e.tripped <=> Breaker!Latched(log)
      /\ ~e.tripped => e.consecutiveDenies = Breaker!DeniesSinceAllow(log)
      /\ KeepsEndOf(e.history, log)
  BY DEF Matches
<1>4. RepeatedDenialMetadata \in Metadata
      /\ RepeatedDenialMetadata.outcome = "deny"
  BY DEF RepeatedDenialMetadata, Metadata, Outcomes, Null, ReasonCodes, HostCodes
<1>5. stored \in Metadata
      /\ stored.outcome = IF Breaker!Latched(log) THEN "deny" ELSE o
  BY <1>3, <1>4
<1> HIDE DEF stored, o
<1>6. new \in Seq(Outcomes)
  BY <1>2, <1>3, AppendProperties
<1>7. KeepsEndOf(h, new)
  BY <1>1, <1>2, <1>3, <1>5, SlideKeepsEnd
<1>8. h \in Seq(Metadata)
  BY <1>1, <1>5, SlideType
<1>9. Breaker!Latched(new) <=> Breaker!Latched(log) \/ Breaker!Earned(new)
  BY <1>2, <1>3, LatchedAppend
<1>10. ~e.tripped => d = Breaker!DeniesSinceAllow(new)
  BY <1>2, <1>3, DeniesSinceAppend
<1> HIDE DEF h, d, new
<1>11. /\ n.history = h /\ n.consecutiveDenies = d
       /\ n.tripped <=> \/ e.tripped
                        \/ d >= ConsecutiveDenyLimit
                        \/ RollingDenies(h) >= RollingDenyLimit
  BY DEF RecordEntry, h, d, stored, o
<1> HIDE DEF n
<1>12. CASE e.tripped
  BY <1>3, <1>6, <1>7, <1>9, <1>11, <1>12 DEF Matches, n, new, o
<1>13. CASE ~e.tripped
  <2>1. Len(new) = Len(log) + 1 /\ Len(log) \in Nat
    BY <1>2, <1>3, AppendProperties, LenProperties DEF new
  <2>2. ASSUME NEW k \in 0 .. Len(new) - 1
        PROVE  ~Breaker!Latched(SubSeq(new, 1, k))
    <3>1. k \in 0 .. Len(log)
      BY <2>1
    <3>2. SubSeq(new, 1, k) = SubSeq(log, 1, k)
      BY <1>2, <1>3, <3>1, PrefixOfAppend DEF new
    <3> QED
      BY <1>3, <1>13, <3>1, <3>2, LatchedPrefix
  <2>3. RollingDenies(h) = Breaker!DeniesInWindow(new)
    BY <1>6, <1>7, <1>8, <2>2, WindowIsHistory
  <2>4. n.tripped <=> Breaker!Latched(new)
    BY <1>3, <1>9, <1>10, <1>11, <1>13, <2>3 DEF Breaker!Earned
  <2> QED
    BY <1>6, <1>7, <1>10, <1>11, <1>13, <2>4 DEF Matches, n, new, o
<1> QED
  BY <1>12, <1>13

LEMMA NewEntryMatches ==
    ASSUME NEW t \in Nat
    PROVE  Matches(NewEntry(t), <<>>)
<1>1. <<>> \in Seq(Outcomes) /\ Len(<<>>) = 0 /\ DOMAIN <<>> = {}
  OBVIOUS
<1>2. ~Breaker!Latched(<<>>)
  BY <1>1 DEF Breaker!Latched
<1>3. Breaker!DeniesSinceAllow(<<>>) = 0
  BY <1>1, SameCardinality, FS_EmptySet DEF Breaker!DeniesSinceAllow
<1>4. KeepsEndOf(<<>>, <<>>)
  BY <1>1, OptionsAssumption DEF KeepsEndOf
<1>5. /\ NewEntry(t).tripped = FALSE /\ NewEntry(t).consecutiveDenies = 0
      /\ NewEntry(t).history = <<>>
  BY DEF NewEntry
<1> QED
  BY <1>1, <1>2, <1>3, <1>4, <1>5 DEF Matches

LEMMA SameRecordMatches ==
    ASSUME NEW e, NEW f, SameRecord(e, f), NEW log, Matches(f, log)
    PROVE  Matches(e, log)
  BY DEF SameRecord, Matches

-----------------------------------------------------------------------------
(* A call that only forgets runs keeps the logs of the others in step.      *)
LEMMA KeptLogsLInv ==
    ASSUME LInv, IInv', KeptLogs,
           Resident(store') \subseteq Resident(store),
           \A q \in Resident(store') : SameRecord(store'.runs[q], store.runs[q])
    PROVE  LInv'
<1>1. verdicts' = [r \in Resident(store') |-> verdicts[r]]
  BY DEF KeptLogs
<1>2. verdicts' \in [Resident(store') -> Seq(Outcomes)]
  BY <1>1 DEF LInv
<1>3. \A r \in Resident(store') : Matches(store'.runs[r], verdicts'[r])
  BY <1>1, SameRecordMatches DEF LInv
<1>4. (\A r \in Resident(store) : Matches(store.runs[r], verdicts[r]))'
  BY <1>3
<1>5. (verdicts \in [Resident(store) -> Seq(Outcomes)])'
  BY <1>2
<1> QED
  BY <1>4, <1>5 DEF LInv

(* To the breaker such a call is Forget.                                    *)
LEMMA KeptLogsForget ==
    ASSUME LInv, KeptLogs,
           Resident(store') \subseteq Resident(store),
           \A q \in Resident(store') : SameRecord(store'.runs[q], store.runs[q])
    PROVE  Breaker!Forget
<1> DEFINE keep == Resident(store')
<1>1. DOMAIN verdicts = Resident(store)
  BY DEF LInv
<1>2. keep \in SUBSET DOMAIN verdicts
  BY <1>1
<1>3. verdicts' = [q \in keep |-> verdicts[q]]
  BY DEF KeptLogs
<1>4. {r \in Resident(store') : store'.runs[r].tripped}
        = {r \in Resident(store) : store.runs[r].tripped} \cap keep
  BY DEF SameRecord
<1> HIDE DEF keep
<1> QED
  BY <1>2, <1>3, <1>4 DEF Breaker!Forget

(* record, of a known run and of a new one, is Submit, and keeps every      *)
(* entry in step with its log.                                              *)
LEMMA LogRecordStep ==
    ASSUME LInv, IInv', NEW r \in Runs, NEW m \in Submissions, LogRecord(r, m)
    PROVE  LInv' /\ Breaker!Submit(r, m.outcome) /\ m.outcome \in Outcomes
<1> DEFINE known == Resident(CleanupExpired(store, now))
           log == IF r \in known THEN verdicts[r] ELSE <<>>
           old == IF r \in known THEN store.runs[r] ELSE NewEntry(now)
           keep == IF r \in known THEN Resident(store')
                                  ELSE Resident(store') \ {r}
           new == Append(log, m.outcome)
<1>1. /\ m \in Metadata /\ ClockValid(store, now)
      /\ store' = Record(store, r, m, now)
      /\ verdicts' = [q \in Resident(store') |->
                        IF q = r THEN new ELSE verdicts[q]]
  BY DEF LogRecord, RecordDecision, ValidMetadata
<1>2. /\ now \in Nat /\ Sound(store)
      /\ verdicts \in [Resident(store) -> Seq(Outcomes)]
      /\ \A q \in Resident(store) : Matches(store.runs[q], verdicts[q])
  BY DEF LInv, IInv
<1>3. /\ known \subseteq Resident(store)
      /\ Resident(store') \ {r} \subseteq known
      /\ r \in Resident(store')
      /\ EntryOK(old)
      /\ SameRecord(store'.runs[r], RecordEntry(old, m))
      /\ \A q \in Resident(store') \ {r} : store'.runs[q] = store.runs[q]
  BY <1>1, <1>2, RecordShape
<1> HIDE DEF known
<1>4. Matches(old, log)
  BY <1>2, <1>3, NewEntryMatches
<1>5. m.outcome \in Outcomes
  BY <1>1 DEF Metadata
<1> HIDE DEF old
<1>6. Matches(RecordEntry(old, m), new)
  BY <1>1, <1>3, <1>4, RecordMatches
<1>7. Matches(store'.runs[r], new)
  BY <1>3, <1>6, SameRecordMatches
<1>8. new \in Seq(Outcomes) /\ (store'.runs[r].tripped <=> Breaker!Latched(new))
  BY <1>7 DEF Matches
<1> DEFINE logged == IF r \in keep THEN verdicts[r] ELSE <<>>
<1>9. Append(logged, m.outcome) = new
  BY <1>3
<1> HIDE DEF new, log, logged
<1>10. LInv'
  <2>1. verdicts' \in [Resident(store') -> Seq(Outcomes)]
    BY <1>1, <1>2, <1>3, <1>8
  <2>2. \A q \in Resident(store') : Matches(store'.runs[q], verdicts'[q])
    BY <1>1, <1>2, <1>3, <1>7
  <2>3. (verdicts \in [Resident(store) -> Seq(Outcomes)])'
    BY <2>1
  <2>4. (\A q \in Resident(store) : Matches(store.runs[q], verdicts[q]))'
    BY <2>2
  <2> QED
    BY <2>3, <2>4 DEF LInv
<1>11. keep \in SUBSET DOMAIN verdicts /\ keep \cup {r} = Resident(store')
  BY <1>2, <1>3
<1>12. verdicts' = [q \in keep \cup {r} |-> IF q = r THEN new ELSE verdicts[q]]
  BY <1>1, <1>11
<1>13. {q \in Resident(store') : store'.runs[q].tripped}
         = ({q \in Resident(store) : store.runs[q].tripped} \cap (keep \ {r}))
             \cup {q \in {r} : Breaker!Latched(new)}
  BY <1>3, <1>8, <1>11
<1> HIDE DEF keep
<1>14. Breaker!Submit(r, m.outcome)
  BY <1>9, <1>11, <1>12, <1>13 DEF Breaker!Submit, logged
<1> QED
  BY <1>5, <1>10, <1>14

LEMMA LogInitMatches == LogInit => LInv /\ Breaker!Init
<1> SUFFICES ASSUME LogInit PROVE LInv /\ Breaker!Init
  OBVIOUS
<1>1. IInv
  BY InitSound DEF LogInit
<1>2. Resident(store) = {} /\ verdicts = [r \in {} |-> <<>>]
  BY DEF LogInit, Init, EmptyStore, Resident
<1> QED
  BY <1>1, <1>2 DEF LInv, Breaker!Init

(* Each step keeps the link and is a step of the breaker, or a stutter.     *)
LEMMA LogStep ==
    LInv /\ [LogNext]_logvars => LInv' /\ [Breaker!Next]_(Breaker!cbvars)
<1> SUFFICES ASSUME LInv, [LogNext]_logvars
             PROVE  LInv' /\ [Breaker!Next]_(Breaker!cbvars)
  OBVIOUS
<1>1. now \in Nat /\ Sound(store)
  BY DEF LInv, IInv
<1>2. [Next]_vars
  BY DEF LogNext, LogInspect, LogRecord, LogSize, LogClock, Next, logvars, vars
<1>3. IInv'
  BY <1>2, StepSound DEF LInv
<1>4. ASSUME NEW r \in Runs, LogInspect(r)
      PROVE  LInv' /\ [Breaker!Next]_(Breaker!cbvars)
  <2>1. /\ Resident(store') \subseteq Resident(store)
        /\ \A q \in Resident(store') : SameRecord(store'.runs[q], store.runs[q])
    BY <1>1, <1>4, FindShape DEF LogInspect, Inspect
  <2>2. KeptLogs
    BY <1>4 DEF LogInspect
  <2> QED
    BY <1>3, <2>1, <2>2, KeptLogsLInv, KeptLogsForget DEF Breaker!Next
<1>5. ASSUME NEW r \in Runs, NEW m \in Submissions, LogRecord(r, m)
      PROVE  LInv' /\ [Breaker!Next]_(Breaker!cbvars)
  BY <1>3, <1>5, LogRecordStep DEF Breaker!Next
<1>6. CASE LogSize
  <2>1. store' = CleanupExpired(store, now)
    BY <1>6 DEF LogSize, Size
  <2>2. /\ Resident(store') \subseteq Resident(store)
        /\ \A q \in Resident(store') : store'.runs[q] = store.runs[q]
    BY <1>1, <2>1, CleanupShape DEF Sound
  <2>3. KeptLogs /\ \A q \in Resident(store') :
                      SameRecord(store'.runs[q], store.runs[q])
    BY <1>6, <2>2 DEF LogSize, SameRecord
  <2> QED
    BY <1>3, <2>2, <2>3, KeptLogsLInv, KeptLogsForget DEF Breaker!Next
<1>7. CASE LogClock \/ UNCHANGED logvars
  <2>1. UNCHANGED <<store, verdicts>>
    BY <1>7 DEF LogClock, ClockAdvance, ClockStepBack, logvars
  <2> QED
    BY <1>3, <2>1 DEF LInv, Breaker!cbvars
<1> QED
  BY <1>4, <1>5, <1>6, <1>7 DEF LogNext

(* Matches holds of every resident run in every reachable state.            *)
THEOREM LogsMatch == LogSpec => []LInv
<1>1. LogInit => LInv
  BY LogInitMatches
<1>2. LInv /\ [LogNext]_logvars => LInv'
  BY LogStep
<1> QED
  BY <1>1, <1>2, PTL DEF LogSpec

(* The bounded history of a run is the end of everything recorded for it,   *)
(* with what came after the trip remembered as repeated denials.            *)
THEOREM HistoryIsSuffix == LogSpec => []HistoryIsLogSuffix
<1>1. LInv => HistoryIsLogSuffix
  BY DEF LInv, Matches, KeepsEndOf, HistoryIsLogSuffix
<1> QED
  BY <1>1, LogsMatch, PTL

(* record, isTripped, snapshot and size implement the breaker: a run is     *)
(* tripped exactly when the full log of its outcomes earned it.             *)
THEOREM StoreImplementsBreaker == LogSpec => BreakerSpec
<1>1. LogInit => Breaker!Init
  BY LogInitMatches
<1>2. LInv /\ [LogNext]_logvars => [Breaker!Next]_(Breaker!cbvars)
  BY LogStep
<1> QED
  BY <1>1, <1>2, LogsMatch, PTL DEF LogSpec, BreakerSpec, Breaker!Spec
=============================================================================
