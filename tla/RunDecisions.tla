---------------------------- MODULE RunDecisions ----------------------------
(***************************************************************************)
(* The operations of the per-run decision store, the circuit breaker of    *)
(* the gate (src/run-decision-store.js), as operators on a store value.    *)
(* The store and the gate both build on them: RunDecisionStore lets any    *)
(* caller use them in any order, ActionGate uses them as the hook does.    *)
(*                                                                         *)
(* A store value s is a record:                                            *)
(*   s.runs      the resident runs and their entries (the Map's contents), *)
(*   s.older     the Map's insertion order, <<p, q>> when p comes first,   *)
(*   s.lastClock the last clock value the store accepted.                  *)
(* Tool names and their families are left out: the breaker ignores them.   *)
(***************************************************************************)
EXTENDS Naturals, Sequences, FiniteSets, Vocabulary

CONSTANTS
    Runs,                  \* the run identifiers a caller may use
    TtlMs,                 \* idle time after which a run is forgotten
    MaxRuns,               \* number of runs kept
    HistoryLimit,          \* number of decisions kept per run
    ConsecutiveDenyLimit,  \* denials in a row that trip the breaker
    RollingDenyLimit       \* denials in the kept history that trip it

(* What snapshotOptions demands of the caller's settings. *)
ASSUME OptionsAssumption ==
    /\ TtlMs \in Nat \ {0}
    /\ MaxRuns \in 1 .. 1000
    /\ HistoryLimit \in 1 .. 50
    /\ ConsecutiveDenyLimit \in 1 .. HistoryLimit
    /\ RollingDenyLimit \in 1 .. HistoryLimit

RepeatedDenialMetadata ==
    [outcome |-> "deny", risk |-> Null, authorization |-> Null,
     reason_code |-> "repeated_denials"]

-----------------------------------------------------------------------------
Entry == [lastAccess: Nat, history: Seq(Metadata),
          consecutiveDenies: Nat, tripped: BOOLEAN]

NewEntry(t) ==
    [lastAccess |-> t, history |-> <<>>, consecutiveDenies |-> 0,
     tripped |-> FALSE]

EmptyStore(t) == [runs |-> [r \in {} |-> NewEntry(t)], older |-> {},
                  lastClock |-> t]

Resident(s) == DOMAIN s.runs

(* readClock refuses a clock that went back since it was last read. *)
ClockValid(s, t) == t >= s.lastClock

ReadClock(s, t) ==
    [runs |-> s.runs, older |-> s.older, lastClock |-> t]

Keep(s, S) ==
    [runs |-> [r \in S |-> s.runs[r]],
     older |-> s.older \cap (S \X S),
     lastClock |-> s.lastClock]

(* Mutant: a run idle for exactly TtlMs is kept. *)
ExpiredLate(s, t) == {r \in Resident(s) : t - s.runs[r].lastAccess > TtlMs}

Expired(s, t) == {r \in Resident(s) : t - s.runs[r].lastAccess >= TtlMs}

(* Every operation begins with readClock and cleanupExpired. *)
CleanupExpired(s, t) ==
    Keep(ReadClock(s, t), Resident(s) \ Expired(s, t))

Accessed(e, t) ==
    [lastAccess |-> t, history |-> e.history,
     consecutiveDenies |-> e.consecutiveDenies, tripped |-> e.tripped]

(* Mutant: set without delete leaves a known run where it was in the Map. *)
TouchInPlace(s, r, e, t) ==
    LET others == Resident(s) \ {r}
    IN  [runs |-> [q \in others \cup {r} |->
                     IF q = r THEN Accessed(e, t) ELSE s.runs[q]],
         older |-> IF r \in Resident(s) THEN s.older
                   ELSE s.older \cup (others \X {r}),
         lastClock |-> s.lastClock]

(* Delete and set again: r becomes the newest of the Map. *)
Touch(s, r, e, t) ==
    LET others == Resident(s) \ {r}
    IN  [runs |-> [q \in others \cup {r} |->
                     IF q = r THEN Accessed(e, t) ELSE s.runs[q]],
         older |-> (s.older \cap (others \X others)) \cup (others \X {r}),
         lastClock |-> s.lastClock]

Find(s, r, t) ==
    LET live == CleanupExpired(s, t)
    IN  IF r \in Resident(live) THEN Touch(live, r, live.runs[r], t) ELSE live

IsTripped(s, r, t) ==
    LET live == CleanupExpired(s, t)
    IN  r \in Resident(live) /\ live.runs[r].tripped

-----------------------------------------------------------------------------
IsOldest(s, r) ==
    /\ r \in Resident(s)
    /\ \A q \in Resident(s) \ {r} : <<r, q>> \in s.older

(* Mutant: the last run of the Map is the one evicted. *)
Newest(s) ==
    CHOOSE r \in Resident(s) :
        \A q \in Resident(s) \ {r} : <<q, r>> \in s.older

Oldest(s) == CHOOSE r \in Resident(s) : IsOldest(s, r)

(* Mutant: room is made once the Map is over its limit. *)
MakeRoomLate(s) ==
    IF Cardinality(Resident(s)) > MaxRuns
    THEN Keep(s, Resident(s) \ {Oldest(s)})
    ELSE s

(* record evicts the first run of the Map before it adds one to a full Map. *)
MakeRoom(s) ==
    IF Cardinality(Resident(s)) >= MaxRuns
    THEN Keep(s, Resident(s) \ {Oldest(s)})
    ELSE s

(* Mutants: the history slides one decision late, or drops the new one. *)
SlideLate(history, m) ==
    LET longer == Append(history, m)
    IN  IF Len(longer) - 1 > HistoryLimit THEN Tail(longer) ELSE longer

SlideDropsNew(history, m) ==
    LET longer == Append(history, m)
    IN  IF Len(longer) > HistoryLimit THEN history ELSE longer

(* Append, then drop the first once the history is longer than its limit. *)
Slide(history, m) ==
    LET longer == Append(history, m)
    IN  IF Len(longer) > HistoryLimit THEN Tail(longer) ELSE longer

RollingDenies(history) ==
    Cardinality({i \in DOMAIN history : history[i].outcome = "deny"})

(* Mutant: anything but a denial ends the series. *)
CountUnbroken(count, outcome) == IF outcome = "deny" THEN count + 1 ELSE 0

CountDenies(count, outcome) ==
    CASE outcome = "allow" -> 0
      [] outcome = "deny"  -> count + 1
      [] OTHER             -> count

(* Mutant: the limits are tested before the new decision is counted. *)
RecordEntryLate(e, m) ==
    LET history == Slide(e.history, IF e.tripped THEN RepeatedDenialMetadata
                                                 ELSE m)
        denies == IF e.tripped THEN e.consecutiveDenies
                               ELSE CountDenies(e.consecutiveDenies, m.outcome)
    IN  [lastAccess |-> e.lastAccess, history |-> history,
         consecutiveDenies |-> denies,
         tripped |-> \/ e.tripped
                     \/ e.consecutiveDenies >= ConsecutiveDenyLimit
                     \/ RollingDenies(e.history) >= RollingDenyLimit]

(* A tripped entry only remembers that one more call was refused. *)
RecordEntry(e, m) ==
    LET history == Slide(e.history, IF e.tripped THEN RepeatedDenialMetadata
                                                 ELSE m)
        denies == IF e.tripped THEN e.consecutiveDenies
                               ELSE CountDenies(e.consecutiveDenies, m.outcome)
    IN  [lastAccess |-> e.lastAccess, history |-> history,
         consecutiveDenies |-> denies,
         tripped |-> \/ e.tripped
                     \/ denies >= ConsecutiveDenyLimit
                     \/ RollingDenies(history) >= RollingDenyLimit]

(* The store after record(r, m) at clock t. *)
Record(s, r, m, t) ==
    LET live == CleanupExpired(s, t)
        room == IF r \in Resident(live) THEN live ELSE MakeRoom(live)
        entry == IF r \in Resident(live) THEN live.runs[r] ELSE NewEntry(t)
    IN  Touch(room, r, RecordEntry(entry, m), t)

(* The already_tripped and newly_tripped that record returns. *)
AlreadyTripped(s, r, t) == IsTripped(s, r, t)
NewlyTripped(s, r, m, t) ==
    Record(s, r, m, t).runs[r].tripped /\ ~IsTripped(s, r, t)
-----------------------------------------------------------------------------
(* What every store value that the operations build should satisfy. *)
StoreTypeOK(s) ==
    /\ DOMAIN s = {"runs", "older", "lastClock"}
    /\ s.lastClock \in Nat
    /\ Resident(s) \subseteq Runs
    /\ s.runs \in [Resident(s) -> Entry]
    /\ s.older \subseteq Resident(s) \X Resident(s)
    /\ \A r \in Resident(s) : Len(s.runs[r].history) <= HistoryLimit

WithinCapacity(s) == Cardinality(Resident(s)) <= MaxRuns

AllLive(s) ==
    \A r \in Resident(s) :
        /\ s.runs[r].lastAccess <= s.lastClock
        /\ s.lastClock - s.runs[r].lastAccess < TtlMs

TotallyOrdered(s) ==
    /\ \A p \in Resident(s) : <<p, p>> \notin s.older
    /\ \A p, q \in Resident(s) :
         p # q => (<<p, q>> \in s.older <=> <<q, p>> \notin s.older)
    /\ \A p, q, r \in Resident(s) :
         <<p, q>> \in s.older /\ <<q, r>> \in s.older => <<p, r>> \in s.older

OrderedByAccess(s) ==
    /\ TotallyOrdered(s)
    /\ \A p, q \in Resident(s) :
         <<p, q>> \in s.older => s.runs[p].lastAccess <= s.runs[q].lastAccess

BelowLimits(s) ==
    \A r \in Resident(s) :
        ~s.runs[r].tripped =>
            /\ s.runs[r].consecutiveDenies < ConsecutiveDenyLimit
            /\ RollingDenies(s.runs[r].history) < RollingDenyLimit

Tripped(s, r) == r \in Resident(s) /\ s.runs[r].tripped
=============================================================================
