-------------------------- MODULE RunDecisionStore --------------------------
(***************************************************************************)
(* The store that createRunDecisionStore returns, used through its four    *)
(* methods by callers in any order: the gate's hook runs of one process    *)
(* share one store.  Each method is synchronous, so it is one step.  The   *)
(* clock is Date.now, which advances and which an adjustment of the host's *)
(* clock may set back.                                                     *)
(***************************************************************************)
EXTENDS RunDecisions

CONSTANTS
    Submissions,  \* the metadata callers may try to record
    MaxClock      \* bound on the clock, for TLC

ASSUME ClockAssumption == MaxClock \in Nat

VARIABLES store, now

vars == <<store, now>>

Init ==
    /\ now = 0
    /\ store = EmptyStore(now)

-----------------------------------------------------------------------------
(* isTripped(r) and snapshot(r): both go through find, and only the answer *)
(* they take from the entry differs.                                       *)
Inspect(r) ==
    /\ ClockValid(store, now)
    /\ store' = Find(store, r, now)
    /\ UNCHANGED now

(* record(r, m).  Metadata that is refused throws before the clock is read *)
(* and changes nothing, so only valid metadata takes a step.               *)
RecordDecision(r, m) ==
    /\ ValidMetadata(m)
    /\ ClockValid(store, now)
    /\ store' = Record(store, r, m, now)
    /\ UNCHANGED now

(* size() forgets expired runs too. *)
Size ==
    /\ ClockValid(store, now)
    /\ store' = CleanupExpired(store, now)
    /\ UNCHANGED now

ClockAdvance ==
    /\ now < MaxClock
    /\ now' = now + 1
    /\ UNCHANGED store

(* Until the clock catches up with lastClock every method throws. *)
ClockStepBack ==
    /\ now > 0
    /\ now' = now - 1
    /\ UNCHANGED store

Next ==
    \/ \E r \in Runs : Inspect(r)
    \/ \E r \in Runs, m \in Submissions : RecordDecision(r, m)
    \/ Size
    \/ ClockAdvance
    \/ ClockStepBack

Spec == Init /\ [][Next]_vars

-----------------------------------------------------------------------------
(* Every value the store can hold has the shape the code gives it; the     *)
(* history never grows beyond HistoryLimit.                                *)
TypeOK == now \in Nat /\ StoreTypeOK(store)

(* The store never keeps more than MaxRuns runs: eviction makes room        *)
(* before a run is added, whatever expiry has removed just before.          *)
CapacityRespected == WithinCapacity(store)

(* No resident run had been idle for TtlMs when the clock was last read,    *)
(* and none was touched after it: expiry has no gap an idle run survives.   *)
ResidentsAreLive == AllLive(store)

(* Map order is a strict total order of the residents and agrees with the   *)
(* time they were last used: the run evicted first is a least recently used *)
(* one, which holds only because find re-inserts what it reads.             *)
OrderFollowsAccess == OrderedByAccess(store)

(* A run that has not tripped is below both limits on what it remembers:    *)
(* no path records a denial without testing the limits.                     *)
UntrippedBelowLimits == BelowLimits(store)

-----------------------------------------------------------------------------
ForgottenAsIdle(r) == now - store.runs[r].lastAccess >= TtlMs

(* r was the first of a full Map, and a run the Map did not hold came in.   *)
EvictedAsOldest(r) ==
    LET live == CleanupExpired(store, now)
    IN  /\ IsOldest(live, r)
        /\ Cardinality(Resident(live)) >= MaxRuns
        /\ r \notin Resident(store')
        /\ \E q \in Resident(store') : q \notin Resident(live)

(* A tripped run stays tripped through every call and every clock, unless   *)
(* the store forgets it: it had been idle for TtlMs, or it was the least    *)
(* recently used run when a full store took in another.                     *)
LosesOnlyForgotten ==
    \A r \in Resident(store) :
        Tripped(store, r) /\ ~Tripped(store', r) =>
            ForgottenAsIdle(r) \/ EvictedAsOldest(r)

TripSurvives == [][LosesOnlyForgotten]_vars
=============================================================================
