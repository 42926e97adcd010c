------------------------- MODULE RunDecisionStoreLog -------------------------
(***************************************************************************)
(* The run decision store with a history variable: for each resident run,  *)
(* every outcome submitted since its entry was created.  With it the store *)
(* implements CircuitBreaker.                                              *)
(***************************************************************************)
EXTENDS RunDecisionStore

CONSTANT MaxLog    \* bound on the outcomes submitted for one entry, for TLC

VARIABLE verdicts  \* [resident runs -> the outcomes submitted]

logvars == <<store, now, verdicts>>

LogInit ==
    /\ Init
    /\ verdicts = [r \in {} |-> <<>>]

KeptLogs == verdicts' = [r \in Resident(store') |-> verdicts[r]]

LogInspect(r) == Inspect(r) /\ KeptLogs

LogSize == Size /\ KeptLogs

LogRecord(r, m) ==
    LET log == IF r \in Resident(CleanupExpired(store, now))
               THEN verdicts[r] ELSE <<>>
    IN  /\ Len(log) < MaxLog
        /\ RecordDecision(r, m)
        /\ verdicts' = [q \in Resident(store') |->
                          IF q = r THEN Append(log, m.outcome)
                                   ELSE verdicts[q]]

LogClock == (ClockAdvance \/ ClockStepBack) /\ UNCHANGED verdicts

LogNext ==
    \/ \E r \in Runs : LogInspect(r)
    \/ \E r \in Runs, m \in Submissions : LogRecord(r, m)
    \/ LogSize
    \/ LogClock

LogSpec == LogInit /\ [][LogNext]_logvars

-----------------------------------------------------------------------------
Breaker == INSTANCE CircuitBreaker
             WITH logs <- verdicts,
                  tripped <- {r \in Resident(store) : store.runs[r].tripped}

(* The store trips a run exactly when the full log of its entry earned it: *)
(* a bounded history and a counter lose nothing the limits depend on, an    *)
(* allow clears the series, a slide never un-trips, and eviction or expiry  *)
(* forgets a run as a whole.                                                *)
BreakerSpec == Breaker!Spec

(* The kept history is the end of the log, with what was submitted after    *)
(* the trip remembered as repeated denials: no slide loses or doubles one.  *)
HistoryIsLogSuffix ==
    \A r \in Resident(store) :
        LET h == store.runs[r].history
            log == verdicts[r]
            gap == Len(log) - Len(h)
        IN  /\ Len(h) = IF Len(log) > HistoryLimit THEN HistoryLimit
                                                   ELSE Len(log)
            /\ \A i \in DOMAIN h :
                 h[i].outcome =
                    IF Breaker!Latched(SubSeq(log, 1, i + gap - 1))
                    THEN "deny" ELSE log[i + gap]
=============================================================================
