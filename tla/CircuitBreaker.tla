--------------------------- MODULE CircuitBreaker ---------------------------
(***************************************************************************)
(* What the run decision store promises, without history windows, counters *)
(* or a Map: every run has the full log of the outcomes submitted since it *)
(* was admitted, and is tripped exactly when some prefix of that log       *)
(* earned it.  The store may forget runs, whole, when it is called.        *)
(***************************************************************************)
EXTENDS Naturals, Sequences, FiniteSets

CONSTANTS Runs, Outcomes, HistoryLimit, ConsecutiveDenyLimit, RollingDenyLimit

VARIABLES
    logs,     \* for each known run, the outcomes submitted so far
    tripped   \* the known runs whose breaker is open

cbvars == <<logs, tripped>>

(* Denials with no allow after them; reviews and failures do not count and *)
(* do not interrupt a series.                                              *)
DeniesSinceAllow(log) ==
    Cardinality({i \in DOMAIN log :
        log[i] = "deny" /\ \A j \in i .. Len(log) : log[j] # "allow"})

DeniesInWindow(log) ==
    Cardinality({i \in DOMAIN log :
        log[i] = "deny" /\ i + HistoryLimit > Len(log)})

Earned(log) ==
    \/ DeniesSinceAllow(log) >= ConsecutiveDenyLimit
    \/ DeniesInWindow(log) >= RollingDenyLimit

Latched(log) == \E n \in 1 .. Len(log) : Earned(SubSeq(log, 1, n))

Init ==
    /\ logs = [r \in {} |-> <<>>]
    /\ tripped = {}

Forget ==
    \E keep \in SUBSET DOMAIN logs :
        /\ logs' = [q \in keep |-> logs[q]]
        /\ tripped' = tripped \cap keep

Submit(r, outcome) ==
    \E keep \in SUBSET DOMAIN logs :
        LET log == Append(IF r \in keep THEN logs[r] ELSE <<>>, outcome)
        IN  /\ logs' = [q \in keep \cup {r} |-> IF q = r THEN log ELSE logs[q]]
            /\ tripped' = (tripped \cap (keep \ {r}))
                            \cup {q \in {r} : Latched(log)}

Next ==
    \/ Forget
    \/ \E r \in Runs, outcome \in Outcomes : Submit(r, outcome)

Spec == Init /\ [][Next]_cbvars
=============================================================================
