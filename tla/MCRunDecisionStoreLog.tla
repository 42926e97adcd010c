------------------------ MODULE MCRunDecisionStoreLog ------------------------
(* Small instances of the run decision store with its history variable: 2    *)
(* and 3 in place of the limits 3, 10 and 50 keep both trip conditions, the  *)
(* slide and the eviction in reach of a few steps.                           *)
EXTENDS RunDecisionStoreLog, TLC

Decision(outcome, risk, authorization, code) ==
    [outcome |-> outcome, risk |-> risk, authorization |-> authorization,
     reason_code |-> code]

(* One of each outcome, a repeated denial, and metadata the store refuses.   *)
MCSubmissions ==
    {Decision("allow", "low", "high", SafeCode),
     Decision("deny", "high", "low", "sensitive_data"),
     Decision("review", "medium", "medium", "out_of_scope"),
     Decision("allow", "low", "medium", SafeCode)}

MCSymmetry == Permutations(Runs)
=============================================================================
