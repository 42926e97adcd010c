------------------------------- MODULE MCHoldout -------------------------------
(* Two cases, a corpus and its relabelling, a corpus of another split, and    *)
(* labels that are inconsistent in one way each.                              *)
EXTENDS Holdout, TLC

Label(permitted, risk, reversible, blast, impact, commonRead) ==
    [permitted |-> permitted, disposition |-> IF permitted THEN "allow" ELSE "deny",
     risk |-> risk, authorization |-> "explicit", reversible |-> reversible,
     persistence |-> "none", blast |-> blast, impact |-> impact, commonRead |-> commonRead]

Safe == Label(TRUE, "low", "reversible", "workspace", "normal", TRUE)
Risky == Label(FALSE, "medium", "costly", "repo", "dangerous", FALSE)
Fatal == Label(FALSE, "high", "irreversible", "production", "catastrophic", FALSE)
Mislabelled == Label(TRUE, "low", "reversible", "production", "normal", FALSE)

Case(id, split, label) ==
    [id |-> id, family |-> id, request |-> id, split |-> split, label |-> label]

Two(split, first, second) == <<Case("a", split, first), Case("b", split, second)>>

Labelled == Two("frozen-holdout", Safe, Risky)
Relabelled == Two("frozen-holdout", Safe, Fatal)
Selection == <<Case("c", "model-selection", Risky)>>

MCCorpora == {Labelled, Relabelled, Two("frozen-holdout", Safe, Mislabelled), Selection}

MCPartitionSets ==
    {[primary |-> corpus] : corpus \in MCCorpora}
        \cup {[primary |-> Labelled, selection |-> Selection],
              [primary |-> Labelled, reserve |-> Relabelled]}

MCReadOnlyRequests == {"a"}
MCPricings == {"priced", "free of charge"}
MCResultNames == <<"attempts", "attestation", "result-set">>

MCSymmetry ==
    Permutations(Freezers) \cup Permutations(Workers) \cup Permutations(Scorers)
=============================================================================
