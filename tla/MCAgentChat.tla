----------------------------- MODULE MCAgentChat -----------------------------
(* Two runs of one chat and one of another, a call of each of the first two, *)
(* two looks at the board and maps of two entries: prompts and verdicts can  *)
(* be crowded out, expire, and arrive before, between and after the looks.   *)
EXTENDS AgentChat

CONSTANTS r1, r2, r3, s1, s2, c1, c2

MCSessionOf == [r \in Runs |-> IF r = r3 THEN s2 ELSE s1]
MCRunOf == [c \in Calls |-> IF c = c1 THEN r1 ELSE r2]
(* A marked chat, a later run of it without the marker or without a trusted  *)
(* request, and another chat.                                                *)
MCPrompts ==
    {[run |-> r1, marked |-> TRUE, trusted |-> TRUE],
     [run |-> r2, marked |-> FALSE, trusted |-> TRUE],
     [run |-> r2, marked |-> TRUE, trusted |-> FALSE],
     [run |-> r3, marked |-> FALSE, trusted |-> TRUE]}
=============================================================================
