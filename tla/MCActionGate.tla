---------------------------- MODULE MCActionGate ----------------------------
(* Two concurrent slots, two runs in a store that keeps one, and a breaker   *)
(* that two denials trip: a pending call can meet a breaker another call     *)
(* opened, a run that was evicted, and a clock that was set back.            *)
EXTENDS ActionGate, TLC

Reg(mode, enforcement, valid, replace) ==
    [mode |-> mode, enforcement |-> enforcement, settingsValid |-> valid,
     hitlReplace |-> replace]

MCConfigurations ==
    {Reg("autonomous", "enforce", TRUE, TRUE),
     Reg("supervised", "enforce", TRUE, FALSE),
     Reg("autonomous", "shadow", TRUE, TRUE),
     Reg("supervised", "enforce", FALSE, FALSE)}

Plain == [observation |-> FALSE, opaque |-> FALSE, unsafe |-> FALSE]
Observation == [Plain EXCEPT !.observation = TRUE]

Sit(problem, hard, active, action) ==
    [problem |-> problem, hard |-> hard, active |-> active, action |-> action]

MCSituations ==
    {Sit("none", FALSE, TRUE, Observation),
     Sit("none", FALSE, FALSE, Plain),
     Sit("none", TRUE, TRUE, Plain),
     Sit("untracked", TRUE, TRUE, Plain),
     Sit("action", TRUE, TRUE, Plain),
     Sit("route", FALSE, TRUE, Plain),
     Sit("envelope", TRUE, FALSE, Plain)}

MCFew == {Sit("none", FALSE, TRUE, Plain), Sit("action", TRUE, TRUE, Plain)}

Says(decision, risk, authorization, code) ==
    [decision |-> decision, risk |-> risk, authorization |-> authorization,
     confident |-> TRUE, reason_code |-> code]

(* An allow, a denial, and a review an observation may override, with the    *)
(* authorization the store accepts and with one it refuses.                  *)
MCAnswers ==
    {Says("allow", "low", "high", SafeCode),
     Says("deny", "high", "low", "sensitive_data"),
     Says("review", "low", "high", "out_of_scope"),
     Says("review", "low", "medium", "out_of_scope")}

MCOne == {Reg("supervised", "enforce", TRUE, FALSE)}

MCSymmetry == Permutations(Calls) \cup Permutations(Runs)
=============================================================================
