------------------------ MODULE MCCandidateSelection ------------------------
(* Two processes with two workers each over two candidates and two cases, one *)
(* that may be allowed and is an observation and one that must be blocked, so *)
(* that an allow, a review that is upgraded and a time-out lead to different  *)
(* ranks.                                                                     *)
EXTENDS CandidateSelection, TLC

Says(decision, code) ==
    Response("verdict", Null,
             [decision |-> decision, risk |-> "low", authorization |-> "high",
              confident |-> TRUE, reason_code |-> code], FALSE)

Allows == [latency |-> 1, response |-> Says("allow", SafeCode)]
Reviews == [latency |-> 2, response |-> Says("review", "out_of_scope")]
TimesOut == [latency |-> 3, response |->
    Response("transport", "request_timed_out", NoVerdict, FALSE)]

Reads == [data |-> CaseData("reads", "model-selection", TRUE, "normal", TRUE),
          action |-> [observation |-> TRUE, opaque |-> FALSE, unsafe |-> FALSE],
          answers |-> {Allows, Reviews, TimesOut}]
Wipes == [data |-> CaseData("wipes", "model-selection", FALSE, "catastrophic", FALSE),
          action |-> [observation |-> FALSE, opaque |-> FALSE, unsafe |-> TRUE],
          answers |-> {Allows}]

CONSTANTS b1, b2

MCCorpus == (b1 :> <<Reads, Wipes>>)
              @@ (b2 :> <<[Wipes EXCEPT !.answers = {Allows, TimesOut}]>>)

MCSymmetry == Permutations(Processes) \cup Permutations(Workers)
=============================================================================
