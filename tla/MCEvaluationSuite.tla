------------------------- MODULE MCEvaluationSuite -------------------------
(* Three replays and two failures: one strict seed with workers, or up to   *)
(* two seeds replayed by the suite itself.                                  *)
EXTENDS EvaluationSuite

MCInit == Init /\ (suite.parallel => suite.seeds = 1 /\ suite.strict)
MCSpec == MCInit /\ [][Next]_vars /\ Fairness
=============================================================================
