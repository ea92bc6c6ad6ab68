-------------------------- MODULE EvaluationSuite --------------------------
(***************************************************************************)
(* run_suite (evaluation.py): for every seed the source run, its cold      *)
(* replays one after the other or in two worker processes (ColdWorkers),   *)
(* and the recovery probe; their gates are gathered over all seeds into    *)
(* checks, and the report says whether the experiment is ready.  What a    *)
(* session does is in LiveSession; here it passed or not.                  *)
(***************************************************************************)
EXTENDS ColdWorkers

CONSTANTS
    MaxSeeds,     \* bound: the most seeds of a plan
    TenColds      \* cold starts that ten_cold_starts asks for (10)

ASSUME SuiteAssumption == MaxSeeds \in Nat \ {0} /\ TenColds \in Nat

VARIABLES
    suite,    \* phase, seed, and the plan: seeds, strict, parallel, single
    case,     \* the case of this seed: status, attempts, full cycle, colds passed so far
    gates,    \* gate_results: for each gate its items, as seed and status
    report,   \* what is reported: builds, the statuses of the cases, ready
    truth     \* ghost: what each seed really did

suiteVars == <<suite, case, gates, report, truth>>
vars == <<coldVars, suiteVars>>

SourceGates == {"step", "cycle", "recording"}                  \* only of the source
ColdGates == {"session", "scenario", "pause"}                  \* of source and colds
ReplayGates == {"initial", "replay"}                           \* only of colds
Gates == SourceGates \cup ColdGates \cup ReplayGates \cup {"recovery", "ten", "profile"}
Item(status) == [seed |-> suite.seed, status |-> status]
Adding(names, status) == [g \in Gates |-> IF g \in names THEN gates[g] \cup {Item(status)} ELSE gates[g]]

NoCase == [status |-> "running", attempts |-> 0, passed |-> 0, cycle |-> FALSE]
Untrue == [source |-> FALSE, cycle |-> FALSE, colds |-> 0, recovery |-> FALSE]

Init ==
    /\ ColdInit
    /\ suite \in [phase : {"build"}, seed : {1}, seeds : 1..MaxSeeds,
                  strict : BOOLEAN, parallel : BOOLEAN, single : BOOLEAN]
    /\ case = NoCase
    /\ gates = [g \in Gates |-> {}]
    /\ report = [builds |-> "unverified", statuses |-> <<>>, written |-> FALSE, ready |-> FALSE]
    /\ truth = [s \in 1..MaxSeeds |-> Untrue]

Phase(p) == suite' = [suite EXCEPT !.phase = p]
Ends(status) == case' = [case EXCEPT !.status = status] /\ Phase("close")
NoCold == UNCHANGED <<cold, hosts, kept>>

----------------------------------------------------------------------------
(* build_checks: no game is started after a failure. *)
Builds ==
    /\ suite.phase = "build"
    /\ \E status \in {"pass", "fail", "unverified"} :
          /\ report' = [report EXCEPT !.builds = status, !.written = status = "fail"]
          /\ Phase(IF status = "fail" THEN "done" ELSE "source")
          /\ IF status = "pass" THEN Well ELSE Fault
    /\ NoCold /\ UNCHANGED <<case, gates, truth>>

(* The source run with its gates, from the scenario to the full cycle, and *)
(* its retention; the gates it did not get to have no item.                *)
PlaysSource ==
    LET seed == suite.seed
    IN \/ \E cycle \in BOOLEAN :
             /\ gates' = [Adding(ColdGates \cup SourceGates, "pass") EXCEPT
                              !["cycle"] = gates["cycle"] \cup {Item(IF cycle THEN "pass" ELSE "fail")}]
             /\ truth' = [truth EXCEPT ![seed] = [@ EXCEPT !.source = TRUE, !.cycle = cycle]]
             /\ case' = [case EXCEPT !.attempts = 1, !.passed = 1, !.cycle = cycle]
             /\ Phase("replays") /\ Well
       \/ /\ Fault
          /\ \E reached \in {{}, {"scenario"}, {"scenario", "pause", "step"}},
                cycle \in {{}, {"pass"}, {"fail"}}, bad \in {"session", "recording"} :
                /\ cycle # {} => reached = {"scenario", "pause", "step"}
                /\ gates' = [Adding(reached, "pass") EXCEPT
                                 ![bad] = @ \cup {Item("fail")},
                                 !["cycle"] = @ \cup {Item(c) : c \in cycle}]
                /\ case' = [case EXCEPT !.attempts = 1, !.cycle = "pass" \in cycle, !.status = "failed"]
          /\ Phase("close") /\ UNCHANGED truth
       \/ \* the retention itself raises: no source attempt is in the case
          /\ Fault /\ Ends("failed") /\ UNCHANGED <<gates, truth>>
PlaySource ==
    /\ suite.phase = "source"
    /\ PlaysSource
    /\ NoCold /\ UNCHANGED report

(* single_cold ends here; so does a strict case without its full cycle.    *)
Branch ==
    /\ suite.phase = "replays"
    /\ IF suite.single THEN Ends("completed")
       ELSE IF suite.strict /\ ~case.cycle THEN Ends("incomplete")
       ELSE UNCHANGED case /\ Phase(IF suite.parallel THEN "parallel" ELSE "serial")
    /\ cold' = IF suite'.phase = "parallel" THEN [cold EXCEPT !.phase = "poll"] ELSE cold
    /\ UNCHANGED <<hosts, kept, faults, gates, report, truth>>

(* cold_workers = 1: the suite replays itself, up to the first failure.    *)
SerialCold ==
    /\ suite.phase = "serial" /\ AllCold /\ cold.queue # <<>>
    /\ LET r == Head(cold.queue)
       IN \E passed \in BOOLEAN :
             /\ IF passed THEN Well ELSE Fault
             /\ hosts' = [hosts EXCEPT ![r].real = passed, ![r].receipt.unchanged = passed, ![r].proc = "exited"]
             /\ cold' = [cold EXCEPT !.queue = Tail(@), !.results = Append(@, [repeat |-> r, passed |-> passed])]
    /\ UNCHANGED <<kept, suiteVars>>

(* A suite in whose case a worker step may happen. *)
ParallelStep ==
    /\ suite.phase = "parallel"
    /\ ColdStep
    /\ UNCHANGED suiteVars

(* The results join the case and the gates; a failed one may have failed   *)
(* before its gates.                                                       *)
Passed == {i \in DOMAIN cold.results : cold.results[i].passed}
MergeColds ==
    /\ \/ suite.phase = "serial" /\ (~AllCold \/ cold.queue = <<>>)
       \/ suite.phase = "parallel" /\ cold.phase = "done"
    /\ LET good == IF Passed # {} THEN ColdGates \cup ReplayGates ELSE {}
       IN gates' = [g \in Gates |-> gates[g] \cup (IF g \in good THEN {Item("pass")} ELSE {})
                                       \cup (IF g = "replay" /\ ~AllCold THEN {Item("fail")} ELSE {})]
    /\ truth' = [truth EXCEPT ![suite.seed].colds =
                     Cardinality({r \in Colds : hosts[r].real /\ hosts[r].receipt.unchanged})]
    /\ case' = [case EXCEPT !.attempts = @ + Len(cold.results), !.passed = @ + Cardinality(Passed),
                            !.status = IF AllCold THEN @ ELSE "failed"]
    /\ Phase(IF AllCold THEN "recovery" ELSE "close")
    /\ UNCHANGED <<coldVars, report>>

(* _recovery_probe and its retention. *)
RecoveryProbe ==
    /\ suite.phase = "recovery"
    /\ \E recovered \in BOOLEAN :
          /\ IF recovered THEN Well ELSE Fault
          /\ gates' = Adding({"recovery"}, IF recovered THEN "pass" ELSE "fail")
          /\ truth' = [truth EXCEPT ![suite.seed].recovery = recovered]
          /\ Ends(IF recovered THEN "completed" ELSE "failed")
    /\ NoCold /\ UNCHANGED report

(* The case's finally block, and the next seed. *)
CloseCase ==
    /\ suite.phase = "close"
    /\ gates' = Adding({"ten"}, IF case.passed >= TenColds /\ case.passed = case.attempts THEN "pass" ELSE "fail")
    /\ report' = [report EXCEPT !.statuses = Append(@, case.status)]
    /\ suite' = IF suite.seed < suite.seeds THEN [suite EXCEPT !.phase = "source", !.seed = @ + 1]
                ELSE [suite EXCEPT !.phase = "report"]
    /\ case' = NoCase /\ cold' = NoSchedule /\ hosts' = [r \in Colds |-> NoHost]
    /\ UNCHANGED <<kept, faults, truth>>

(* The checks: a gate passes when every seed has an item of it and none is *)
(* other than a pass.                                                      *)
Covered(name) == name = "profile" \/ {i.seed : i \in gates[name]} = 1..suite.seeds
CheckPassesOnce(name) == Covered(name) /\ \E i \in gates[name] : i.status = "pass"
CheckPasses(name) == gates[name] # {} /\ Covered(name) /\ \A i \in gates[name] : i.status = "pass"

(* The profile gate, the checks, and readiness. *)
Readiness ==
    /\ report.builds = "pass"
    /\ \A name \in Gates \ {"profile"} : CheckPasses(name)
    /\ suite.strict /\ Repeats + 1 >= TenColds
WriteReport ==
    /\ suite.phase = "report"
    /\ \E same \in BOOLEAN :
          /\ IF same THEN Well ELSE Fault
          /\ gates' = Adding({"profile"}, IF same THEN "pass" ELSE "fail")
          /\ report' = [report EXCEPT !.written = TRUE, !.ready = Readiness /\ same]
    /\ Phase("done")
    /\ NoCold /\ UNCHANGED <<case, truth>>

SuiteStep == Builds \/ PlaySource \/ Branch \/ SerialCold \/ MergeColds \/ RecoveryProbe \/ CloseCase \/ WriteReport

Next == SuiteStep \/ ParallelStep

(* The suite runs on, and so does its scheduler; time passes; a worker is   *)
(* never owed progress.                                                     *)
Fairness ==
    /\ WF_vars(SuiteStep)
    /\ WF_vars(suite.phase = "parallel" /\ Scheduler /\ UNCHANGED suiteVars)
    /\ \A r \in Colds : WF_vars(suite.phase = "parallel" /\ Expire(r) /\ UNCHANGED suiteVars)
Spec == Init /\ [][Next]_vars /\ Fairness

----------------------------------------------------------------------------
(* Ready means what a reader takes it to mean, for every seed: the source  *)
(* played its full cycle, every replay that was asked for was really made  *)
(* and was equal, the disconnect was recovered from, and no seed's evidence*)
(* stands in for another's.                                                *)
ReadyReal ==
    report.ready =>
        /\ report.builds = "pass" /\ suite.strict /\ ~suite.single
        /\ \A s \in 1..suite.seeds : truth[s] = [source |-> TRUE, cycle |-> TRUE, colds |-> Repeats, recovery |-> TRUE]
        /\ \A i \in DOMAIN report.statuses : report.statuses[i] = "completed"

(* The suite always gets to its report, though its workers may hang or die.*)
SuiteEnds == <>(suite.phase = "done")
=============================================================================
