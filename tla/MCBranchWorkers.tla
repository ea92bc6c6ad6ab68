--------------------------- MODULE MCBranchWorkers ---------------------------
(* Plans of N branches: all workers at once, or one by one; with the lease  *)
(* and a comparison of all the branches, or neither.                        *)
EXTENDS BranchWorkers

MCPlans == {p \in Plans : /\ \A b \in Branches : p.steps[b] = "s"
                          /\ p.group = IF p.workers = 1 THEN {} ELSE Branches
                          /\ p.policy = IF p.workers = 1 THEN "shared_declared" ELSE "exclusive_lease"}

MCInit == Init /\ plan \in MCPlans
MCSpec == MCInit /\ [][Next]_vars /\ Fairness
=============================================================================
