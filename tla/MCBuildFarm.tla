---------------------------- MODULE MCBuildFarm ----------------------------
\* Constant values for model checking BuildFarm.
EXTENDS BuildFarm

CONSTANTS d1, d2, p1, p2

OneProject  == [t \in Tasks |-> p1]
TwoProjects == [t \in Tasks |-> IF t = NumTasks THEN p2 ELSE p1]

AllKnow     == [d \in Daemons |-> {p1, p2}]
OneKnowsAll == [d \in Daemons |-> IF d = d1 THEN {p1, p2} ELSE {p1}]
=============================================================================
