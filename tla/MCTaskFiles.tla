---------------------------- MODULE MCTaskFiles ----------------------------
\* Constant values for model checking TaskFiles.
EXTENDS TaskFiles

CONSTANTS d1, d2, p1, p2

OneProject  == [t \in Tasks |-> p1]
TwoProjects == [t \in Tasks |-> IF t = NumTasks THEN p2 ELSE p1]
AllKnow     == [d \in Daemons |-> {p1, p2}]

\* Every task has files of its own.
Files       == {"source", "output"} \X Tasks
OwnSource   == [t \in Tasks |-> <<"source", t>>]
OwnOutput   == [t \in Tasks |-> <<"output", t>>]
=============================================================================
