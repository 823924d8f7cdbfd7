----------------------------- MODULE TaskBoard -----------------------------
(***************************************************************************)
(* What the console promises about the tasks of a build, without packets,  *)
(* credit or threads: a task is with at most one worker, is finished once  *)
(* and only by the worker that has it, and a worker that goes away gives   *)
(* back every task it has.  BuildFarm implements this specification.       *)
(***************************************************************************)
CONSTANTS
  Task,     \* the tasks of a build
  Worker,   \* those that may have a task
  Nobody    \* not a worker

VARIABLES
  owner,   \* owner[t]: the worker that has task t, or Nobody
  done     \* the finished tasks

boardVars == <<owner, done>>

BoardInit ==
  /\ owner = [t \in Task |-> Nobody]
  /\ done = {}

Free(t) == owner[t] = Nobody /\ t \notin done

\* Worker w takes a free task.
Take(w, t) ==
  /\ Free(t)
  /\ owner' = [owner EXCEPT ![t] = w]
  /\ UNCHANGED done

\* Worker w hands in a task it has.
Finish(w, t) ==
  /\ owner[t] = w
  /\ owner' = [owner EXCEPT ![t] = Nobody]
  /\ done' = done \cup {t}

\* Worker w hands in a task and gets another one in the same exchange.
FinishAndTake(w, t, u) ==
  /\ owner[t] = w
  /\ Free(u)
  /\ owner' = [owner EXCEPT ![t] = Nobody, ![u] = w]
  /\ done' = done \cup {t}

\* Worker w goes away: all its tasks are free again.
Release(w) ==
  /\ owner' = [t \in Task |-> IF owner[t] = w THEN Nobody ELSE owner[t]]
  /\ UNCHANGED done

BoardNext ==
  \E w \in Worker :
    \/ Release(w)
    \/ \E t \in Task : Take(w, t) \/ Finish(w, t) \/ \E u \in Task : FinishAndTake(w, t, u)

BoardSpec == BoardInit /\ [][BoardNext]_boardVars
=============================================================================
