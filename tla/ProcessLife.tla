---------------------------- MODULE ProcessLife ----------------------------
(***************************************************************************)
(* What a session relies on when it polls a build process: the process is  *)
(* started once, successfully or not; it is reported to run until it is    *)
(* reported to have exited, and no report changes after that.  AppObject   *)
(* and the processes of BuildFarm implement this specification.            *)
(***************************************************************************)
EXTENDS ProcessCodes

CONSTANT Object   \* the build processes

VARIABLE report   \* report[o]: what getProcessExitCode says of o

LifeInit == report = [o \in Object |-> NoProcess]

Start(o) ==
  /\ report[o] = NoProcess
  /\ report' = [report EXCEPT ![o] = Running] \/ report' = [report EXCEPT ![o] = FailedStart]

End(o) ==
  /\ report[o] = Running
  /\ report'[o].result = Exited
  /\ report' = [report EXCEPT ![o] = report'[o]]

LifeNext == \E o \in Object : Start(o) \/ End(o)

LifeSpec == LifeInit /\ [][LifeNext]_report
=============================================================================
