---------------------------- MODULE ProcessCodes ----------------------------
(***************************************************************************)
(* Process::ExitCodeResult, the Windows code STILL_ACTIVE that             *)
(* GetExitCodeProcess returns for a process that has not exited, and what  *)
(* getProcessExitCode can report of a process.                             *)
(***************************************************************************)
EXTENDS Integers

NoInit       == -100
NotStarted   == -2
StillRunning == -1
Exited       == 0

ExitCodeResult == {NoInit, NotStarted, StillRunning, Exited}

STILL_ACTIVE == 259

\* What getProcessExitCode reports: NoInit stands for no object.
ProcessState == [result : ExitCodeResult, exit : Int]
NoProcess    == [result |-> NoInit, exit |-> 0]
FailedStart  == [result |-> NotStarted, exit |-> 0]
Running      == [result |-> StillRunning, exit |-> 0]

\* GetExitCodeProcess cannot tell exit code 259 from a process that still runs.
ExitedWith(code) ==
  IF code = STILL_ACTIVE THEN Running ELSE [result |-> Exited, exit |-> code]
=============================================================================
