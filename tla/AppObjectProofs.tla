-------------------------- MODULE AppObjectProofs --------------------------
(***************************************************************************)
(* Proofs about AppObject, for any number of objects.                      *)
(***************************************************************************)
EXTENDS AppObject, TLAPS

USE AppObjectAssumption DEF ProcessState

(***************************************************************************)
(* The inductive invariant: an object that is new has no process, and one  *)
(* whose process was not created never has one.                            *)
(***************************************************************************)
ObjectInv ==
  /\ TypeOK
  /\ \A o \in Objects :
       /\ ~m_success[o] => ~os[o].alive
       /\ life[o] = "new" => ~m_success[o]

LEMMA ObjectInvHolds == Spec => []ObjectInv
<1>1. Init => ObjectInv
  BY DEF Init, ObjectInv, TypeOK
<1>2. ObjectInv /\ [Next]_vars => ObjectInv'
  <2> SUFFICES ASSUME ObjectInv, [Next]_vars PROVE ObjectInv'
    OBVIOUS
  <2> USE DEF ObjectInv, TypeOK
  <2>1. ASSUME NEW o \in Objects, execute(o) PROVE ObjectInv'
    BY <2>1 DEF execute
  <2>2. ASSUME NEW o \in Objects, terminate(o) PROVE ObjectInv'
    BY <2>2 DEF terminate
  <2>3. ASSUME NEW o \in Objects, Destructor(o) PROVE ObjectInv'
    BY <2>3 DEF Destructor
  <2>4. ASSUME NEW o \in Objects, ProcessEnds(o) PROVE ObjectInv'
    BY <2>4 DEF ProcessEnds
  <2>5. CASE UNCHANGED vars
    BY <2>5 DEF vars
  <2> QED BY <2>1, <2>2, <2>3, <2>4, <2>5 DEF Next
<1> QED BY <1>1, <1>2, PTL DEF Spec

-----------------------------------------------------------------------------
\* ProcessLife and AppObject name the same codes.
LEMMA SameCodes ==
  /\ Life!NoProcess = NoProcess /\ Life!Running = Running
  /\ Life!FailedStart = FailedStart /\ Life!Exited = Exited
  BY DEF NoProcess, Running, FailedStart, NoInit, StillRunning, NotStarted, Exited,
         Life!NoProcess, Life!Running, Life!FailedStart, Life!NoInit, Life!StillRunning,
         Life!NotStarted, Life!Exited

\* A step that changes at most the report of o, to Running or FailedStart from
\* NoProcess or to an exit from Running, is a step of ProcessLife.
LEMMA LifeStep ==
  ASSUME NEW o \in Objects,
         \A q \in Objects \ {o} : Reports'[q] = Reports[q],
         \/ Reports'[o] = Reports[o]
         \/ Reports[o] = NoProcess /\ Reports'[o] \in {Running, FailedStart}
         \/ Reports[o] = Running /\ Reports'[o].result = Exited
  PROVE  [Life!LifeNext]_Reports
<1> DEFINE before == Reports
           after  == Reports'
<1>1. after = [before EXCEPT ![o] = after[o]]
  BY DEF Reports
<1>2. CASE after[o] = before[o]
  BY <1>1, <1>2 DEF Reports
<1>3. CASE before[o] = NoProcess /\ after[o] \in {Running, FailedStart}
  BY <1>1, <1>3, SameCodes DEF Life!LifeNext, Life!Start
<1>4. CASE before[o] = Running /\ after[o].result = Exited
  BY <1>1, <1>4, SameCodes DEF Life!LifeNext, Life!End
<1> QED BY <1>2, <1>3, <1>4

(***************************************************************************)
(* An AppObject gives a session what ProcessLife promises, for all exit    *)
(* codes: one that exits with 259 is only reported to run for ever.        *)
(***************************************************************************)
THEOREM ImplementsProcessLifeHolds == Spec => ImplementsProcessLife
<1>1. Init => Life!LifeInit
  BY SameCodes DEF Init, Life!LifeInit, Reports
<1>2. ObjectInv /\ [Next]_vars => [Life!LifeNext]_Reports
  <2> SUFFICES ASSUME ObjectInv, [Next]_vars PROVE [Life!LifeNext]_Reports
    OBVIOUS
  <2> USE DEF ObjectInv, TypeOK
  <2>1. ASSUME NEW o \in Objects, execute(o) PROVE [Life!LifeNext]_Reports
    <3>1. \A q \in Objects \ {o} : Reports'[q] = Reports[q]
      BY <2>1 DEF execute, Reports, getProcessExitCode, GetExitCodeProcess
    <3>2. Reports[o] = NoProcess /\ Reports'[o] \in {Running, FailedStart}
      BY <2>1 DEF execute, Reports, getProcessExitCode, GetExitCodeProcess, ExitedWith
    <3> QED BY <3>1, <3>2, LifeStep
  <2>2. ASSUME NEW o \in Objects, terminate(o) PROVE [Life!LifeNext]_Reports
    <3>1. \A q \in Objects \ {o} : Reports'[q] = Reports[q]
      BY <2>2 DEF terminate, Reports, getProcessExitCode, GetExitCodeProcess
    <3>2. Reports'[o] = Reports[o] \/ (Reports[o] = Running /\ Reports'[o].result = Exited)
      BY <2>2 DEF terminate, isRunning, Reports, getProcessExitCode, GetExitCodeProcess,
                  ExitedWith, STILL_ACTIVE, Running
    <3> QED BY <3>1, <3>2, LifeStep
  <2>3. ASSUME NEW o \in Objects, Destructor(o) PROVE [Life!LifeNext]_Reports
    BY <2>3 DEF Destructor, Reports, getProcessExitCode, GetExitCodeProcess
  <2>4. ASSUME NEW o \in Objects, ProcessEnds(o) PROVE [Life!LifeNext]_Reports
    <3>1. \A q \in Objects \ {o} : Reports'[q] = Reports[q]
      BY <2>4 DEF ProcessEnds, Reports, getProcessExitCode, GetExitCodeProcess
    <3>2. Reports'[o] = Reports[o] \/ (Reports[o] = Running /\ Reports'[o].result = Exited)
      BY <2>4 DEF ProcessEnds, Reports, getProcessExitCode, GetExitCodeProcess,
                  ExitedWith, STILL_ACTIVE, Running
    <3> QED BY <3>1, <3>2, LifeStep
  <2>5. CASE UNCHANGED vars
    BY <2>5 DEF vars, Reports, getProcessExitCode, GetExitCodeProcess
  <2> QED BY <2>1, <2>2, <2>3, <2>4, <2>5 DEF Next
<1> QED BY <1>1, <1>2, ObjectInvHolds, PTL DEF Spec, ImplementsProcessLife, Life!LifeSpec
=============================================================================
