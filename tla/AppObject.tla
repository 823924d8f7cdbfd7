----------------------------- MODULE AppObject -----------------------------
(***************************************************************************)
(* The process objects of a daemon: Process::AppObject and the Windows     *)
(* processes behind them.  runTaskProcess executes an object once, right   *)
(* after it is made.  Queries do not change anything and are operators; a  *)
(* query of a process the object has a handle of does not fail.            *)
(***************************************************************************)
EXTENDS ProcessCodes

CONSTANTS
  Objects,    \* the AppObjects
  ExitCodes   \* the codes a process may end with by itself

ASSUME AppObjectAssumption == ExitCodes \subseteq Int

VARIABLES
  life,       \* life[o]: "new", "executed" or "destroyed"
  m_success,  \* m_success[o]: CreateProcessW succeeded
  os,         \* os[o]: the Windows process, [alive, code]
  handle      \* handle[o]: whether the handles in m_processInfo are open

vars == <<life, m_success, os, handle>>

TypeOK ==
  /\ life \in [Objects -> {"new", "executed", "destroyed"}]
  /\ m_success \in [Objects -> BOOLEAN]
  /\ os \in [Objects -> [alive : BOOLEAN, code : Int]]
  /\ handle \in [Objects -> BOOLEAN]

Init ==
  /\ life = [o \in Objects |-> "new"]
  /\ m_success = [o \in Objects |-> FALSE]
  /\ os = [o \in Objects |-> [alive |-> FALSE, code |-> 0]]
  /\ handle = [o \in Objects |-> FALSE]

-----------------------------------------------------------------------------
(***************************************************************************)
(* Queries.                                                                *)
(***************************************************************************)
GetExitCodeProcess(o) == IF os[o].alive THEN STILL_ACTIVE ELSE os[o].code

\* Mutant of getProcessExitCode: whether the process was created is forgotten.
getProcessExitCode_AnyStart(o) == ExitedWith(GetExitCodeProcess(o))

getProcessExitCode(o) ==
  IF m_success[o] THEN ExitedWith(GetExitCodeProcess(o)) ELSE FailedStart

isRunning(o) == getProcessExitCode(o).result = StillRunning

-----------------------------------------------------------------------------
execute(o) ==
  /\ life[o] = "new"
  /\ life' = [life EXCEPT ![o] = "executed"]
  /\ \E created \in BOOLEAN :
       /\ m_success' = [m_success EXCEPT ![o] = created]
       /\ os' = [os EXCEPT ![o].alive = created]
       /\ handle' = [handle EXCEPT ![o] = created]

\* TerminateProcess of a process that has ended already has no effect.
terminate(o) ==
  /\ life[o] = "executed"
  /\ isRunning(o)
  /\ os' = [os EXCEPT ![o] = IF @.alive THEN [alive |-> FALSE, code |-> 1] ELSE @]
  /\ UNCHANGED <<life, m_success, handle>>

\* The daemon itself never destroys an object: doWork deletes the Task record
\* and leaves its AppObject, with the handles, behind.
Destructor(o) ==
  /\ life[o] = "executed"
  /\ life' = [life EXCEPT ![o] = "destroyed"]
  /\ handle' = [handle EXCEPT ![o] = @ /\ ~m_success[o]]
  /\ UNCHANGED <<m_success, os>>

\* The process ends by itself.
ProcessEnds(o) ==
  /\ os[o].alive
  /\ \E code \in ExitCodes : os' = [os EXCEPT ![o] = [alive |-> FALSE, code |-> code]]
  /\ UNCHANGED <<life, m_success, handle>>

Next ==
  \E o \in Objects : execute(o) \/ terminate(o) \/ Destructor(o) \/ ProcessEnds(o)

Spec == Init /\ [][Next]_vars

-----------------------------------------------------------------------------
\* "returns true if process is actually running, false otherwise": isRunning
\* agrees with the operating system, for an object that was executed.  It does
\* not when the process has ended with code 259.
RunningIsActual == \A o \in Objects : life[o] # "new" => (isRunning(o) <=> os[o].alive)

\* What a session sees of the objects.
Reports ==
  [o \in Objects |-> IF life[o] = "new" THEN NoProcess ELSE getProcessExitCode(o)]

Life == INSTANCE ProcessLife WITH Object <- Objects, report <- Reports

\* A session sees one start, one end and no change after it, whatever the
\* process exits with and whoever ends it.
ImplementsProcessLife == Life!LifeSpec
=============================================================================
