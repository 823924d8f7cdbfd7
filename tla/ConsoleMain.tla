---------------------------- MODULE ConsoleMain ----------------------------
(***************************************************************************)
(* The console's main thread after loadConfig: it invites the daemons,     *)
(* watches the task records once a second until all have a result or no    *)
(* daemon has been connected for the length of workTimer, then shuts the   *)
(* server down and returns an exit code.  It runs beside the server thread *)
(* (TcpProtobufServer), locking one record at a time.                      *)
(***************************************************************************)
EXTENDS TcpProtobufServer

CONSTANT
  WaitPasses     \* passes of the loop, a second each, that workTimer lasts

ASSUME WaitAssumption == WaitPasses \in Nat \ {0}

VARIABLES
  mainPc,        \* where the main thread is
  cursor,        \* the record the scan looks at next
  isFinished,    \* main's flag: no record of this pass was without a result
  countSuccess,  \* results counted as success, over all addresses of info
  countError,    \* results counted as error, over all addresses of info
  idle,          \* passes since workTimer was last restarted
  exitCode       \* what main returns

mainVars == <<mainPc, cursor, isFinished, countSuccess, countError, idle, exitCode>>

MainPc == {"broadcast", "failed", "check", "scan", "closeAll", "closing", "exited"}

MainTypeOK ==
  /\ mainPc \in MainPc
  /\ cursor \in 1 .. (NumTasks + 1)
  /\ isFinished \in BOOLEAN
  /\ countSuccess \in Nat
  /\ countError \in Nat
  /\ idle \in 0 .. WaitPasses
  /\ exitCode \in {0, 1}

MainInit ==
  /\ mainPc = "broadcast"
  /\ cursor = 1
  /\ isFinished = FALSE
  /\ countSuccess = 0
  /\ countError = 0
  /\ idle = 0
  /\ exitCode = 0

\* Mutant of TimerFinished: off by one.
TimerFinished_Late(i) == i > WaitPasses

TimerFinished(i) == i >= WaitPasses

-----------------------------------------------------------------------------
\* sendBroadcast sends one datagram per network interface; a daemon may get
\* none of them or several.
sendBroadcast ==
  /\ mainPc = "broadcast"
  /\ mainPc' = "check"
  /\ inbox' \in [Daemons -> 0 .. MaxSessions]
  /\ UNCHANGED <<cursor, isFinished, countSuccess, countError, idle, exitCode,
                 netVars, serverVars>>

\* The server is closed: its connections are cut and nothing is handled any more.
ServerClosed ==
  Cut({n \in Node : conn[n] = "connected"}) /\ UNCHANGED <<toMaster, serverVars>>

\* One interface failed; datagrams of the others did go out.  The server thread
\* serves whoever connects until main has closed the server.
BroadcastFails ==
  /\ mainPc = "broadcast"
  /\ mainPc' = "failed"
  /\ inbox' \in [Daemons -> 0 .. MaxSessions]
  /\ UNCHANGED <<cursor, isFinished, countSuccess, countError, idle, exitCode,
                 netVars, serverVars>>

\* server.finish and server.close, without a close command to the clients.
CloseAfterFailure ==
  /\ mainPc = "failed"
  /\ mainPc' = "exited"
  /\ exitCode' = 1
  /\ ServerClosed
  /\ UNCHANGED <<cursor, isFinished, countSuccess, countError, idle, inbox>>

\* The head of the loop: a connected client restarts the timer, an expired
\* timer leaves the loop.
CheckClients ==
  /\ mainPc = "check"
  /\ idle' = IF m_clients # {} THEN 0 ELSE idle
  /\ IF TimerFinished(idle')
     THEN mainPc' = "closeAll" /\ UNCHANGED <<cursor, isFinished>>
     ELSE mainPc' = "scan" /\ cursor' = 1 /\ isFinished' = TRUE
  /\ UNCHANGED <<countSuccess, countError, exitCode, inbox, netVars, serverVars>>

IsError(t) ==
  \/ m_result[t] = NotStarted
  \/ m_result[t] = Exited /\ m_exitCode[t] # 0

IsSuccess(t) == m_result[t] = Exited /\ m_exitCode[t] = 0

\* A result main has not counted yet.  Mutant: m_doneIp is not looked at.
IsNew_EveryPass(t) == m_result[t] # NoInit
IsNew(t)           == m_result[t] # NoInit /\ m_doneIp[t] # nullptr

\* isFinished after record t.  Mutant: the last record alone decides.
StillFinished_LastDecides(t) == m_result[t] # NoInit
StillFinished(t)             == isFinished /\ m_result[t] # NoInit

\* One record, under its m_mutex.
ScanTask(t) ==
  /\ mainPc = "scan"
  /\ t = cursor
  /\ cursor' = t + 1
  /\ isFinished' = StillFinished(t)
  /\ IF IsNew(t)
     THEN /\ countError' = countError + IF IsError(t) THEN 1 ELSE 0
          /\ countSuccess' = countSuccess + IF IsSuccess(t) THEN 1 ELSE 0
          /\ m_doneIp' = [m_doneIp EXCEPT ![t] = nullptr]
     ELSE UNCHANGED <<countError, countSuccess, m_doneIp>>
  /\ UNCHANGED <<mainPc, idle, exitCode, inbox, netVars,
                 m_node, m_result, m_exitCode, output, m_freeCores, peer>>

\* The totals are printed and the pass ends with a second of sleep.
EndOfPass ==
  /\ mainPc = "scan"
  /\ cursor = NumTasks + 1
  /\ idle' = idle + 1
  /\ mainPc' = IF isFinished THEN "closeAll" ELSE "check"
  /\ UNCHANGED <<cursor, isFinished, countSuccess, countError, exitCode, inbox,
                 netVars, serverVars>>

CloseAllClients ==
  /\ mainPc = "closeAll"
  /\ mainPc' = "closing"
  /\ closeAllClients
  /\ UNCHANGED <<cursor, isFinished, countSuccess, countError, idle, exitCode, inbox>>

\* What main returns.  Mutant: the timer is not looked at.
ReturnCode_Zero == 0
ReturnCode      == IF TimerFinished(idle) THEN 1 ELSE 0

\* After a pause server.close, and the exit code.
CloseServer ==
  /\ mainPc = "closing"
  /\ mainPc' = "exited"
  /\ exitCode' = ReturnCode
  /\ ServerClosed
  /\ UNCHANGED <<cursor, isFinished, countSuccess, countError, idle, inbox>>

MainNext ==
  \/ sendBroadcast \/ BroadcastFails \/ CloseAfterFailure \/ CheckClients
  \/ \E t \in Tasks : ScanTask(t)
  \/ EndOfPass \/ CloseAllClients \/ CloseServer
=============================================================================
