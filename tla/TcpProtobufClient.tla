------------------------- MODULE TcpProtobufClient -------------------------
(***************************************************************************)
(* A daemon's session with a console: the callbacks TcpProtobufClient      *)
(* overrides, called by the session's own thread, and the build processes  *)
(* it starts.  m_tasks is the vector of Task records; an id occurs in it   *)
(* at most once (TasksConserved in BuildFarm), so it is a set here.        *)
(***************************************************************************)
EXTENDS FdbProtocol

VARIABLES
  m_tasks,   \* m_tasks[n]: tasks whose process was started and not yet answered for
  process    \* process[n][t]: the AppObject session n made for task t

clientVars == <<m_tasks, process>>

isRunning(n, t) == process[n][t].result = StillRunning

ClientTypeOK ==
  /\ m_tasks \in [Node -> SUBSET Tasks]
  /\ process \in [Node -> [Tasks -> ProcessState]]

ClientInit ==
  /\ m_tasks = [n \in Node |-> {}]
  /\ process = [n \in Node |-> [t \in Tasks |-> NoProcess]]

-----------------------------------------------------------------------------
\* The connection is established (or refused: see ConnectFails).
onConnect(n) ==
  /\ conn[n] = "connecting"
  /\ conn' = [conn EXCEPT ![n] = "connected"]
  /\ \E c \in FreeCores : toMaster' = [toMaster EXCEPT ![n] = Append(@, InfoPacket(c))]
  /\ UNCHANGED <<toSlave, clientVars>>

ConnectFails(n) ==
  /\ conn[n] = "connecting"
  /\ Cut({n})
  /\ UNCHANGED <<toMaster, clientVars>>

(***************************************************************************)
(* runTaskProcess.  It fails for a project that is not in the daemon's     *)
(* configuration and when the source file cannot be saved; a process that  *)
(* cannot be created still gets its Task record.                           *)
(***************************************************************************)
runTaskProcess(n, t) ==
  /\ ProjectOf[t] \in Config[Host(n)]
  /\ \E p \in {Running} \cup (IF Host(n) \in Unreliable THEN {FailedStart} ELSE {}) :
       process' = [process EXCEPT ![n][t] = p]
  /\ m_tasks' = [m_tasks EXCEPT ![n] = @ \cup {t}]

\* It returns false, and so does onRecvFromNode, after clearing the packets
\* already received; the library then disconnects.  Mutant: the task is skipped.
RefuseTask_Skips(n, t) ==
  /\ ProjectOf[t] \notin Config[Host(n)] \/ Host(n) \in Unreliable
  /\ toSlave' = [toSlave EXCEPT ![n] = Tail(@)]
  /\ UNCHANGED <<conn, clientVars>>

RefuseTask(n, t) ==
  /\ ProjectOf[t] \notin Config[Host(n)] \/ Host(n) \in Unreliable
  /\ Cut({n})
  /\ UNCHANGED clientVars

\* One packet of onRecvFromNode's loop.  The close command, too, makes it
\* return false.
Client_onRecvFromNode(n) ==
  /\ conn[n] = "connected"
  /\ toSlave[n] # <<>>
  /\ LET packet == Head(toSlave[n])
     IN  \/ /\ packet.id # NoId
            /\ runTaskProcess(n, packet.id)
            /\ toSlave' = [toSlave EXCEPT ![n] = Tail(@)]
            /\ UNCHANGED conn
         \/ /\ packet.id # NoId
            /\ RefuseTask(n, packet.id)
         \/ /\ packet.close
            /\ Cut({n})
            /\ UNCHANGED clientVars
  /\ UNCHANGED toMaster

(***************************************************************************)
(* doWork for one task whose process no longer runs.  The number of free   *)
(* cores is computed while the task is still in m_tasks.  After the result *)
(* of a failed AbortOnError task the session disconnects and the record    *)
(* stays in m_tasks.  A send on a connection that is cut fails and         *)
(* disconnects again, which changes nothing.                               *)
(***************************************************************************)
Failed(p) == p.result # Exited \/ p.exit # 0

\* Mutant of ReportedCores: one core too few.
ReportedCores_OneLess(n, cores) == cores - Cardinality(m_tasks[n]) - 1

ReportedCores(n, cores) == cores - Cardinality(m_tasks[n])

\* m_tasks[n] after task t was answered for.  Mutant: it is not erased.
Erased_Not(n, t) == m_tasks[n]
Erased(n, t)     == m_tasks[n] \ {t}

Client_doWork(n, t) ==
  /\ conn[n] = "connected"
  /\ t \in m_tasks[n]
  /\ ~isRunning(n, t)
  /\ \E c \in FreeCores :
       toMaster' = [toMaster EXCEPT ![n] =
                      Append(@, ResultPacket(ReportedCores(n, c), t, process[n][t]))]
  /\ IF Failed(process[n][t]) /\ t \in AbortOnError
     THEN Cut({n}) /\ UNCHANGED m_tasks
     ELSE /\ m_tasks' = [m_tasks EXCEPT ![n] = Erased(n, t)]
          /\ UNCHANGED <<conn, toSlave>>
  /\ UNCHANGED process

\* The operating system ends a build process, also one whose session is over.
ProcessExits(n, t) ==
  /\ isRunning(n, t)
  /\ \E code \in ExitCodes : process' = [process EXCEPT ![n][t] = ExitedWith(code)]
  /\ UNCHANGED <<m_tasks, netVars>>

=============================================================================
