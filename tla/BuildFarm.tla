----------------------------- MODULE BuildFarm -----------------------------
(***************************************************************************)
(* One console and the daemons of its network: the composition of the      *)
(* console's main thread and server thread (ConsoleMain,                   *)
(* TcpProtobufServer) with the UDP thread and the session thread of every  *)
(* daemon (UdpDaemonServer, TcpProtobufClient).  Threads interleave; they  *)
(* meet in the task records and in the network of FdbProtocol.             *)
(***************************************************************************)
EXTENDS ConsoleMain, UdpDaemonServer

vars == <<netVars, inbox, serverVars, mainVars, clientVars, udpVars>>

Init == NetInit /\ ServerInit /\ MainInit /\ ClientInit /\ UdpInit

-----------------------------------------------------------------------------
(***************************************************************************)
(* The threads.                                                            *)
(***************************************************************************)
Main == MainNext /\ UNCHANGED <<clientVars, udpVars>>

\* The server thread works for connection n until main has closed the server.
Server(n) ==
  /\ mainPc # "exited"
  /\ ServerNext(n)
  /\ UNCHANGED <<inbox, mainVars, clientVars, udpVars>>

\* The session thread of connection n.  A connection attempt succeeds while the
\* console listens and fails after that.
Session(n) ==
  /\ \/ mainPc # "exited" /\ onConnect(n)
     \/ mainPc = "exited" /\ ConnectFails(n)
     \/ Client_onRecvFromNode(n)
     \/ \E t \in Tasks : Client_doWork(n, t)
  /\ UNCHANGED <<inbox, serverVars, mainVars, udpVars>>

\* The UDP thread of daemon d.
Udp(d) ==
  /\ UdpNext(d)
  /\ UNCHANGED <<serverVars, mainVars>>

\* The operating system of the daemon ends the process of task t.
Process(n, t) ==
  ProcessExits(n, t) /\ UNCHANGED <<inbox, serverVars, mainVars, udpVars>>

\* The network to an unreliable daemon fails.
Network(n) ==
  /\ ConnectionBreaks(n) \/ (Host(n) \in Unreliable /\ ConnectFails(n))
  /\ UNCHANGED <<inbox, serverVars, mainVars, clientVars, udpVars>>

\* The console has returned and no daemon has anything left to do.
AllQuiet ==
  /\ mainPc = "exited"
  /\ \A d \in Daemons : m_status[d] = "Idle" /\ inbox[d] = 0
  /\ \A n \in Node, t \in Tasks : ~isRunning(n, t)

Terminated == AllQuiet /\ UNCHANGED vars

Next ==
  \/ Main
  \/ \E n \in Node : Server(n) \/ Session(n) \/ Network(n)
  \/ \E n \in Node, t \in Tasks : Process(n, t)
  \/ \E d \in Daemons : Udp(d)
  \/ Terminated

Spec == Init /\ [][Next]_vars

(***************************************************************************)
(* Every thread keeps running, the console serves every connection in      *)
(* turn, and every build process ends.  Nothing makes the network fail.    *)
(***************************************************************************)
Fairness ==
  /\ WF_vars(Main)
  /\ \A n \in Node : WF_vars(Server(n)) /\ WF_vars(Session(n))
  /\ \A n \in Node, t \in Tasks : WF_vars(Process(n, t))
  /\ \A d \in Daemons : WF_vars(Udp(d))

FairSpec == Spec /\ Fairness

-----------------------------------------------------------------------------
\* The variables of every component hold values of their types.
TypeOK == NetTypeOK /\ ServerTypeOK /\ MainTypeOK /\ ClientTypeOK /\ UdpTypeOK

\* A packet of the queue is about task t.
Mentions(queue, t) == \E i \in DOMAIN queue : queue[i].id = t

\* Task t, or its result, is under way on connection n.
OnWire(n, t)   == Mentions(toSlave[n], t)
Answered(n, t) == Mentions(toMaster[n], t)

\* No two packets of a queue are about the same task.
OncePerTask(queue) ==
  \A i, j \in DOMAIN queue : queue[i].id = queue[j].id /\ queue[i].id # NoId => i = j

-----------------------------------------------------------------------------
(***************************************************************************)
(* Every record that names a client names one the server still has: the    *)
(* loop of onClientDisconnected leaves no pointer to the node the library  *)
(* is about to delete, whatever sendTasksToSlave did before it.            *)
(***************************************************************************)
NoDanglingNode ==
  \A t \in Tasks : m_node[t] # nullptr => m_node[t] \in m_clients

(***************************************************************************)
(* Console and daemon agree on who has which task.  While a connection is  *)
(* up, the console has a task assigned to it exactly when the task is in   *)
(* one place of it: in a packet to the daemon, in the daemon's m_tasks, or *)
(* in a result packet.  When it has been cut, the result packets left are  *)
(* still for tasks assigned to it, and no task is answered for twice.      *)
(***************************************************************************)
InOnePlace(n, t) ==
  \/ OnWire(n, t) /\ t \notin m_tasks[n] /\ ~Answered(n, t)
  \/ ~OnWire(n, t) /\ t \in m_tasks[n] /\ ~Answered(n, t)
  \/ ~OnWire(n, t) /\ t \notin m_tasks[n] /\ Answered(n, t)

TasksConserved ==
  \A n \in Node :
    /\ OncePerTask(toSlave[n]) /\ OncePerTask(toMaster[n])
    /\ \A t \in Tasks :
         /\ conn[n] = "connected" =>
              IF m_node[t] = n THEN InOnePlace(n, t)
              ELSE ~OnWire(n, t) /\ t \notin m_tasks[n] /\ ~Answered(n, t)
         /\ Answered(n, t) => m_node[t] = n \/ mainPc = "exited"

(***************************************************************************)
(* A daemon that is connected and has nothing to do can be given work: the *)
(* console has credit for it, or a packet that may bring credit.  It takes *)
(* at least two cores: the report of a finished task still counts that     *)
(* task as running.                                                        *)
(***************************************************************************)
IdleClientHasCredit ==
  \A n \in m_clients :
    conn[n] = "connected" =>
      \/ \E t \in Tasks : OnWire(n, t)
      \/ m_tasks[n] # {}
      \/ toMaster[n] # <<>>
      \/ m_freeCores[n] > 0

(***************************************************************************)
(* A daemon never has more tasks than it has cores for, as the console's   *)
(* log line "sent %i free cores" and the daemon's "No free core" suggest.  *)
(* Not so from three cores on: a report leaves out the tasks under way.    *)
(***************************************************************************)
TasksWithinCores ==
  \A n \in Node : \E c \in FreeCores : Cardinality(m_tasks[n]) <= c

(***************************************************************************)
(* The totals main prints: every result is counted once, as a success or   *)
(* as an error, or still waits in m_doneIp to be counted, although the     *)
(* server thread adds results between two records of a scan.               *)
(***************************************************************************)
ResultsCountedOnce ==
  countSuccess + countError + Cardinality({t \in Tasks : m_doneIp[t] # nullptr})
    = Cardinality({t \in Tasks : m_result[t] # NoInit})

\* When main leaves its loop because it is finished every task has a result
\* and is in the totals.
FinishedMeansCounted ==
  mainPc \in {"closeAll", "closing"} /\ isFinished =>
    /\ \A t \in Tasks : m_result[t] # NoInit
    /\ countSuccess + countError = NumTasks

(***************************************************************************)
(* A task counts as a success only if its output file was saved, and an    *)
(* output file is saved only for such a task.                              *)
(***************************************************************************)
SuccessMeansOutput ==
  \A t \in Tasks : output[t] <=> IsSuccess(t)

\* Exit code 0 is returned only when every task has a result.
ExitZeroMeansDone ==
  mainPc = "exited" /\ exitCode = 0 => \A t \in Tasks : m_result[t] # NoInit

(***************************************************************************)
(* "No one daemon else responding!", which main says when it returns 1     *)
(* because of the timer: then a task is left without a result.             *)
(***************************************************************************)
ExitOneMeansUnfinished ==
  mainPc = "exited" /\ TimerFinished(idle) => \E t \in Tasks : m_result[t] = NoInit

(***************************************************************************)
(* A daemon holds at most one session, the one m_client names, while it is *)
(* not Idle; all its other sessions are over and have no Task records.     *)
(***************************************************************************)
OneSessionPerDaemon ==
  \A d \in Daemons :
    /\ m_status[d] = "Idle" <=> m_client[d] = nullptr
    /\ \A n \in Node : Host(n) = d /\ n # m_client[d] =>
         conn[n] \in {"none", "closed"} /\ m_tasks[n] = {}

-----------------------------------------------------------------------------
\* A result, once recorded, never changes, and its task is never given to a
\* daemon again.
ResultIsFinal ==
  [][\A t \in Tasks : m_result[t] # NoInit =>
       /\ m_result'[t] = m_result[t] /\ m_exitCode'[t] = m_exitCode[t]
       /\ output'[t] = output[t] /\ m_node'[t] = nullptr]_vars

\* The console implements the task board.
Board == INSTANCE TaskBoard WITH
  Task <- Tasks, Worker <- Node, Nobody <- nullptr,
  owner <- m_node, done <- {t \in Tasks : m_result[t] # NoInit}

ImplementsTaskBoard == Board!BoardSpec

ProcessReports == [o \in Node \X Tasks |-> process[o[1]][o[2]]]

Life == INSTANCE ProcessLife WITH Object <- Node \X Tasks, report <- ProcessReports

\* A session starts at most one process for a task, however often the console
\* gives the task away, and what it sees of the process is a process's life.
ImplementsProcessLife == Life!LifeSpec

\* The daemon logs "Finished all tasks" when a working session is over: then
\* no process of the session's Task records still runs.
SessionEndsFinished ==
  [][\A d \in Daemons : m_status[d] = "Working" /\ m_status'[d] = "Idle" =>
       \A t \in m_tasks[m_client[d]] : ~isRunning(m_client[d], t)]_vars

\* The process of a task with AbortOnError has failed on a daemon whose network,
\* disk and process creation do not fail: its session disconnects.
ReliableAborts ==
  \E n \in Node, t \in AbortOnError :
    /\ Host(n) \notin Unreliable
    /\ process[n][t].result = Exited
    /\ Failed(process[n][t])

(***************************************************************************)
(* While main is in its loop and a daemon that does not fail is connected, *)
(* every task gets its result in the end, whatever other daemons do,       *)
(* unless that daemon leaves because of AbortOnError: the timer cannot     *)
(* expire and no task stays with a lost connection.                        *)
(***************************************************************************)
AllTasksGetDone ==
  (/\ mainPc \in {"check", "scan"}
   /\ \E n \in m_clients : Host(n) \notin Unreliable /\ conn[n] = "connected")
  ~> ((\A t \in Tasks : m_result[t] # NoInit) \/ ReliableAborts)

\* The console returns, whatever daemons with at least two cores and the network
\* do: one with a single core can stay connected without ever getting a task.
ConsoleReturns == <>(mainPc = "exited")

\* Every daemon ends up idle, without a session, for good.
DaemonsComeToRest == <>[](\A d \in Daemons : m_status[d] = "Idle")
=============================================================================
