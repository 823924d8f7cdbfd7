---------------------------- MODULE SessionProofs ----------------------------
(***************************************************************************)
(* The daemon's side of the farm, for every instance: one session at a     *)
(* time, one process per task and session, and how many tasks the numbers  *)
(* of free cores that a session reports bring it.                          *)
(***************************************************************************)
EXTENDS TaskConservationProofs

\* A node belongs to a daemon and is not nullptr.
LEMMA NodeHost == \A n \in Node : Host(n) \in Daemons /\ n # nullptr
BY ConstantsAssumption DEF Node, Host

-----------------------------------------------------------------------------
(***************************************************************************)
(* Sessions.  Besides OneSessionPerDaemon the invariant says that the      *)
(* session of a daemon is one of its own and has been opened, so that the  *)
(* next one, whose connection is not made yet, is another.                 *)
(***************************************************************************)
SessionInv ==
  \A d \in Daemons :
    /\ m_status[d] = "Idle" <=> m_client[d] = nullptr
    /\ m_client[d] # nullptr => Host(m_client[d]) = d /\ conn[m_client[d]] # "none"
    /\ \A n \in Node : Host(n) = d /\ n # m_client[d] =>
         conn[n] \in {"none", "closed"} /\ m_tasks[n] = {}

\* A step that leaves the UDP threads alone: connections go on or are closed,
\* and only a connected session gets tasks.
LEMMA SessionsKept ==
  ASSUME TypeOK, SessionInv, UNCHANGED udpVars,
         \A k \in Node :
           /\ \/ conn'[k] = conn[k]
              \/ conn[k] \in {"connecting", "connected"} /\ conn'[k] \in {"connected", "closed"}
           /\ m_tasks'[k] \subseteq m_tasks[k] \/ conn[k] = "connected"
  PROVE  SessionInv'
<1> SUFFICES ASSUME NEW d \in Daemons
             PROVE  /\ m_status[d] = "Idle" <=> m_client[d] = nullptr
                    /\ m_client[d] # nullptr => Host(m_client[d]) = d /\ conn'[m_client[d]] # "none"
                    /\ \A n \in Node : Host(n) = d /\ n # m_client[d] =>
                         conn'[n] \in {"none", "closed"} /\ m_tasks'[n] = {}
  BY DEF SessionInv, udpVars, Host
<1>1. m_client[d] \in Node \cup {nullptr}
  BY DEF TypeOK, UdpTypeOK
<1>2. m_client[d] # nullptr => conn'[m_client[d]] # "none"
  BY <1>1 DEF SessionInv
<1>3. ASSUME NEW n \in Node, Host(n) = d, n # m_client[d]
      PROVE  conn'[n] \in {"none", "closed"} /\ m_tasks'[n] = {}
  <2>1. conn[n] \in {"none", "closed"} /\ m_tasks[n] = {}
    BY <1>3 DEF SessionInv
  <2>2. m_tasks'[n] \subseteq m_tasks[n]
    BY <2>1
  <2> QED
    BY <2>1, <2>2
<1> QED
  BY <1>2, <1>3 DEF SessionInv

\* Closing connections that are being made or are made.
LEMMA CutKeepsSessions ==
  ASSUME TypeOK, SessionInv, NEW ns \in SUBSET Node, Cut(ns),
         \A n \in ns : conn[n] \in {"connecting", "connected"},
         UNCHANGED <<m_tasks, udpVars>>
  PROVE  SessionInv'
BY SessionsKept DEF Cut

LEMMA MainKeepsSessions ==
  ASSUME TypeOK, SessionInv, Main
  PROVE  SessionInv'
<1>1. CASE CloseAfterFailure \/ CloseServer
  BY <1>1, CutKeepsSessions DEF CloseAfterFailure, CloseServer, ServerClosed, Main, clientVars
<1>2. CASE UNCHANGED conn
  BY <1>2, SessionsKept DEF Main, clientVars
<1> QED
  BY <1>1, <1>2 DEF Main, MainNext, sendBroadcast, BroadcastFails, CheckClients, ScanTask,
                    EndOfPass, CloseAllClients, closeAllClients, netVars

LEMMA SessionKeepsSessions ==
  ASSUME TypeOK, SessionInv, NEW n \in Node, Session(n)
  PROVE  SessionInv'
<1> USE DEF Session
<1>1. CASE onConnect(n)
  BY <1>1, SessionsKept DEF onConnect, clientVars, TypeOK, NetTypeOK
<1>2. CASE ConnectFails(n)
  BY <1>2, CutKeepsSessions DEF ConnectFails, clientVars
<1>3. CASE Client_onRecvFromNode(n)
  <2>1. /\ conn[n] = "connected"
        /\ \/ runTaskProcess(n, Head(toSlave[n]).id) /\ UNCHANGED conn
           \/ Cut({n}) /\ UNCHANGED clientVars
    BY <1>3 DEF Client_onRecvFromNode, RefuseTask
  <2>2. CASE runTaskProcess(n, Head(toSlave[n]).id) /\ UNCHANGED conn
    BY <2>1, <2>2, SessionsKept DEF runTaskProcess, TypeOK, ClientTypeOK
  <2>3. CASE Cut({n}) /\ UNCHANGED clientVars
    BY <2>1, <2>3, CutKeepsSessions DEF clientVars
  <2> QED
    BY <2>1, <2>2, <2>3
<1>4. ASSUME NEW t \in Tasks, Client_doWork(n, t) PROVE SessionInv'
  <2>1. CASE Cut({n}) /\ UNCHANGED m_tasks
    BY <1>4, <2>1, CutKeepsSessions DEF Client_doWork
  <2>2. CASE /\ m_tasks' = [m_tasks EXCEPT ![n] = Erased(n, t)]
             /\ UNCHANGED conn
    BY <1>4, <2>2, SessionsKept DEF Client_doWork, Erased, TypeOK, ClientTypeOK
  <2> QED
    BY <1>4, <2>1, <2>2 DEF Client_doWork
<1> QED
  BY <1>1, <1>2, <1>3, <1>4

\* The UDP thread of daemon d opens a session only when it has none.
LEMMA UdpKeepsSessions ==
  ASSUME TypeOK, SessionInv, NEW d \in Daemons, Udp(d)
  PROVE  SessionInv'
<1> SUFFICES ASSUME NEW e \in Daemons
             PROVE  /\ m_status'[e] = "Idle" <=> m_client'[e] = nullptr
                    /\ m_client'[e] # nullptr =>
                         Host(m_client'[e]) = e /\ conn'[m_client'[e]] # "none"
                    /\ \A n \in Node : Host(n) = e /\ n # m_client'[e] =>
                         conn'[n] \in {"none", "closed"} /\ m_tasks'[n] = {}
  BY DEF SessionInv, Host
<1> USE DEF Udp, TypeOK, NetTypeOK, ClientTypeOK, UdpTypeOK
<1>0. /\ m_status[e] = "Idle" <=> m_client[e] = nullptr
      /\ m_client[e] # nullptr => Host(m_client[e]) = e /\ conn[m_client[e]] # "none"
      /\ \A n \in Node : Host(n) = e /\ n # m_client[e] =>
           conn[n] \in {"none", "closed"} /\ m_tasks[n] = {}
  BY DEF SessionInv
<1>1. CASE DropInvitation(d)
  BY <1>0, <1>1 DEF DropInvitation, netVars, clientVars
<1>2. CASE AcceptInvitation(d)
  <2>1. PICK n \in Node : /\ Host(n) = d /\ conn[n] = "none"
                          /\ m_client' = [m_client EXCEPT ![d] = n]
                          /\ conn' = [conn EXCEPT ![n] = "connecting"]
    BY <1>2 DEF AcceptInvitation, IsNextSession
  <2>2. /\ m_status[d] = "Idle" /\ m_status' = [m_status EXCEPT ![d] = "Connectig"]
        /\ UNCHANGED m_tasks
    BY <1>2 DEF AcceptInvitation, MayAccept, clientVars
  <2>3. CASE e = d
    BY <1>0, <2>1, <2>2, <2>3, NodeHost
  <2>4. CASE e # d
    BY <1>0, <2>1, <2>2, <2>4
  <2> QED
    BY <2>3, <2>4
<1>3. CASE SessionStarted(d)
  BY <1>0, <1>3 DEF SessionStarted, netVars, clientVars
<1>4. CASE SessionOver(d)
  <2>1. /\ conn[m_client[d]] = "closed" /\ m_status[d] # "Idle"
        /\ m_status' = [m_status EXCEPT ![d] = "Idle"]
        /\ m_client' = [m_client EXCEPT ![d] = nullptr]
        /\ m_tasks' = [m_tasks EXCEPT ![m_client[d]] = {}]
        /\ UNCHANGED conn
    BY <1>4 DEF SessionOver, IsOver, netVars
  <2>2. m_client[d] \in Node /\ Host(m_client[d]) = d
    BY <2>1 DEF SessionInv
  <2>3. CASE e = d
    BY <1>0, <2>1, <2>2, <2>3
  <2>4. CASE e # d
    BY <1>0, <2>1, <2>2, <2>4
  <2> QED
    BY <2>3, <2>4
<1> QED
  BY <1>1, <1>2, <1>3, <1>4 DEF UdpNext, Udp_doWork

LEMMA SessionInvariant == Spec => []SessionInv
<1>1. Init => SessionInv
  BY DEF Init, NetInit, ClientInit, UdpInit, SessionInv
<1>2. TypeOK /\ SessionInv /\ [Next]_vars => SessionInv'
  <2> SUFFICES ASSUME TypeOK, SessionInv, [Next]_vars PROVE SessionInv'
    OBVIOUS
  <2>1. CASE UNCHANGED <<conn, m_tasks, udpVars>>
    BY <2>1, SessionsKept
  <2>2. ASSUME NEW n \in Node, Server(n) PROVE SessionInv'
    BY <2>1, <2>2 DEF Server, ServerNext, newClient, Server_onRecvFromNode, Server_doWork,
                      onClientDisconnected, clientVars, netVars
  <2>3. ASSUME NEW n \in Node, Network(n) PROVE SessionInv'
    BY <2>3, CutKeepsSessions DEF Network, ConnectionBreaks, ConnectFails, clientVars
  <2>4. ASSUME NEW n \in Node, NEW t \in Tasks, Process(n, t) PROVE SessionInv'
    BY <2>1, <2>4 DEF Process, ProcessExits, netVars
  <2>5. CASE UNCHANGED vars
    BY <2>1, <2>5 DEF vars, netVars, clientVars
  <2> QED
    BY <2>2, <2>3, <2>4, <2>5, MainKeepsSessions, SessionKeepsSessions, UdpKeepsSessions
       DEF Next, Terminated
<1> QED
  BY <1>1, <1>2, TypeCorrect, PTL DEF Spec

\* A daemon holds at most one session, and exactly while it is not Idle; all its
\* other sessions are over and have no Task records, however many invitations
\* it gets and whenever connections fail.
THEOREM OneSessionPerDaemonHolds == Spec => []OneSessionPerDaemon
<1>1. SessionInv => OneSessionPerDaemon
  BY DEF SessionInv, OneSessionPerDaemon
<1> QED
  BY <1>1, SessionInvariant, PTL

-----------------------------------------------------------------------------
(***************************************************************************)
(* Processes.  A process was started only on a connection that had been    *)
(* made, and while that is up its task is still in m_tasks, answered for,  *)
(* or done.  None of these holds of a task in a packet to the daemon, so   *)
(* the task of a packet has no process yet.                                *)
(***************************************************************************)
StartInv ==
  \A n \in Node, t \in Tasks :
    /\ process[n][t] # NoProcess =>
         /\ conn[n] \in {"connected", "closed"}
         /\ conn[n] = "connected" =>
              t \in m_tasks[n] \/ Answered(n, t) \/ m_result[t] # NoInit
    /\ isRunning(n, t) => process[n][t] = Running

\* What a step may do to the state StartInv is about, when it starts no process
\* and ends none.
LEMMA StartsKept ==
  ASSUME TypeOK, StartInv, UNCHANGED process,
         \A k \in Node :
           \/ conn'[k] = "closed"
           \/ conn[k] \in {"none", "connecting"}
           \/ /\ conn'[k] = conn[k]
              /\ \A t \in Tasks : t \in m_tasks[k] \/ Answered(k, t) \/ m_result[t] # NoInit =>
                                  t \in m_tasks'[k] \/ Answered(k, t)' \/ m_result'[t] # NoInit
  PROVE  StartInv'
<1> SUFFICES ASSUME NEW n \in Node, NEW t \in Tasks
             PROVE  /\ process[n][t] # NoProcess =>
                         /\ conn'[n] \in {"connected", "closed"}
                         /\ conn'[n] = "connected" =>
                              t \in m_tasks'[n] \/ Answered(n, t)' \/ m_result'[t] # NoInit
                    /\ isRunning(n, t)' => process[n][t] = Running
  BY DEF StartInv
<1>1. isRunning(n, t)' => process[n][t] = Running
  BY DEF StartInv, isRunning
<1>2. ASSUME process[n][t] # NoProcess
      PROVE  /\ conn'[n] \in {"connected", "closed"}
             /\ conn'[n] = "connected" =>
                  t \in m_tasks'[n] \/ Answered(n, t)' \/ m_result'[t] # NoInit
  <2>1. conn[n] \in {"connected", "closed"}
    BY <1>2 DEF StartInv
  <2>2. conn[n] = "connected" => t \in m_tasks[n] \/ Answered(n, t) \/ m_result[t] # NoInit
    BY <1>2 DEF StartInv
  <2> QED
    BY <2>1, <2>2
<1> QED
  BY <1>1, <1>2

\* A step of main only closes connections.
LEMMA MainKeepsStarts ==
  ASSUME TypeOK, StartInv, Main
  PROVE  StartInv'
<1>1. UNCHANGED <<process, m_tasks, toMaster, m_result>>
  BY DEF Main, MainNext, sendBroadcast, BroadcastFails, CloseAfterFailure, ServerClosed,
         CheckClients, ScanTask,
         EndOfPass, CloseAllClients, closeAllClients, CloseServer, clientVars, netVars, serverVars
<1>2. \A k \in Node : conn'[k] = "closed" \/ conn'[k] = conn[k]
  BY DEF Main, MainNext, sendBroadcast, BroadcastFails, CloseAfterFailure, ServerClosed,
         CheckClients, ScanTask,
         EndOfPass, CloseAllClients, closeAllClients, CloseServer, netVars, Cut
<1> QED
  BY <1>1, <1>2, StartsKept DEF Answered

\* The server thread takes a result off the queue only to record it.
LEMMA ServerKeepsStarts ==
  ASSUME TypeOK, RecordInv, LinkInv, StartInv, NEW n \in Node, Server(n)
  PROVE  StartInv'
<1>1. UNCHANGED <<conn, process, m_tasks>>
  BY DEF Server, ServerNext, newClient, Server_onRecvFromNode, Server_doWork,
         onClientDisconnected, clientVars, netVars
<1>2. \A t \in Tasks : m_result[t] # NoInit => m_result'[t] # NoInit
  BY ServerKeepsRecords DEF RecordStep
<1>3. CASE Server_onRecvFromNode(n)
  <2> DEFINE packet == Head(toMaster[n])
  <2>1. n \in m_clients /\ toMaster[n] # <<>> /\ mainPc # "exited"
        /\ toMaster' = [toMaster EXCEPT ![n] = Tail(@)]
    BY <1>3 DEF Server_onRecvFromNode, Server
  <2>2. PICK t \in Tasks \cup {NoId}, saved \in BOOLEAN :
          /\ sendTasksToSlave(n, packet.task_count, t)
          /\ applyResultFromSlave(n, packet, Assigned(n, t), saved)
    BY <1>3 DEF Server_onRecvFromNode
  <2>3. packet.id \in Tasks => Applies(n, packet, Assigned(n, t))
    BY <2>1, <2>2, RecvNodes
  <2>4. packet.id \in Tasks => packet.process_code \in Final
    BY <2>1, TailQueue, TasksAreNaturals DEF TypeOK, NetTypeOK, LinkInv, LinkTasks
  <2>5. packet.id \in Tasks => m_result'[packet.id] # NoInit
    <3> HIDE DEF packet
    <3>1. packet.id \in Tasks => m_result' = [m_result EXCEPT ![packet.id] = packet.process_code]
      BY <2>2, <2>3, Zenon DEF applyResultFromSlave
    <3> QED
      BY <2>4, <3>1 DEF TypeOK, ServerTypeOK, Final, NotStarted, Exited, NoInit
  <2>6. toMaster'[n] = Tail(toMaster[n]) /\ \A k \in Node : k # n => toMaster'[k] = toMaster[k]
    BY <2>1 DEF TypeOK, NetTypeOK
  <2>7. \A u \in Tasks : Mentions(toMaster[n], u) => Mentions(toMaster'[n], u) \/ u = packet.id
    BY <2>1, <2>6, TailQueue DEF TypeOK, NetTypeOK
  <2>8. \A k \in Node, u \in Tasks : Answered(k, u) => Answered(k, u)' \/ m_result'[u] # NoInit
    BY <2>5, <2>6, <2>7 DEF Answered
  <2> QED
    BY <1>1, <1>2, <2>8, StartsKept
<1>4. CASE onClientDisconnected(n)
  <2>1. conn[n] = "closed" /\ toMaster' = [toMaster EXCEPT ![n] = <<>>]
    BY <1>4 DEF onClientDisconnected
  <2>2. \A k \in Node : k # n => toMaster'[k] = toMaster[k]
    BY <2>1 DEF TypeOK, NetTypeOK
  <2> QED
    BY <1>1, <1>2, <2>1, <2>2, StartsKept DEF Answered
<1>5. CASE UNCHANGED toMaster
  BY <1>1, <1>2, <1>5, StartsKept DEF Answered
<1> QED
  BY <1>3, <1>4, <1>5 DEF Server, ServerNext, newClient, Server_doWork, netVars

\* The task of a packet to the daemon has no process in this session.
LEMMA TaskOnWireIsNew ==
  ASSUME TypeOK, RecordInv, LinkInv, StartInv, NEW n \in Node, conn[n] = "connected",
         NEW t \in Tasks, OnWire(n, t)
  PROVE  process[n][t] = NoProcess
<1>1. m_node[t] = n /\ t \notin m_tasks[n] /\ ~Answered(n, t)
  BY DEF LinkInv, LinkTasks, InOnePlace, Elsewhere
<1>2. m_result[t] = NoInit
  BY <1>1, NodeHost DEF RecordInv, DoneIsUnowned
<1> QED
  BY <1>1, <1>2 DEF StartInv

\* What runTaskProcess does to the processes.
LEMMA RunStartsProcess ==
  ASSUME TypeOK, NEW n \in Node, toSlave[n] # <<>>, Head(toSlave[n]).id # NoId,
         runTaskProcess(n, Head(toSlave[n]).id)
  PROVE  \E t \in Tasks, p \in {Running, FailedStart} :
           /\ t = Head(toSlave[n]).id /\ OnWire(n, t)
           /\ process' = [process EXCEPT ![n][t] = p]
           /\ m_tasks' = [m_tasks EXCEPT ![n] = @ \cup {t}]
<1>1. Head(toSlave[n]).id \in Tasks
  BY TakeFromSlaveQueue DEF TypeOK, MasterPacket
<1>2. Mentions(toSlave[n], Head(toSlave[n]).id)
  BY TailQueue DEF TypeOK, NetTypeOK
<1> QED
  BY <1>1, <1>2 DEF runTaskProcess, OnWire

\* The packet with the result of task t.
LEMMA ReportPacket ==
  ASSUME TypeOK, NEW n \in Node, NEW t \in Tasks, NEW c \in FreeCores
  PROVE  LET p == ResultPacket(ReportedCores(n, c), t, process[n][t])
         IN  p \in SlavePacket /\ p.id = t /\ p.task_count = c - Cardinality(m_tasks[n])
<1>1. ReportedCores(n, c) \in Int /\ ReportedCores(n, c) = c - Cardinality(m_tasks[n])
  BY TaskSetsFinite, ConstantsAssumption DEF ReportedCores, TypeOK, ClientTypeOK
<1>2. process[n][t] \in ProcessState
  BY DEF TypeOK, ClientTypeOK
<1> QED
  BY <1>1, <1>2, PacketTypes DEF ResultPacket

LEMMA DoWorkAppends ==
  ASSUME TypeOK, NEW n \in Node, NEW t \in Tasks, NEW c \in FreeCores,
         toMaster' = [toMaster EXCEPT ![n] =
                        Append(@, ResultPacket(ReportedCores(n, c), t, process[n][t]))]
  PROVE  \A u \in Tasks : Mentions(toMaster'[n], u) <=> Mentions(toMaster[n], u) \/ u = t
<1> DEFINE p == ResultPacket(ReportedCores(n, c), t, process[n][t])
<1>1. toMaster[n] \in Seq(SlavePacket) /\ toMaster'[n] = Append(toMaster[n], p)
  BY DEF TypeOK, NetTypeOK
<1>2. p \in SlavePacket /\ p.id = t
  BY ReportPacket
<1> HIDE DEF p
<1> QED
  BY <1>1, <1>2, AppendQueue

LEMMA SessionKeepsStarts ==
  ASSUME TypeOK, StartInv, NEW n \in Node, Session(n)
  PROVE  StartInv'
<1> USE DEF Session, serverVars
<1>1. CASE onConnect(n)
  <2>1. /\ conn[n] = "connecting" /\ \A k \in Node : k # n => conn'[k] = conn[k]
        /\ \A k \in Node : k # n => toMaster'[k] = toMaster[k]
        /\ UNCHANGED <<process, m_tasks, m_result>>
    BY <1>1 DEF onConnect, clientVars, TypeOK, NetTypeOK
  <2> QED
    BY <2>1, StartsKept DEF Answered
<1>2. CASE ConnectFails(n)
  BY <1>2, StartsKept DEF ConnectFails, Cut, clientVars, Answered
<1>3. CASE Client_onRecvFromNode(n)
  <2>1. /\ conn[n] = "connected" /\ toSlave[n] # <<>> /\ UNCHANGED <<toMaster, m_result>>
        /\ \/ /\ Head(toSlave[n]).id # NoId /\ runTaskProcess(n, Head(toSlave[n]).id)
              /\ UNCHANGED conn
           \/ Cut({n}) /\ UNCHANGED clientVars
    BY <1>3 DEF Client_onRecvFromNode, RefuseTask
  <2>2. CASE Head(toSlave[n]).id # NoId /\ runTaskProcess(n, Head(toSlave[n]).id) /\ UNCHANGED conn
    <3>1. PICK t \in Tasks, p \in {Running, FailedStart} :
            /\ process' = [process EXCEPT ![n][t] = p]
            /\ m_tasks' = [m_tasks EXCEPT ![n] = @ \cup {t}]
      BY <2>1, <2>2, RunStartsProcess
    <3> SUFFICES ASSUME NEW k \in Node, NEW u \in Tasks
                 PROVE  /\ process'[k][u] # NoProcess =>
                             /\ conn[k] \in {"connected", "closed"}
                             /\ conn[k] = "connected" =>
                                  u \in m_tasks'[k] \/ Answered(k, u) \/ m_result[u] # NoInit
                        /\ process'[k][u].result = StillRunning => process'[k][u] = Running
      BY <2>1, <2>2 DEF StartInv, isRunning, Answered
    <3>2. /\ process[k][u] # NoProcess =>
               /\ conn[k] \in {"connected", "closed"}
               /\ conn[k] = "connected" =>
                    u \in m_tasks[k] \/ Answered(k, u) \/ m_result[u] # NoInit
          /\ process[k][u].result = StillRunning => process[k][u] = Running
      BY DEF StartInv, isRunning
    <3>3. m_tasks[k] \subseteq m_tasks'[k]
      BY <3>1 DEF TypeOK, ClientTypeOK
    <3>4. CASE k = n /\ u = t
      <4>1. process'[k][u] = p /\ u \in m_tasks'[k]
        BY <3>1, <3>4 DEF TypeOK, ClientTypeOK
      <4>2. p.result = StillRunning => p = Running
        BY DEF Running, FailedStart, StillRunning, NotStarted
      <4> QED
        BY <2>1, <3>4, <4>1, <4>2
    <3>5. CASE ~(k = n /\ u = t)
      <4>1. process'[k][u] = process[k][u]
        BY <3>1, <3>5 DEF TypeOK, ClientTypeOK
      <4> QED
        BY <3>2, <3>3, <4>1
    <3> QED
      BY <3>4, <3>5
  <2>3. CASE Cut({n}) /\ UNCHANGED clientVars
    BY <2>1, <2>3, StartsKept DEF Cut, clientVars, Answered
  <2> QED
    BY <2>1, <2>2, <2>3
<1>4. ASSUME NEW t \in Tasks, Client_doWork(n, t) PROVE StartInv'
  <2>1. PICK c \in FreeCores :
          toMaster' = [toMaster EXCEPT ![n] =
                         Append(@, ResultPacket(ReportedCores(n, c), t, process[n][t]))]
    BY <1>4 DEF Client_doWork
  <2>2. UNCHANGED <<process, m_result>>
    BY <1>4 DEF Client_doWork
  <2>3. CASE Cut({n}) /\ UNCHANGED m_tasks
    <3>1. \A k \in Node : k # n => toMaster'[k] = toMaster[k]
      BY <2>1 DEF TypeOK, NetTypeOK
    <3> QED
      BY <2>2, <2>3, <3>1, StartsKept DEF Cut, Answered
  <2>4. CASE /\ m_tasks' = [m_tasks EXCEPT ![n] = Erased(n, t)]
             /\ UNCHANGED conn
    <3>1. \A u \in Tasks : Mentions(toMaster'[n], u) <=> Mentions(toMaster[n], u) \/ u = t
      BY <2>1, DoWorkAppends
    <3>2. \A k \in Node : k # n => toMaster'[k] = toMaster[k] /\ m_tasks'[k] = m_tasks[k]
      BY <2>1, <2>4 DEF TypeOK, NetTypeOK, ClientTypeOK
    <3>3. m_tasks'[n] = m_tasks[n] \ {t}
      BY <2>4 DEF Erased, TypeOK, ClientTypeOK
    <3> QED
      BY <2>2, <2>4, <3>1, <3>2, <3>3, StartsKept DEF Answered
  <2> QED
    BY <1>4, <2>3, <2>4 DEF Client_doWork
<1> QED
  BY <1>1, <1>2, <1>3, <1>4

LEMMA UdpKeepsStarts ==
  ASSUME TypeOK, StartInv, NEW d \in Daemons, Udp(d)
  PROVE  StartInv'
<1> USE DEF Udp, serverVars, netVars, clientVars
<1>1. CASE DropInvitation(d) \/ SessionStarted(d)
  BY <1>1, StartsKept DEF DropInvitation, SessionStarted, Answered
<1>2. CASE AcceptInvitation(d)
  <2>1. PICK n \in Node : conn[n] = "none" /\ conn' = [conn EXCEPT ![n] = "connecting"]
    BY <1>2 DEF AcceptInvitation, IsNextSession
  <2>2. \A k \in Node : k # n => conn'[k] = conn[k]
    BY <2>1 DEF TypeOK, NetTypeOK
  <2> QED
    BY <1>2, <2>1, <2>2, StartsKept DEF AcceptInvitation, Answered
<1>3. CASE SessionOver(d)
  <2>1. /\ conn[m_client[d]] = "closed" /\ m_tasks' = [m_tasks EXCEPT ![m_client[d]] = {}]
        /\ UNCHANGED <<conn, toMaster, process, m_result>>
    BY <1>3 DEF SessionOver, IsOver
  <2>2. \A k \in Node : k # m_client[d] => m_tasks'[k] = m_tasks[k]
    BY <2>1 DEF TypeOK, ClientTypeOK
  <2> QED
    BY <2>1, <2>2, StartsKept DEF Answered
<1> QED
  BY <1>1, <1>2, <1>3 DEF UdpNext, Udp_doWork

LEMMA ProcessKeepsStarts ==
  ASSUME TypeOK, StartInv, NEW n \in Node, NEW t \in Tasks, Process(n, t)
  PROVE  StartInv'
<1>1. PICK code \in ExitCodes : process' = [process EXCEPT ![n][t] = ExitedWith(code)]
  BY DEF Process, ProcessExits
<1>2. process[n][t].result = StillRunning /\ UNCHANGED <<conn, toMaster, m_tasks, m_result>>
  BY DEF Process, ProcessExits, isRunning, netVars, serverVars
<1>3. process[n][t] # NoProcess
  BY <1>2 DEF NoProcess, NoInit, StillRunning
<1>4. ExitedWith(code).result = StillRunning => ExitedWith(code) = Running
  BY DEF ExitedWith, Exited, StillRunning
<1> SUFFICES ASSUME NEW k \in Node, NEW u \in Tasks
             PROVE  /\ process'[k][u] # NoProcess =>
                         /\ conn[k] \in {"connected", "closed"}
                         /\ conn[k] = "connected" =>
                              u \in m_tasks[k] \/ Answered(k, u) \/ m_result[u] # NoInit
                    /\ process'[k][u].result = StillRunning => process'[k][u] = Running
  BY <1>2 DEF StartInv, isRunning, Answered
<1>5. /\ process[k][u] # NoProcess =>
           /\ conn[k] \in {"connected", "closed"}
           /\ conn[k] = "connected" =>
                u \in m_tasks[k] \/ Answered(k, u) \/ m_result[u] # NoInit
      /\ process[k][u].result = StillRunning => process[k][u] = Running
  BY DEF StartInv, isRunning
<1>6. \/ process'[k][u] = process[k][u]
      \/ k = n /\ u = t /\ process'[k][u] = ExitedWith(code)
  BY <1>1 DEF TypeOK, ClientTypeOK
<1> QED
  BY <1>3, <1>4, <1>5, <1>6

LEMMA StartInvariant == Spec => []StartInv
<1>1. Init => StartInv
  BY DEF Init, ClientInit, StartInv, isRunning, NoProcess, NoInit, StillRunning
<1>2. TypeOK /\ RecordInv /\ LinkInv /\ StartInv /\ [Next]_vars => StartInv'
  <2> SUFFICES ASSUME TypeOK, RecordInv, LinkInv, StartInv, [Next]_vars PROVE StartInv'
    OBVIOUS
  <2>1. ASSUME NEW n \in Node, Network(n) PROVE StartInv'
    <3>1. Cut({n}) /\ UNCHANGED <<toMaster, m_tasks, process, m_result>>
      BY <2>1 DEF Network, ConnectionBreaks, ConnectFails, serverVars, clientVars
    <3> QED
      BY <3>1, StartsKept DEF Cut, Answered
  <2>2. CASE UNCHANGED vars
    BY <2>2, StartsKept DEF vars, netVars, serverVars, clientVars, Answered
  <2> QED
    BY <2>1, <2>2, MainKeepsStarts, ServerKeepsStarts, SessionKeepsStarts, UdpKeepsStarts,
       ProcessKeepsStarts DEF Next, Terminated
<1> QED
  BY <1>1, <1>2, TypeCorrect, RecordInvariant, LinkInvariant, PTL DEF Spec

(***************************************************************************)
(* While a connection is up, a process runs only for a task of m_tasks: a  *)
(* task is answered for when its process no longer runs, and is not        *)
(* started again.                                                          *)
(***************************************************************************)
RunningInv ==
  \A n \in Node, t \in Tasks :
    conn[n] = "connected" /\ isRunning(n, t) => t \in m_tasks[n]

\* A step that starts no process, and takes no task with a running process away
\* from a session that is connected.
LEMMA RunningKept ==
  ASSUME StartInv, RunningInv,
         \A k \in Node, u \in Tasks :
           /\ isRunning(k, u)' => isRunning(k, u)
           /\ \/ conn'[k] # "connected"
              \/ conn[k] \in {"none", "connecting"}
              \/ conn[k] = "connected" /\ (u \in m_tasks[k] => u \in m_tasks'[k] \/ ~isRunning(k, u))
  PROVE  RunningInv'
<1> SUFFICES ASSUME NEW k \in Node, NEW u \in Tasks, conn'[k] = "connected", isRunning(k, u)'
             PROVE  u \in m_tasks'[k]
  BY DEF RunningInv
<1>1. isRunning(k, u)
  OBVIOUS
<1>2. conn[k] \in {"connected", "closed"}
  BY <1>1 DEF StartInv, isRunning, NoProcess, NoInit, StillRunning
<1> QED
  BY <1>1, <1>2 DEF RunningInv

LEMMA SessionKeepsRunning ==
  ASSUME TypeOK, StartInv, RunningInv, NEW n \in Node, Session(n)
  PROVE  RunningInv'
<1> USE DEF Session
<1>1. CASE UNCHANGED process
  <2>1. ASSUME NEW t \in Tasks, Client_doWork(n, t) PROVE RunningInv'
    BY <1>1, <2>1, RunningKept
       DEF Client_doWork, Erased, Cut, isRunning, TypeOK, NetTypeOK, ClientTypeOK
  <2>2. CASE onConnect(n)
    BY <1>1, <2>2, RunningKept DEF onConnect, clientVars, isRunning, TypeOK, NetTypeOK
  <2>3. CASE Cut({n}) /\ UNCHANGED clientVars
    BY <2>3, RunningKept DEF Cut, clientVars, isRunning, TypeOK, NetTypeOK, ConnState
  <2>4. CASE Client_onRecvFromNode(n) /\ runTaskProcess(n, Head(toSlave[n]).id) /\ UNCHANGED conn
    BY <1>1, <2>4, RunningKept
       DEF Client_onRecvFromNode, runTaskProcess, isRunning, TypeOK, NetTypeOK, ConnState, ClientTypeOK
  <2> QED
    BY <2>1, <2>2, <2>3, <2>4 DEF ConnectFails, Client_onRecvFromNode, RefuseTask
<1>2. CASE /\ conn[n] = "connected" /\ toSlave[n] # <<>> /\ Head(toSlave[n]).id # NoId
           /\ runTaskProcess(n, Head(toSlave[n]).id) /\ UNCHANGED conn
  <2>1. PICK t \in Tasks, p \in {Running, FailedStart} :
          /\ process' = [process EXCEPT ![n][t] = p]
          /\ m_tasks' = [m_tasks EXCEPT ![n] = @ \cup {t}]
    BY <1>2, RunStartsProcess
  <2> SUFFICES ASSUME NEW k \in Node, NEW u \in Tasks, conn[k] = "connected", isRunning(k, u)'
               PROVE  u \in m_tasks'[k]
    BY <1>2 DEF RunningInv
  <2>2. CASE k = n /\ u = t
    BY <2>1, <2>2 DEF TypeOK, ClientTypeOK
  <2>3. CASE ~(k = n /\ u = t)
    <3>1. process'[k][u] = process[k][u] /\ m_tasks[k] \subseteq m_tasks'[k]
      BY <2>1, <2>3 DEF TypeOK, ClientTypeOK
    <3> QED
      BY <3>1 DEF RunningInv, isRunning
  <2> QED
    BY <2>2, <2>3
<1> QED
  BY <1>1, <1>2 DEF onConnect, ConnectFails, Client_onRecvFromNode, RefuseTask, Client_doWork,
                    clientVars

LEMMA RunningInvariant == Spec => []RunningInv
<1>1. Init => RunningInv
  BY DEF Init, NetInit, RunningInv
<1>2. TypeOK /\ StartInv /\ RunningInv /\ [Next]_vars => RunningInv'
  <2> SUFFICES ASSUME TypeOK, StartInv, RunningInv, [Next]_vars PROVE RunningInv'
    OBVIOUS
  <2>1. CASE UNCHANGED clientVars /\ \A k \in Node : conn'[k] \in {conn[k], "closed"}
    BY <2>1, RunningKept DEF clientVars, isRunning, TypeOK, NetTypeOK, ConnState
  <2>2. CASE Main
    BY <2>1, <2>2 DEF Main, MainNext, sendBroadcast, BroadcastFails, CloseAfterFailure, ServerClosed,
                      CheckClients, ScanTask, EndOfPass, CloseAllClients, closeAllClients, CloseServer, netVars, Cut
  <2>3. ASSUME NEW n \in Node, Server(n) \/ Network(n) PROVE RunningInv'
    BY <2>1, <2>3 DEF Server, ServerNext, newClient, Server_onRecvFromNode, Server_doWork,
                      onClientDisconnected, Network, ConnectionBreaks, ConnectFails, netVars, Cut
  <2>4. ASSUME NEW n \in Node, NEW t \in Tasks, Process(n, t) PROVE RunningInv'
    <3>1. PICK code \in ExitCodes : process' = [process EXCEPT ![n][t] = ExitedWith(code)]
      BY <2>4 DEF Process, ProcessExits
    <3>2. isRunning(n, t) /\ UNCHANGED <<conn, m_tasks>>
      BY <2>4 DEF Process, ProcessExits, netVars
    <3>3. \A k \in Node, u \in Tasks : isRunning(k, u)' => isRunning(k, u)
      BY <3>1, <3>2 DEF isRunning, TypeOK, ClientTypeOK
    <3> QED
      BY <3>2, <3>3 DEF RunningInv
  <2>5. ASSUME NEW d \in Daemons, Udp(d) PROVE RunningInv'
    <3>1. UNCHANGED process
      BY <2>5 DEF Udp, UdpNext, DropInvitation, AcceptInvitation, Udp_doWork, SessionStarted,
                  SessionOver, clientVars
    <3>2. ASSUME NEW k \in Node
          PROVE  \/ conn'[k] # "connected"
                 \/ conn[k] = "connected" /\ m_tasks'[k] = m_tasks[k]
      BY <2>5 DEF Udp, UdpNext, DropInvitation, AcceptInvitation, Udp_doWork, SessionStarted,
                  SessionOver, IsOver, clientVars, netVars, TypeOK, NetTypeOK, ClientTypeOK
    <3> QED
      BY <3>1, <3>2, RunningKept DEF isRunning
  <2>6. CASE UNCHANGED vars
    BY <2>1, <2>6 DEF vars, netVars
  <2> QED
    BY <2>2, <2>3, <2>4, <2>5, <2>6, SessionKeepsRunning DEF Next, Terminated
<1> QED
  BY <1>1, <1>2, TypeCorrect, StartInvariant, PTL DEF Spec

-----------------------------------------------------------------------------
(***************************************************************************)
(* Refinement of ProcessLife: runTaskProcess starts a process, ProcessExits*)
(* ends one, and no other step changes a report.                           *)
(***************************************************************************)

\* ProcessLife and the farm name the same codes.
LEMMA SameCodes ==
  /\ Life!NoProcess = NoProcess /\ Life!Running = Running
  /\ Life!FailedStart = FailedStart /\ Life!Exited = Exited
BY DEF NoProcess, Running, FailedStart, NoInit, StillRunning, NotStarted, Exited,
       Life!NoProcess, Life!Running, Life!FailedStart, Life!NoInit, Life!StillRunning,
       Life!NotStarted, Life!Exited

\* A step that changes one report the way a process may go is one of ProcessLife.
LEMMA LifeStep ==
  ASSUME TypeOK, NEW n \in Node, NEW t \in Tasks, NEW p,
         process' = [process EXCEPT ![n][t] = p],
         \/ process[n][t] = NoProcess /\ p \in {Running, FailedStart}
         \/ process[n][t] = Running /\ (p = Running \/ p.result = Exited)
  PROVE  [Life!LifeNext]_ProcessReports
<1> DEFINE o      == <<n, t>>
           before == ProcessReports
           after  == ProcessReports'
<1>1. o \in Node \X Tasks /\ before[o] = process[n][t]
  BY DEF ProcessReports
<1>2. after = [before EXCEPT ![o] = p]
  <2>1. \A k \in Node, u \in Tasks :
          process'[k][u] = IF k = n /\ u = t THEN p ELSE process[k][u]
    BY DEF TypeOK, ClientTypeOK
  <2>2. \A q \in Node \X Tasks : after[q] = IF q = o THEN p ELSE before[q]
    <3> SUFFICES ASSUME NEW k \in Node, NEW u \in Tasks
                 PROVE  after[<<k, u>>] = IF <<k, u>> = o THEN p ELSE before[<<k, u>>]
      OBVIOUS
    <3>1. after[<<k, u>>] = process'[k][u] /\ before[<<k, u>>] = process[k][u]
      BY DEF ProcessReports
    <3> QED
      BY <2>1, <3>1
  <2> QED
    BY <2>2 DEF ProcessReports
<1>3. after[o] = p
  BY <1>1, <1>2 DEF ProcessReports
<1>4. CASE process[n][t] = NoProcess /\ p \in {Running, FailedStart}
  <2>1. Life!Start(o)
    BY <1>1, <1>2, <1>4, SameCodes DEF Life!Start
  <2> QED
    BY <1>1, <2>1 DEF Life!LifeNext
<1>5. CASE process[n][t] = Running /\ p.result = Exited
  <2>1. Life!End(o)
    BY <1>1, <1>2, <1>3, <1>5, SameCodes DEF Life!End
  <2> QED
    BY <1>1, <2>1 DEF Life!LifeNext
<1>6. CASE process[n][t] = Running /\ p = Running
  BY <1>1, <1>2, <1>6 DEF ProcessReports
<1> QED
  BY <1>4, <1>5, <1>6

\* A session starts at most one process for a task, also when the console takes
\* the task back and gives it away again, and what the session sees of it is the
\* life of a process: a start, perhaps an end, no change after that.
THEOREM FarmImplementsProcessLife == Spec => ImplementsProcessLife
<1>1. Init => Life!LifeInit
  BY SameCodes DEF Init, ClientInit, Life!LifeInit, ProcessReports
<1>2. TypeOK /\ RecordInv /\ LinkInv /\ StartInv /\ [Next]_vars =>
        [Life!LifeNext]_ProcessReports
  <2> SUFFICES ASSUME TypeOK, RecordInv, LinkInv, StartInv, [Next]_vars
               PROVE  [Life!LifeNext]_ProcessReports
    OBVIOUS
  <2>1. CASE UNCHANGED process
    BY <2>1 DEF ProcessReports
  <2>2. ASSUME NEW n \in Node, Session(n) PROVE [Life!LifeNext]_ProcessReports
    <3>1. CASE /\ conn[n] = "connected" /\ toSlave[n] # <<>> /\ Head(toSlave[n]).id # NoId
               /\ runTaskProcess(n, Head(toSlave[n]).id)
      <4>1. PICK t \in Tasks, p \in {Running, FailedStart} :
              OnWire(n, t) /\ process' = [process EXCEPT ![n][t] = p]
        BY <3>1, RunStartsProcess
      <4>2. process[n][t] = NoProcess
        BY <3>1, <4>1, TaskOnWireIsNew
      <4> QED
        BY <4>1, <4>2, LifeStep
    <3> QED
      BY <2>1, <2>2, <3>1
         DEF Session, onConnect, ConnectFails, Client_onRecvFromNode, RefuseTask, Client_doWork,
             clientVars
  <2>3. ASSUME NEW n \in Node, NEW t \in Tasks, Process(n, t)
        PROVE  [Life!LifeNext]_ProcessReports
    <3>1. PICK code \in ExitCodes : process' = [process EXCEPT ![n][t] = ExitedWith(code)]
      BY <2>3 DEF Process, ProcessExits
    <3>2. process[n][t] = Running
      BY <2>3 DEF Process, ProcessExits, StartInv
    <3>3. ExitedWith(code) = Running \/ ExitedWith(code).result = Exited
      BY DEF ExitedWith
    <3> QED
      BY <3>1, <3>2, <3>3, LifeStep
  <2> QED
    BY <2>1, <2>2, <2>3
       DEF Next, Main, Server, Network, ConnectionBreaks, ConnectFails, Udp, UdpNext, Udp_doWork,
           DropInvitation, AcceptInvitation, SessionStarted, SessionOver, Terminated, vars,
           clientVars
<1> QED
  BY <1>1, <1>2, TypeCorrect, RecordInvariant, LinkInvariant, StartInvariant, PTL
     DEF Spec, ImplementsProcessLife, Life!LifeSpec

-----------------------------------------------------------------------------
(***************************************************************************)
(* Credit.  What a daemon has to do is its load: the tasks of packets that *)
(* it has not read, and those in m_tasks.  Seen from one connection that   *)
(* is up, a step of the farm is one of the following; the console gives a  *)
(* task away with the credit of a packet or with the one it has kept.      *)
(***************************************************************************)
Load(n) == {t \in Tasks : OnWire(n, t)} \cup m_tasks[n]

\* With this much credit the console gives n a task, or none.
Gives(n, credit) ==
  \/ /\ credit > 0 /\ m_freeCores'[n] = credit - 1
     /\ \E t \in Tasks \ Load(n) : Load(n)' = Load(n) \cup {t}
  \/ m_freeCores'[n] = credit /\ Load(n)' = Load(n)

Opens(n) ==
  /\ conn[n] = "connecting" /\ m_freeCores'[n] = m_freeCores[n] /\ Load(n)' = {}
  /\ \E c \in FreeCores : toMaster'[n] = <<InfoPacket(c)>>

Reports(n) ==
  /\ m_freeCores'[n] = m_freeCores[n]
  /\ \E t \in m_tasks[n], c \in FreeCores, p \in SlavePacket :
       /\ toMaster'[n] = Append(toMaster[n], p)
       /\ p.task_count = c - Cardinality(m_tasks[n])
       /\ Load(n)' = Load(n) \ {t}

Handles(n) ==
  /\ toMaster[n] # <<>> /\ toMaster'[n] = Tail(toMaster[n])
  /\ Gives(n, Head(toMaster[n]).task_count)

Sends(n) == toMaster'[n] = toMaster[n] /\ Gives(n, m_freeCores[n])

Accepts(n) ==
  toMaster[n] # <<>> /\ toMaster'[n] = toMaster[n] /\ m_freeCores'[n] = 0 /\ Load(n)' = Load(n)

LoadStep(n) ==
  Opens(n) \/ (conn[n] = "connected" /\ (Reports(n) \/ Handles(n) \/ Sends(n) \/ Accepts(n)))

\* Nothing of connection k changes, or only packets about no task are added.
LEMMA LoadRests ==
  ASSUME TypeOK, NEW k \in Node, conn'[k] = "connected",
         conn[k] = "connected", toMaster'[k] = toMaster[k], m_tasks'[k] = m_tasks[k],
         m_freeCores'[k] = m_freeCores[k],
         \A t \in Tasks : Mentions(toSlave'[k], t) <=> Mentions(toSlave[k], t)
  PROVE  LoadStep(k)
<1>1. Load(k)' = Load(k)
  BY DEF Load, OnWire
<1> QED
  BY <1>1 DEF LoadStep, Sends, Gives

LEMMA MainLoadStep ==
  ASSUME TypeOK, NEW k \in Node, Main, conn'[k] = "connected"
  PROVE  LoadStep(k)
<1> USE DEF Main, MainNext, sendBroadcast, CheckClients, ScanTask, EndOfPass, CloseAllClients,
            closeAllClients, BroadcastFails, CloseAfterFailure, CloseServer, ServerClosed, clientVars,
            netVars, serverVars
<1>1. UNCHANGED <<toMaster, m_tasks, m_freeCores>>
  OBVIOUS
<1>2. CASE CloseAfterFailure \/ CloseServer
  <2>1. Cut({n \in Node : conn[n] = "connected"})
    BY <1>2
  <2>2. conn[k] = "connected" => conn'[k] = "closed"
    BY <2>1 DEF Cut
  <2>3. conn[k] # "connected" => conn'[k] = conn[k]
    BY <2>1 DEF Cut
  <2> QED
    BY <2>2, <2>3
<1>3. CASE CloseAllClients
  <2>1. UNCHANGED conn /\ toSlave' = SentToSlaves(m_clients, ClosePacket)
    BY <1>3
  <2>2. toSlave'[k] = toSlave[k] \/ toSlave'[k] = Append(toSlave[k], ClosePacket)
    BY <2>1 DEF SentToSlaves
  <2>3. toSlave[k] \in Seq(MasterPacket) /\ ClosePacket \in MasterPacket /\ ClosePacket.id = NoId
    BY PacketTypes DEF TypeOK, NetTypeOK, ClosePacket
  <2>4. \A t : Mentions(Append(toSlave[k], ClosePacket), t) <=> Mentions(toSlave[k], t) \/ t = NoId
    BY <2>3, AppendQueue
  <2>5. \A t \in Tasks : Mentions(toSlave'[k], t) <=> Mentions(toSlave[k], t)
    BY <2>2, <2>4, TasksAreNaturals
  <2> QED
    BY <1>1, <2>1, <2>5, LoadRests
<1>4. CASE UNCHANGED <<conn, toSlave>>
  <2>1. conn[k] = "connected" /\ toSlave'[k] = toSlave[k]
    BY <1>4
  <2> HIDE DEF MainNext, Main
  <2> QED
    BY <1>1, <2>1, LoadRests
<1> QED
  BY <1>2, <1>3, <1>4

\* What sendTasksToSlave does to a client whose connection is up.
LEMMA SendGives ==
  ASSUME TypeOK, LinkInv, NEW n \in Node, NEW credit \in Int, NEW t \in Tasks \cup {NoId},
         sendTasksToSlave(n, credit, t), conn[n] = "connected", UNCHANGED m_tasks
  PROVE  Gives(n, credit)
<1>1. \A u \in Tasks : Mentions(toSlave'[n], u) <=> Mentions(toSlave[n], u) \/ u = t
  BY SendTasksQueues
<1>2. m_freeCores'[n] = IF t = NoId THEN credit ELSE credit - 1
  BY DEF sendTasksToSlave, TypeOK, ServerTypeOK
<1>3. CASE t = NoId
  <2>1. Load(n)' = Load(n)
    BY <1>1, <1>3, TasksAreNaturals DEF Load, OnWire
  <2> QED
    BY <1>2, <1>3, <2>1 DEF Gives
<1>4. CASE t \in Tasks
  <2>1. credit > 0 /\ m_freeCores'[n] = credit - 1
    BY <1>2, <1>4, TasksAreNaturals DEF sendTasksToSlave, Picks
  <2>2. Elsewhere(n, t)
    BY <1>4, PickedIsFree, NodeHost DEF LinkInv, LinkTasks
  <2>3. t \in Tasks \ Load(n)
    BY <1>4, <2>2 DEF Elsewhere, Load
  <2>4. Load(n)' = Load(n) \cup {t}
    BY <1>1, <1>4 DEF Load, OnWire
  <2> QED
    BY <2>1, <2>3, <2>4 DEF Gives
<1> QED
  BY <1>3, <1>4

LEMMA ServerLoadStep ==
  ASSUME TypeOK, LinkInv, NEW k \in Node, NEW n \in Node, Server(n), conn'[k] = "connected"
  PROVE  LoadStep(k)
<1>1. UNCHANGED <<conn, m_tasks>> /\ conn[k] = "connected"
  BY DEF Server, ServerNext, newClient, Server_onRecvFromNode, Server_doWork,
         onClientDisconnected, clientVars, netVars
<1>2. CASE newClient(n)
  <2>1. UNCHANGED <<toMaster, toSlave>> /\ m_freeCores' = [m_freeCores EXCEPT ![n] = 0]
        /\ toMaster[n] # <<>>
    BY <1>2 DEF newClient, netVars
  <2>2. Load(k)' = Load(k)
    BY <1>1, <2>1 DEF Load, OnWire
  <2>3. CASE k = n
    BY <1>1, <2>1, <2>2, <2>3 DEF LoadStep, Accepts, TypeOK, ServerTypeOK
  <2>4. CASE k # n
    BY <1>1, <2>1, <2>4, LoadRests DEF TypeOK, ServerTypeOK
  <2> QED
    BY <2>3, <2>4
<1>3. ASSUME NEW credit, NEW t \in Tasks \cup {NoId}, sendTasksToSlave(n, credit, t), k # n,
             toMaster'[k] = toMaster[k]
      PROVE  LoadStep(k)
  <2>1. toSlave'[k] = toSlave[k]
    BY <1>3, SendTasksQueues
  <2>2. m_freeCores'[k] = m_freeCores[k]
    BY <1>3 DEF sendTasksToSlave, TypeOK, ServerTypeOK
  <2> QED
    BY <1>1, <1>3, <2>1, <2>2, LoadRests
<1>4. CASE Server_onRecvFromNode(n)
  <2>1. PICK t \in Tasks \cup {NoId} : sendTasksToSlave(n, Head(toMaster[n]).task_count, t)
    BY <1>4 DEF Server_onRecvFromNode
  <2>2. toMaster[n] # <<>> /\ toMaster' = [toMaster EXCEPT ![n] = Tail(@)]
    BY <1>4 DEF Server_onRecvFromNode
  <2>3. CASE k = n
    <3>1. Head(toMaster[n]).task_count \in Int
      BY <2>2, TakeFromMasterQueue DEF TypeOK, SlavePacket
    <3>2. Gives(n, Head(toMaster[n]).task_count)
      BY <1>1, <2>1, <2>3, <3>1, SendGives
    <3>3. toMaster'[n] = Tail(toMaster[n])
      BY <2>2 DEF TypeOK, NetTypeOK
    <3> QED
      BY <1>1, <2>2, <2>3, <3>2, <3>3 DEF LoadStep, Handles
  <2>4. CASE k # n
    BY <1>3, <2>1, <2>2, <2>4 DEF TypeOK, NetTypeOK
  <2> QED
    BY <2>3, <2>4
<1>5. CASE Server_doWork(n)
  <2>1. PICK t \in Tasks : sendTasksToSlave(n, m_freeCores[n], t)
    BY <1>5 DEF Server_doWork
  <2>2. UNCHANGED toMaster
    BY <1>5 DEF Server_doWork
  <2>3. CASE k = n
    <3>1. m_freeCores[n] \in Int
      BY DEF TypeOK, ServerTypeOK
    <3>2. Gives(n, m_freeCores[n])
      BY <1>1, <2>1, <2>3, <3>1, SendGives
    <3> QED
      BY <1>1, <2>2, <2>3, <3>2 DEF LoadStep, Sends
  <2>4. CASE k # n
    BY <1>3, <2>1, <2>2, <2>4
  <2> QED
    BY <2>3, <2>4
<1>6. CASE onClientDisconnected(n)
  <2>1. conn[n] = "closed" /\ toMaster' = [toMaster EXCEPT ![n] = <<>>]
        /\ UNCHANGED <<m_freeCores, toSlave>>
    BY <1>6 DEF onClientDisconnected
  <2>2. k # n /\ toMaster'[k] = toMaster[k]
    BY <1>1, <2>1 DEF TypeOK, NetTypeOK
  <2> QED
    BY <1>1, <2>1, <2>2, LoadRests
<1> QED
  BY <1>2, <1>4, <1>5, <1>6 DEF Server, ServerNext

LEMMA SessionLoadStep ==
  ASSUME TypeOK, LinkInv, NEW k \in Node, NEW n \in Node, Session(n), conn'[k] = "connected"
  PROVE  LoadStep(k)
<1> USE DEF Session, serverVars
<1>1. UNCHANGED m_freeCores
  OBVIOUS
<1>2. CASE onConnect(n)
  <2>1. PICK c \in FreeCores : toMaster' = [toMaster EXCEPT ![n] = Append(@, InfoPacket(c))]
    BY <1>2 DEF onConnect
  <2>2. /\ conn[n] = "connecting" /\ conn' = [conn EXCEPT ![n] = "connected"]
        /\ UNCHANGED <<toSlave, m_tasks>>
    BY <1>2 DEF onConnect, clientVars
  <2>3. CASE k = n
    <3>1. toMaster[n] = <<>> /\ toSlave[n] = <<>> /\ m_tasks[n] = {}
      BY <2>2 DEF LinkInv, LinkPhase
    <3>2. toMaster'[n] = <<InfoPacket(c)>>
      BY <2>1, <3>1 DEF TypeOK, NetTypeOK
    <3>3. Load(n)' = {}
      BY <2>2, <3>1, EmptyQueue DEF Load, OnWire
    <3> QED
      BY <1>1, <2>2, <2>3, <3>2, <3>3 DEF LoadStep, Opens
  <2>4. CASE k # n
    BY <1>1, <2>1, <2>2, <2>4, LoadRests DEF TypeOK, NetTypeOK
  <2> QED
    BY <2>3, <2>4
<1>3. CASE ConnectFails(n)
  BY <1>1, <1>3, LoadRests DEF ConnectFails, Cut, clientVars
<1>4. CASE Client_onRecvFromNode(n)
  <2>1. /\ conn[n] = "connected" /\ toSlave[n] # <<>> /\ UNCHANGED toMaster
        /\ \/ /\ Head(toSlave[n]).id # NoId /\ runTaskProcess(n, Head(toSlave[n]).id)
              /\ toSlave' = [toSlave EXCEPT ![n] = Tail(@)] /\ UNCHANGED conn
           \/ Cut({n}) /\ UNCHANGED m_tasks
    BY <1>4 DEF Client_onRecvFromNode, RefuseTask, clientVars
  <2>2. CASE Cut({n}) /\ UNCHANGED m_tasks
    BY <1>1, <2>1, <2>2, LoadRests DEF Cut
  <2>3. CASE /\ Head(toSlave[n]).id # NoId /\ runTaskProcess(n, Head(toSlave[n]).id)
             /\ toSlave' = [toSlave EXCEPT ![n] = Tail(@)] /\ UNCHANGED conn
    <3>1. PICK t \in Tasks : /\ t = Head(toSlave[n]).id /\ OnWire(n, t)
                             /\ m_tasks' = [m_tasks EXCEPT ![n] = @ \cup {t}]
      BY <2>1, <2>3, RunStartsProcess
    <3>2. CASE k = n
      <4>1. /\ toSlave[n] \in Seq(MasterPacket) /\ toSlave'[n] = Tail(toSlave[n])
            /\ m_tasks'[n] = m_tasks[n] \cup {t}
        BY <2>3, <3>1 DEF TypeOK, NetTypeOK, ClientTypeOK
      <4>2. \A u \in Tasks : /\ Mentions(toSlave'[n], u) => Mentions(toSlave[n], u)
                             /\ Mentions(toSlave[n], u) => Mentions(toSlave'[n], u) \/ u = t
        BY <2>1, <3>1, <4>1, TailQueue
      <4>3. Load(n)' = Load(n)
        BY <3>1, <4>1, <4>2 DEF Load, OnWire
      <4> QED
        BY <1>1, <2>1, <3>2, <4>3 DEF LoadStep, Sends, Gives
    <3>3. CASE k # n
      BY <1>1, <2>1, <2>3, <3>1, <3>3, LoadRests DEF TypeOK, NetTypeOK, ClientTypeOK
    <3> QED
      BY <3>2, <3>3
  <2> QED
    BY <2>1, <2>2, <2>3
<1>5. ASSUME NEW t \in Tasks, Client_doWork(n, t) PROVE LoadStep(k)
  <2>1. PICK c \in FreeCores :
          toMaster' = [toMaster EXCEPT ![n] =
                         Append(@, ResultPacket(ReportedCores(n, c), t, process[n][t]))]
    BY <1>5 DEF Client_doWork
  <2>2. conn[n] = "connected" /\ t \in m_tasks[n]
    BY <1>5 DEF Client_doWork
  <2>3. \A j \in Node : j # n => toMaster'[j] = toMaster[j]
    BY <2>1 DEF TypeOK, NetTypeOK
  <2>4. CASE Cut({n}) /\ UNCHANGED m_tasks
    BY <1>1, <2>3, <2>4, LoadRests DEF Cut
  <2>5. CASE /\ m_tasks' = [m_tasks EXCEPT ![n] = Erased(n, t)]
             /\ UNCHANGED <<conn, toSlave>>
    <3>1. CASE k = n
      <4> DEFINE p == ResultPacket(ReportedCores(n, c), t, process[n][t])
      <4>1. p \in SlavePacket /\ p.task_count = c - Cardinality(m_tasks[n])
        BY ReportPacket
      <4>2. toMaster'[n] = Append(toMaster[n], p)
        BY <2>1 DEF TypeOK, NetTypeOK
      <4> HIDE DEF p
      <4>3. ~OnWire(n, t)
        BY <2>2 DEF LinkInv, LinkTasks, InOnePlace, Elsewhere
      <4>4. m_tasks'[n] = m_tasks[n] \ {t}
        BY <2>5 DEF Erased, TypeOK, ClientTypeOK
      <4>5. Load(n)' = Load(n) \ {t}
        BY <2>5, <4>3, <4>4 DEF Load, OnWire
      <4>6. Reports(n)
        BY <1>1, <2>2, <4>1, <4>2, <4>5 DEF Reports
      <4> QED
        BY <2>2, <3>1, <4>6 DEF LoadStep
    <3>2. CASE k # n
      BY <1>1, <2>3, <2>5, <3>2, LoadRests DEF TypeOK, ClientTypeOK
    <3> QED
      BY <3>1, <3>2
  <2> QED
    BY <1>5, <2>4, <2>5 DEF Client_doWork
<1> QED
  BY <1>2, <1>3, <1>4, <1>5

LEMMA UdpLoadStep ==
  ASSUME TypeOK, NEW k \in Node, NEW d \in Daemons, Udp(d), conn'[k] = "connected"
  PROVE  LoadStep(k)
<1>1. UNCHANGED <<toMaster, toSlave, m_freeCores>>
  BY DEF Udp, UdpNext, DropInvitation, AcceptInvitation, Udp_doWork, SessionStarted, SessionOver,
         netVars, serverVars
<1>2. conn[k] = "connected"
  BY DEF Udp, UdpNext, DropInvitation, AcceptInvitation, Udp_doWork, SessionStarted, SessionOver,
         netVars, TypeOK, NetTypeOK
<1>3. CASE SessionOver(d)
  <2>1. conn[m_client[d]] = "closed" /\ m_tasks' = [m_tasks EXCEPT ![m_client[d]] = {}]
    BY <1>3 DEF SessionOver, IsOver
  <2>2. m_tasks'[k] = m_tasks[k]
    BY <1>2, <2>1 DEF TypeOK, ClientTypeOK
  <2> QED
    BY <1>1, <1>2, <2>2, LoadRests
<1>4. CASE UNCHANGED m_tasks
  BY <1>1, <1>2, <1>4, LoadRests
<1> QED
  BY <1>3, <1>4 DEF Udp, UdpNext, DropInvitation, AcceptInvitation, Udp_doWork, SessionStarted,
                    clientVars

\* Every step of the farm, seen from a connection that is up after it.
LEMMA NextLoadStep ==
  ASSUME TypeOK, LinkInv, [Next]_vars, NEW k \in Node, conn'[k] = "connected"
  PROVE  LoadStep(k)
<1>1. ASSUME NEW n \in Node, Network(n) PROVE LoadStep(k)
  <2>1. Cut({n}) /\ UNCHANGED <<toMaster, m_tasks, m_freeCores>>
    BY <1>1 DEF Network, ConnectionBreaks, ConnectFails, serverVars, clientVars
  <2> QED
    BY <2>1, LoadRests DEF Cut
<1>2. ASSUME NEW n \in Node, NEW t \in Tasks, Process(n, t) PROVE LoadStep(k)
  BY <1>2, LoadRests DEF Process, ProcessExits, netVars, serverVars
<1>3. CASE UNCHANGED vars
  BY <1>3, LoadRests DEF vars, netVars, serverVars, clientVars
<1> QED
  BY <1>1, <1>2, <1>3, MainLoadStep, ServerLoadStep, SessionLoadStep, UdpLoadStep
     DEF Next, Terminated

\* The packet at the end of a queue, and the length of the queue.
LEMMA EndOfQueue ==
  ASSUME NEW S, NEW queue \in Seq(S)
  PROVE  /\ Len(queue) \in Nat
         /\ \A p \in S : /\ Append(queue, p) # <<>> /\ Len(Append(queue, p)) = Len(queue) + 1
                         /\ Append(queue, p)[Len(queue) + 1] = p
                         /\ \A i \in DOMAIN Append(queue, p) :
                              \/ i \in DOMAIN queue /\ Append(queue, p)[i] = queue[i]
                              \/ Append(queue, p)[i] = p
         /\ queue # <<>> =>
              /\ Len(Tail(queue)) = Len(queue) - 1 /\ Len(queue) > 0
              /\ 1 \in DOMAIN queue /\ Head(queue) = queue[1]
              /\ Tail(queue) = <<>> => Head(queue) = queue[Len(queue)]
              /\ Tail(queue) # <<>> => Tail(queue)[Len(queue) - 1] = queue[Len(queue)]
              /\ \A i \in DOMAIN Tail(queue) :
                   i + 1 \in DOMAIN queue /\ Tail(queue)[i] = queue[i + 1]
<1>1. Len(queue) \in Nat /\ DOMAIN queue = 1 .. Len(queue)
  BY LenProperties
<1>2. ASSUME NEW p \in S
      PROVE  /\ Append(queue, p) # <<>> /\ Len(Append(queue, p)) = Len(queue) + 1
             /\ Append(queue, p)[Len(queue) + 1] = p
             /\ \A i \in DOMAIN Append(queue, p) :
                  \/ i \in DOMAIN queue /\ Append(queue, p)[i] = queue[i]
                  \/ Append(queue, p)[i] = p
  <2>1. /\ Append(queue, p) \in Seq(S) /\ Append(queue, p) # <<>>
        /\ Len(Append(queue, p)) = Len(queue) + 1
        /\ \A i \in 1 .. Len(queue) : Append(queue, p)[i] = queue[i]
        /\ Append(queue, p)[Len(queue) + 1] = p
    BY AppendProperties
  <2>2. DOMAIN Append(queue, p) = 1 .. (Len(queue) + 1)
    BY <2>1, LenProperties
  <2> QED
    BY <1>1, <2>1, <2>2
<1>3. ASSUME queue # <<>>
      PROVE  /\ Len(Tail(queue)) = Len(queue) - 1 /\ Len(queue) > 0
             /\ 1 \in DOMAIN queue /\ Head(queue) = queue[1]
             /\ Tail(queue) = <<>> => Head(queue) = queue[Len(queue)]
             /\ Tail(queue) # <<>> => Tail(queue)[Len(queue) - 1] = queue[Len(queue)]
             /\ \A i \in DOMAIN Tail(queue) :
                  i + 1 \in DOMAIN queue /\ Tail(queue)[i] = queue[i + 1]
  <2>1. /\ Head(queue) = queue[1] /\ Tail(queue) \in Seq(S)
        /\ Len(Tail(queue)) = Len(queue) - 1
        /\ \A i \in 1 .. Len(Tail(queue)) : Tail(queue)[i] = queue[i + 1]
    BY <1>3, HeadTailProperties
  <2>2. Len(queue) > 0
    BY <1>1, <1>3, EmptySeq
  <2>3. DOMAIN Tail(queue) = 1 .. (Len(queue) - 1)
    BY <2>1, LenProperties
  <2>4. Tail(queue) = <<>> => Len(queue) = 1
    <3>1. Tail(queue) = <<>> => Len(Tail(queue)) = 0
      BY <2>1
    <3> QED
      BY <1>1, <2>1, <3>1
  <2>5. Tail(queue) # <<>> => Len(queue) - 1 \in 1 .. Len(Tail(queue))
    BY <1>1, <2>1, <2>2, EmptySeq
  <2> QED
    BY <1>1, <2>1, <2>2, <2>3, <2>4, <2>5
<1> QED
  BY <1>1, <1>2, <1>3

(***************************************************************************)
(* A connected daemon without load has credit: the last packet on its way  *)
(* to the console offers a core, and when there is none the console has    *)
(* kept one.  Packets before the last do not matter, each sets the credit  *)
(* anew.                                                                   *)
(***************************************************************************)
HasCredit(n) ==
  IF toMaster[n] = <<>> THEN m_freeCores[n] > 0
                        ELSE toMaster[n][Len(toMaster[n])].task_count > 0

CreditInv ==
  \A n \in Node : conn[n] = "connected" => Load(n) # {} \/ HasCredit(n)

LEMMA LoadKeepsCredit ==
  ASSUME \A c \in FreeCores : c >= 2, TypeOK, CreditInv, NEW n \in Node, LoadStep(n)
  PROVE  Load(n)' # {} \/ HasCredit(n)'
<1> SUFFICES ASSUME Load(n)' = {} PROVE HasCredit(n)'
  OBVIOUS
<1>0. toMaster[n] \in Seq(SlavePacket) /\ m_freeCores[n] \in Int /\ FreeCores \subseteq Int
  BY ConstantsAssumption DEF TypeOK, NetTypeOK, ServerTypeOK
<1>1. CASE Opens(n)
  <2>1. PICK c \in FreeCores : toMaster'[n] = <<InfoPacket(c)>>
    BY <1>1 DEF Opens
  <2>2. toMaster'[n] # <<>> /\ Len(toMaster'[n]) = 1 /\ toMaster'[n][1].task_count = c
    BY <2>1 DEF InfoPacket
  <2>3. c > 0
    BY <1>0
  <2> QED
    BY <2>2, <2>3 DEF HasCredit
<1>2. CASE conn[n] = "connected" /\ Reports(n)
  <2>1. PICK t \in m_tasks[n], c \in FreeCores, p \in SlavePacket :
          /\ toMaster'[n] = Append(toMaster[n], p)
          /\ p.task_count = c - Cardinality(m_tasks[n])
          /\ Load(n)' = Load(n) \ {t}
    BY <1>2 DEF Reports
  <2>2. m_tasks[n] = {t}
    BY <2>1 DEF Load
  <2>3. Cardinality(m_tasks[n]) = 1
    BY <2>2, FS_Singleton
  <2>4. p.task_count > 0
    BY <1>0, <2>1, <2>3
  <2>5. /\ toMaster'[n] # <<>> /\ Len(toMaster'[n]) = Len(toMaster[n]) + 1
        /\ toMaster'[n][Len(toMaster[n]) + 1] = p
    BY <1>0, <2>1, EndOfQueue
  <2> QED
    BY <2>4, <2>5 DEF HasCredit
<1>3. CASE conn[n] = "connected" /\ Handles(n)
  <2>1. /\ toMaster[n] # <<>> /\ toMaster'[n] = Tail(toMaster[n])
        /\ Load(n) = {} /\ m_freeCores'[n] = Head(toMaster[n]).task_count
    BY <1>3 DEF Handles, Gives
  <2>2. toMaster[n][Len(toMaster[n])].task_count > 0
    BY <1>3, <2>1 DEF CreditInv, HasCredit
  <2>3. /\ toMaster'[n] = <<>> => Head(toMaster[n]) = toMaster[n][Len(toMaster[n])]
        /\ toMaster'[n] # <<>> =>
             toMaster'[n][Len(toMaster'[n])] = toMaster[n][Len(toMaster[n])]
    BY <1>0, <2>1, EndOfQueue
  <2> QED
    BY <2>1, <2>2, <2>3 DEF HasCredit
<1>4. CASE conn[n] = "connected" /\ (Sends(n) \/ Accepts(n))
  BY <1>4 DEF Sends, Gives, Accepts, CreditInv, HasCredit
<1> QED
  BY <1>1, <1>2, <1>3, <1>4 DEF LoadStep

\* A daemon that is connected and has nothing to do can be given work, whatever
\* the order of its reports and of the console's answers: with two cores or more
\* the last report of an idle daemon offers at least one.
THEOREM IdleClientHasCreditHolds ==
  ASSUME \A c \in FreeCores : c >= 2
  PROVE  Spec => []IdleClientHasCredit
<1>1. Init => CreditInv
  BY DEF Init, NetInit, CreditInv
<1>2. TypeOK /\ LinkInv /\ CreditInv /\ [Next]_vars => CreditInv'
  <2> SUFFICES ASSUME TypeOK, LinkInv, CreditInv, [Next]_vars, NEW n \in Node,
                      conn'[n] = "connected"
               PROVE  Load(n)' # {} \/ HasCredit(n)'
    BY DEF CreditInv
  <2> QED
    BY NextLoadStep, LoadKeepsCredit
<1>3. CreditInv => IdleClientHasCredit
  BY DEF CreditInv, HasCredit, Load, IdleClientHasCredit, m_clients
<1> QED
  BY <1>1, <1>2, <1>3, TypeCorrect, LinkInvariant, PTL DEF Spec
==============================================================================
