-------------------------- MODULE BuildFarmProofs --------------------------
(***************************************************************************)
(* Theorems about BuildFarm, for every number of tasks, daemons and        *)
(* sessions, every configuration and every choice of unreliable daemons.   *)
(***************************************************************************)
EXTENDS BuildFarm, SequenceTheorems, FiniteSetTheorems, TLAPS

-----------------------------------------------------------------------------
(***************************************************************************)
(* Lemmas about packets and queues.                                        *)
(***************************************************************************)

\* The task ids do not include NoId.
LEMMA TasksAreNaturals ==
  Tasks \subseteq Nat /\ NoId \notin Tasks
BY ConstantsAssumption DEF Tasks, NoId

\* The packets that the handlers build are packets of the protocol.
LEMMA PacketTypes ==
  /\ \A c \in Int : InfoPacket(c) \in SlavePacket
  /\ \A c \in Int, t \in Tasks, p \in ProcessState : ResultPacket(c, t, p) \in SlavePacket
  /\ \A t \in Tasks : TaskPacket(t) \in MasterPacket
  /\ ClosePacket \in MasterPacket
BY DEF InfoPacket, ResultPacket, TaskPacket, ClosePacket, SlavePacket, MasterPacket,
       ProcessState, ExitCodeResult, NoId

\* The outcomes of starting and of ending a process are process states.
LEMMA ProcessTypes ==
  /\ {NoProcess, FailedStart, Running} \subseteq ProcessState
  /\ \A code \in ExitCodes : ExitedWith(code) \in ProcessState
BY ConstantsAssumption DEF NoProcess, FailedStart, Running, ExitedWith, ProcessState, ExitCodeResult

\* Closing connections and sending to daemons keep the network's types.
LEMMA CutType ==
  ASSUME NetTypeOK, NEW ns, Cut(ns)
  PROVE  conn' \in [Node -> ConnState] /\ toSlave' \in [Node -> Seq(MasterPacket)]
BY DEF NetTypeOK, Cut, ConnState

LEMMA SentType ==
  ASSUME NetTypeOK, NEW ns, NEW p \in MasterPacket
  PROVE  SentToSlaves(ns, p) \in [Node -> Seq(MasterPacket)]
BY DEF NetTypeOK, SentToSlaves

\* Taking the first packet off a queue to the console, and to a daemon.
LEMMA TakeFromMasterQueue ==
  ASSUME NetTypeOK, NEW n \in Node, toMaster[n] # <<>>
  PROVE  /\ Head(toMaster[n]) \in SlavePacket
         /\ [toMaster EXCEPT ![n] = Tail(@)] \in [Node -> Seq(SlavePacket)]
<1>1. toMaster[n] \in Seq(SlavePacket)
  BY DEF NetTypeOK
<1>2. Head(toMaster[n]) \in SlavePacket /\ Tail(toMaster[n]) \in Seq(SlavePacket)
  BY <1>1, HeadTailProperties
<1> QED
  BY <1>2 DEF NetTypeOK

LEMMA TakeFromSlaveQueue ==
  ASSUME NetTypeOK, NEW n \in Node, toSlave[n] # <<>>
  PROVE  /\ Head(toSlave[n]) \in MasterPacket
         /\ [toSlave EXCEPT ![n] = Tail(@)] \in [Node -> Seq(MasterPacket)]
<1>1. toSlave[n] \in Seq(MasterPacket)
  BY DEF NetTypeOK
<1>2. Head(toSlave[n]) \in MasterPacket /\ Tail(toSlave[n]) \in Seq(MasterPacket)
  BY <1>1, HeadTailProperties
<1> QED
  BY <1>2 DEF NetTypeOK

\* A packet appended to a queue to the console.
LEMMA AppendType ==
  ASSUME NetTypeOK, NEW n \in Node, NEW p \in SlavePacket
  PROVE  [toMaster EXCEPT ![n] = Append(@, p)] \in [Node -> Seq(SlavePacket)]
BY DEF NetTypeOK

-----------------------------------------------------------------------------
(***************************************************************************)
(* Type correctness.  That idle stays within 0 .. WaitPasses needs the     *)
(* fact that a pass only begins before the timer has expired.              *)
(***************************************************************************)
TypeInv == TypeOK /\ (mainPc = "scan" => idle < WaitPasses)

LEMMA MainKeepsTypes ==
  ASSUME TypeInv, Main
  PROVE  TypeInv'
<1> USE ConstantsAssumption, WaitAssumption
        DEF TypeInv, TypeOK, ServerTypeOK, MainTypeOK, MainPc, ClientTypeOK, UdpTypeOK,
            netVars, serverVars, mainVars, clientVars, udpVars, Main, TimerFinished
<1>1. CASE sendBroadcast
  BY <1>1 DEF sendBroadcast, NetTypeOK
<1>2. CASE BroadcastFails
  BY <1>2 DEF BroadcastFails, NetTypeOK
<1>3. CASE CheckClients
  <2>1. isFinished' \in BOOLEAN
    BY <1>3, Zenon DEF CheckClients
  <2>2. /\ mainPc' \in MainPc /\ cursor' \in 1 .. (NumTasks + 1) /\ idle' \in 0 .. WaitPasses
        /\ mainPc' = "scan" => idle' < WaitPasses
    <3>1. idle' \in 0 .. WaitPasses
      BY <1>3 DEF CheckClients
    <3>2. CASE TimerFinished(idle')
      BY <1>3, <3>1, <3>2 DEF CheckClients
    <3>3. CASE ~TimerFinished(idle')
      BY <1>3, <3>1, <3>3 DEF CheckClients
    <3> QED
      BY <3>2, <3>3
  <2> QED
    BY <1>3, <2>1, <2>2 DEF CheckClients, NetTypeOK
<1>4. ASSUME NEW t \in Tasks, ScanTask(t) PROVE TypeInv'
  <2>1. cursor' \in 1 .. (NumTasks + 1)
    BY <1>4 DEF ScanTask, Tasks
  <2>2. isFinished' \in BOOLEAN
    BY <1>4 DEF ScanTask, StillFinished
  <2>3. countError' \in Nat /\ countSuccess' \in Nat
    BY <1>4 DEF ScanTask
  <2>4. m_doneIp' \in [Tasks -> Node \cup {nullptr}]
    BY <1>4 DEF ScanTask
  <2> QED
    BY <1>4, <2>1, <2>2, <2>3, <2>4 DEF ScanTask, NetTypeOK
<1>5. CASE EndOfPass
  BY <1>5 DEF EndOfPass, NetTypeOK
<1>6. CASE CloseAllClients
  <2>1. toSlave' \in [Node -> Seq(MasterPacket)]
    BY <1>6, SentType, PacketTypes DEF CloseAllClients, closeAllClients
  <2> QED
    BY <1>6, <2>1 DEF CloseAllClients, closeAllClients, NetTypeOK
<1>7. CASE CloseServer
  BY <1>7, CutType DEF CloseServer, ServerClosed, NetTypeOK, ReturnCode
<1>8. CASE CloseAfterFailure
  BY <1>8, CutType DEF CloseAfterFailure, ServerClosed, NetTypeOK
<1> QED
  BY <1>1, <1>2, <1>3, <1>4, <1>5, <1>6, <1>7, <1>8 DEF MainNext

\* What a call of sendTasksToSlave leaves.
LEMMA SendTasksType ==
  ASSUME TypeOK, NEW n \in Node, NEW credit \in Int, NEW t \in Tasks \cup {NoId},
         sendTasksToSlave(n, credit, t)
  PROVE  /\ m_freeCores' \in [Node -> Int]
         /\ toSlave' \in [Node -> Seq(MasterPacket)]
         /\ Assigned(n, t) \in [Tasks -> Node \cup {nullptr}]
<1>1. toSlave' \in [Node -> Seq(MasterPacket)]
  <2>1. t # NoId => TaskPacket(t) \in MasterPacket
    BY PacketTypes
  <2> QED
    BY <2>1, SentType DEF sendTasksToSlave, TypeOK, NetTypeOK
<1>2. m_freeCores' \in [Node -> Int]
  BY DEF sendTasksToSlave, TypeOK, ServerTypeOK
<1>3. Assigned(n, t) \in [Tasks -> Node \cup {nullptr}]
  BY DEF Assigned, TypeOK, ServerTypeOK
<1> QED
  BY <1>1, <1>2, <1>3

LEMMA ServerKeepsTypes ==
  ASSUME TypeInv, NEW n \in Node, Server(n)
  PROVE  TypeInv'
<1> USE DEF TypeInv, TypeOK, ServerTypeOK, MainTypeOK, ClientTypeOK, UdpTypeOK,
            netVars, serverVars, mainVars, clientVars, udpVars, Server
<1>1. CASE newClient(n)
  BY <1>1 DEF newClient, NetTypeOK
<1>2. CASE Server_onRecvFromNode(n)
  <2> DEFINE packet == Head(toMaster[n])
  <2>1. PICK t \in Tasks \cup {NoId}, saved \in BOOLEAN :
          /\ sendTasksToSlave(n, packet.task_count, t)
          /\ applyResultFromSlave(n, packet, Assigned(n, t), saved)
    BY <1>2 DEF Server_onRecvFromNode
  <2>2. packet \in SlavePacket /\ toMaster' \in [Node -> Seq(SlavePacket)]
    BY <1>2, TakeFromMasterQueue DEF Server_onRecvFromNode
  <2>3. /\ packet.task_count \in Int
        /\ packet.id \in Tasks \cup {NoId}
        /\ packet.exit_code \in Int
        /\ packet.process_code \in ExitCodeResult
    BY <2>2 DEF SlavePacket
  <2> HIDE DEF packet
  <2>4. /\ m_freeCores' \in [Node -> Int]
        /\ toSlave' \in [Node -> Seq(MasterPacket)]
        /\ Assigned(n, t) \in [Tasks -> Node \cup {nullptr}]
    BY <2>1, <2>3, SendTasksType
  <2>5. /\ m_node' \in [Tasks -> Node \cup {nullptr}]
        /\ m_result' \in [Tasks -> ExitCodeResult]
        /\ m_exitCode' \in [Tasks -> Int]
        /\ m_doneIp' \in [Tasks -> Node \cup {nullptr}]
        /\ output' \in [Tasks -> BOOLEAN]
    <3>1. CASE Applies(n, packet, Assigned(n, t))
      <4>1. packet.id \in Tasks
        BY <3>1 DEF Applies
      <4>2. output' = [output EXCEPT ![packet.id] = @ \/ (Saves(packet) /\ saved)]
        BY <2>1, <3>1 DEF applyResultFromSlave
      <4>3. output' \in [Tasks -> BOOLEAN]
        BY <4>1, <4>2
      <4> QED
        <5>1. /\ m_node' = [Assigned(n, t) EXCEPT ![packet.id] = nullptr]
              /\ m_result' = [m_result EXCEPT ![packet.id] = packet.process_code]
              /\ m_exitCode' = [m_exitCode EXCEPT ![packet.id] =
                                  IF Saves(packet) /\ ~saved THEN SaveError ELSE packet.exit_code]
              /\ m_doneIp' = [m_doneIp EXCEPT ![packet.id] = n]
          BY <2>1, <3>1, Zenon DEF applyResultFromSlave
        <5>2. m_exitCode' \in [Tasks -> Int]
          BY <2>3, <4>1, <5>1 DEF SaveError
        <5> QED
          BY <2>3, <2>4, <4>1, <4>3, <5>1, <5>2
    <3>2. CASE ~Applies(n, packet, Assigned(n, t))
      BY <2>1, <2>4, <3>2 DEF applyResultFromSlave
    <3> QED
      BY <3>1, <3>2
  <2> QED
    BY <1>2, <2>2, <2>4, <2>5 DEF Server_onRecvFromNode, NetTypeOK
<1>3. CASE Server_doWork(n)
  <2>1. PICK t \in Tasks :
          sendTasksToSlave(n, m_freeCores[n], t) /\ m_node' = Assigned(n, t)
    BY <1>3 DEF Server_doWork
  <2>2. /\ m_freeCores' \in [Node -> Int]
        /\ toSlave' \in [Node -> Seq(MasterPacket)]
        /\ m_node' \in [Tasks -> Node \cup {nullptr}]
    BY <2>1, SendTasksType
  <2> QED
    BY <1>3, <2>2 DEF Server_doWork, NetTypeOK
<1>4. CASE onClientDisconnected(n)
  BY <1>4 DEF onClientDisconnected, Freed, NetTypeOK
<1> QED
  BY <1>1, <1>2, <1>3, <1>4 DEF ServerNext

LEMMA SessionKeepsTypes ==
  ASSUME TypeInv, NEW n \in Node, Session(n)
  PROVE  TypeInv'
<1> USE DEF TypeInv, TypeOK, ServerTypeOK, MainTypeOK, ClientTypeOK, UdpTypeOK,
            netVars, serverVars, mainVars, clientVars, udpVars, Session
<1>1. CASE onConnect(n)
  <2>1. PICK c \in FreeCores : toMaster' = [toMaster EXCEPT ![n] = Append(@, InfoPacket(c))]
    BY <1>1 DEF onConnect
  <2>2. toMaster' \in [Node -> Seq(SlavePacket)]
    BY <2>1, PacketTypes, AppendType, ConstantsAssumption
  <2> QED
    BY <1>1, <2>2 DEF onConnect, NetTypeOK, ConnState
<1>2. CASE ConnectFails(n)
  BY <1>2, CutType DEF ConnectFails, NetTypeOK
<1>3. CASE Client_onRecvFromNode(n)
  <2> DEFINE packet == Head(toSlave[n])
  <2>1. packet \in MasterPacket /\ [toSlave EXCEPT ![n] = Tail(@)] \in [Node -> Seq(MasterPacket)]
    BY <1>3, TakeFromSlaveQueue DEF Client_onRecvFromNode
  <2>2. packet.id \in Tasks \cup {NoId}
    BY <2>1 DEF MasterPacket
  <2>3. \/ /\ packet.id # NoId /\ runTaskProcess(n, packet.id)
           /\ toSlave' = [toSlave EXCEPT ![n] = Tail(@)]
           /\ UNCHANGED conn
        \/ Cut({n}) /\ UNCHANGED clientVars
    BY <1>3 DEF Client_onRecvFromNode, RefuseTask
  <2> HIDE DEF packet
  <2>4. ASSUME packet.id # NoId, runTaskProcess(n, packet.id)
        PROVE  m_tasks' \in [Node -> SUBSET Tasks] /\ process' \in [Node -> [Tasks -> ProcessState]]
    BY <2>2, <2>4, ProcessTypes DEF runTaskProcess
  <2> QED
    BY <1>3, <2>1, <2>3, <2>4, CutType DEF Client_onRecvFromNode, NetTypeOK
<1>4. ASSUME NEW t \in Tasks, Client_doWork(n, t)
      PROVE  TypeInv'
  <2>1. PICK c \in FreeCores :
          toMaster' = [toMaster EXCEPT ![n] =
                         Append(@, ResultPacket(ReportedCores(n, c), t, process[n][t]))]
    BY <1>4 DEF Client_doWork
  <2>2. ReportedCores(n, c) \in Int
    <3>1. IsFiniteSet(m_tasks[n])
      <4>1. IsFiniteSet(Tasks)
        BY FS_Interval, ConstantsAssumption DEF Tasks
      <4>2. m_tasks[n] \subseteq Tasks
        OBVIOUS
      <4> QED
        BY <4>1, <4>2, FS_Subset
    <3> QED
      BY <3>1, FS_CardinalityType, ConstantsAssumption DEF ReportedCores
  <2>3. toMaster' \in [Node -> Seq(SlavePacket)]
    BY <2>1, <2>2, PacketTypes, AppendType
  <2> QED
    <3>1. /\ conn' \in [Node -> ConnState]
          /\ toSlave' \in [Node -> Seq(MasterPacket)]
          /\ m_tasks' \in [Node -> SUBSET Tasks]
      <4>1. CASE Cut({n}) /\ UNCHANGED m_tasks
        BY <4>1, CutType
      <4>2. CASE /\ m_tasks' = [m_tasks EXCEPT ![n] = Erased(n, t)]
                 /\ UNCHANGED <<conn, toSlave>>
        BY <4>2 DEF Erased, NetTypeOK
      <4> QED
        BY <1>4, <4>1, <4>2 DEF Client_doWork
    <3> QED
      BY <1>4, <2>3, <3>1 DEF Client_doWork, NetTypeOK
<1> QED
  BY <1>1, <1>2, <1>3, <1>4

LEMMA UdpKeepsTypes ==
  ASSUME TypeInv, NEW d \in Daemons, Udp(d)
  PROVE  TypeInv'
<1> USE DEF TypeInv, TypeOK, NetTypeOK, ServerTypeOK, MainTypeOK, ClientTypeOK, UdpTypeOK,
            netVars, serverVars, mainVars, clientVars, udpVars, Udp
<1>1. CASE DropInvitation(d)
  BY <1>1, ConstantsAssumption DEF DropInvitation
<1>2. CASE AcceptInvitation(d)
  BY <1>2, ConstantsAssumption DEF AcceptInvitation, ConnState
<1>3. CASE SessionStarted(d)
  BY <1>3 DEF SessionStarted
<1>4. CASE SessionOver(d)
  BY <1>4 DEF SessionOver
<1> QED
  BY <1>1, <1>2, <1>3, <1>4 DEF UdpNext, Udp_doWork

\* The variables always hold values of their types (and idle, the passes
\* without a client that main has counted, never exceeds WaitPasses).
THEOREM TypeCorrect == Spec => []TypeOK
<1>1. Init => TypeInv
  <2> SUFFICES ASSUME Init PROVE TypeInv
    OBVIOUS
  <2>1. NetTypeOK
    BY ConstantsAssumption, EmptySeq DEF Init, NetInit, NetTypeOK, ConnState
  <2>2. ServerTypeOK
    BY DEF Init, ServerInit, ServerTypeOK, ExitCodeResult
  <2>3. MainTypeOK /\ mainPc # "scan"
    <3>1. isFinished \in BOOLEAN
      BY Zenon DEF Init, MainInit
    <3>2. cursor \in 1 .. (NumTasks + 1) /\ idle \in 0 .. WaitPasses
      BY ConstantsAssumption, WaitAssumption DEF Init, MainInit
    <3> QED
      BY <3>1, <3>2 DEF Init, MainInit, MainTypeOK, MainPc
  <2>4. ClientTypeOK
    BY ProcessTypes DEF Init, ClientInit, ClientTypeOK
  <2>5. UdpTypeOK
    BY DEF Init, UdpInit, UdpTypeOK
  <2> QED
    BY <2>1, <2>2, <2>3, <2>4, <2>5 DEF TypeInv, TypeOK
<1>2. TypeInv /\ [Next]_vars => TypeInv'
  <2> SUFFICES ASSUME TypeInv, [Next]_vars PROVE TypeInv'
    OBVIOUS
  <2>1. ASSUME NEW n \in Node, NEW t \in Tasks, Process(n, t) PROVE TypeInv'
    BY <2>1, ProcessTypes
       DEF Process, ProcessExits, TypeInv, TypeOK, NetTypeOK, ServerTypeOK, MainTypeOK,
           ClientTypeOK, UdpTypeOK, netVars, serverVars, mainVars, udpVars
  <2>2. ASSUME NEW n \in Node, Network(n) PROVE TypeInv'
    BY <2>2, CutType
       DEF Network, ConnectionBreaks, ConnectFails, TypeInv, TypeOK, NetTypeOK, ServerTypeOK,
           MainTypeOK, ClientTypeOK, UdpTypeOK, serverVars, mainVars, clientVars, udpVars
  <2>3. CASE UNCHANGED vars
    BY <2>3 DEF vars, TypeInv, TypeOK, NetTypeOK, ServerTypeOK, MainTypeOK, ClientTypeOK,
                UdpTypeOK, netVars, serverVars, mainVars, clientVars, udpVars
  <2> QED
    BY <2>1, <2>2, <2>3, MainKeepsTypes, ServerKeepsTypes, SessionKeepsTypes, UdpKeepsTypes
       DEF Next, Terminated
<1>3. TypeInv => TypeOK
  BY DEF TypeInv
<1> QED
  BY <1>1, <1>2, <1>3, PTL DEF Spec

-----------------------------------------------------------------------------
(***************************************************************************)
(* The task records.  RecordInv is inductive: sendTasksToSlave picks only  *)
(* records without node and result, and applyResultFromSlave changes only  *)
(* a record that has a node, which therefore has no result and no output.  *)
(***************************************************************************)
DoneIsUnowned == \A t \in Tasks : m_result[t] # NoInit => m_node[t] = nullptr

RecordInv == DoneIsUnowned /\ NoDanglingNode /\ SuccessMeansOutput

\* What the server thread may do to one record, and all that the properties
\* below need to know of it.
RecordStep(t) ==
  m_result[t] # NoInit =>
    /\ m_result'[t] = m_result[t] /\ m_exitCode'[t] = m_exitCode[t]
    /\ output'[t] = output[t] /\ m_node'[t] = nullptr

\* The threads other than the console's two leave the console's state alone.
LEMMA OthersKeepConsole ==
  ASSUME \/ \E n \in Node : Session(n) \/ Network(n)
         \/ \E n \in Node, t \in Tasks : Process(n, t)
         \/ \E d \in Daemons : Udp(d)
         \/ UNCHANGED vars
  PROVE  UNCHANGED <<serverVars, mainVars>>
BY DEF Session, Network, Process, Udp, vars

\* sendTasksToSlave gives away only a record that has neither node nor result.
LEMMA PickedIsFree ==
  ASSUME NEW n \in Node, NEW credit, NEW t \in Tasks, sendTasksToSlave(n, credit, t)
  PROVE  m_node[t] = nullptr /\ m_result[t] = NoInit
BY TasksAreNaturals DEF sendTasksToSlave, Picks, IsFree

\* Assigning a picked task, or none, keeps records with a result unowned and
\* names only a client.
LEMMA AssignedProperties ==
  ASSUME TypeOK, RecordInv, NEW n \in m_clients, NEW credit, NEW t \in Tasks \cup {NoId},
         sendTasksToSlave(n, credit, t), NEW u \in Tasks
  PROVE  /\ m_result[u] # NoInit => Assigned(n, t)[u] = nullptr
         /\ Assigned(n, t)[u] # nullptr => Assigned(n, t)[u] \in m_clients
<1>1. n \in Node
  BY DEF m_clients
<1>2. u = t => m_result[u] = NoInit
  BY <1>1, PickedIsFree
<1> QED
  BY <1>2 DEF Assigned, RecordInv, DoneIsUnowned, NoDanglingNode

\* The record part of a packet's handling.
LEMMA ApplyProperties ==
  ASSUME TypeOK, RecordInv, NEW n \in m_clients,
         NEW packet \in SlavePacket, NEW nodes \in [Tasks -> Node \cup {nullptr}],
         NEW saved \in BOOLEAN,
         \A u \in Tasks : m_result[u] # NoInit => nodes[u] = nullptr,
         applyResultFromSlave(n, packet, nodes, saved),
         NEW t \in Tasks
  PROVE  /\ RecordStep(t)
         /\ m_result'[t] # NoInit => m_node'[t] = nullptr
         /\ m_node'[t] \in {nodes[t], nullptr}
         /\ output'[t] <=> (m_result'[t] = Exited /\ m_exitCode'[t] = 0)
<1> USE DEF TypeOK, ServerTypeOK, RecordInv
<1>0. output[t] \in BOOLEAN /\ (output[t] <=> (m_result[t] = Exited /\ m_exitCode[t] = 0))
  BY DEF SuccessMeansOutput, IsSuccess
<1>1. CASE Applies(n, packet, nodes)
  <2>1. /\ m_node' = [nodes EXCEPT ![packet.id] = nullptr]
        /\ m_result' = [m_result EXCEPT ![packet.id] = packet.process_code]
        /\ m_exitCode' = [m_exitCode EXCEPT ![packet.id] =
                             IF Saves(packet) /\ ~saved THEN SaveError ELSE packet.exit_code]
        /\ output' = [output EXCEPT ![packet.id] = @ \/ (Saves(packet) /\ saved)]
    BY <1>1, Zenon DEF applyResultFromSlave
  <2>2. packet.id \in Tasks /\ nodes[packet.id] = n /\ n # nullptr
    BY <1>1, ConstantsAssumption DEF Applies, m_clients
  <2>3. m_result[packet.id] = NoInit
    BY <2>2
  <2>4. CASE t = packet.id
    <3>1. ~output[t]
      BY <1>0, <2>3, <2>4 DEF NoInit, Exited
    <3>2. output'[t] <=> (Saves(packet) /\ saved)
      BY <2>1, <2>2, <2>4, <3>1
    <3>3. (m_result'[t] = Exited /\ m_exitCode'[t] = 0) <=> (Saves(packet) /\ saved)
      <4>1. m_result'[t] = packet.process_code
        BY <2>1, <2>2, <2>4
      <4>2. m_exitCode'[t] = IF Saves(packet) /\ ~saved THEN SaveError ELSE packet.exit_code
        BY <2>1, <2>2, <2>4
      <4> QED
        BY <4>1, <4>2 DEF Saves, SaveError
    <3>4. m_node'[t] = nullptr
      BY <2>1, <2>2, <2>4
    <3> QED
      BY <2>3, <2>4, <3>2, <3>3, <3>4 DEF RecordStep
  <2>5. CASE t # packet.id
    <3>1. /\ m_node'[t] = nodes[t] /\ m_result'[t] = m_result[t]
          /\ m_exitCode'[t] = m_exitCode[t] /\ output'[t] = output[t]
      BY <2>1, <2>2, <2>5
    <3> QED
      BY <1>0, <3>1 DEF RecordStep
  <2> QED
    BY <2>4, <2>5
<1>2. CASE ~Applies(n, packet, nodes)
  <2>1. m_node' = nodes /\ UNCHANGED <<m_result, m_exitCode, m_doneIp, output>>
    BY <1>2, Zenon DEF applyResultFromSlave
  <2> QED
    BY <1>0, <2>1 DEF RecordStep
<1> QED
  BY <1>1, <1>2

\* A step of the server thread keeps RecordInv and results are final in it.
LEMMA ServerKeepsRecords ==
  ASSUME TypeOK, RecordInv, NEW n \in Node, Server(n)
  PROVE  RecordInv' /\ \A t \in Tasks : RecordStep(t)
<1> USE DEF Server, RecordInv, DoneIsUnowned, NoDanglingNode, SuccessMeansOutput, IsSuccess
<1>1. CASE newClient(n)
  BY <1>1 DEF newClient, m_clients, RecordStep, TypeOK, ServerTypeOK
<1>2. CASE Server_onRecvFromNode(n)
  <2> DEFINE packet == Head(toMaster[n])
  <2>1. PICK t \in Tasks \cup {NoId}, saved \in BOOLEAN :
          /\ sendTasksToSlave(n, packet.task_count, t)
          /\ applyResultFromSlave(n, packet, Assigned(n, t), saved)
    BY <1>2 DEF Server_onRecvFromNode
  <2>2. packet \in SlavePacket
    BY <1>2, TakeFromMasterQueue DEF Server_onRecvFromNode, TypeOK
  <2>3. packet.task_count \in Int
    BY <2>2 DEF SlavePacket
  <2> HIDE DEF packet
  <2>4. n \in m_clients /\ m_clients' = m_clients
    BY <1>2 DEF Server_onRecvFromNode, m_clients
  <2>5. Assigned(n, t) \in [Tasks -> Node \cup {nullptr}]
    BY <2>1, <2>3, SendTasksType
  <2>6. \A u \in Tasks : /\ m_result[u] # NoInit => Assigned(n, t)[u] = nullptr
                         /\ Assigned(n, t)[u] # nullptr => Assigned(n, t)[u] \in m_clients
    BY <2>1, <2>4, AssignedProperties
  <2>7. \A u \in Tasks :
          /\ RecordStep(u)
          /\ m_result'[u] # NoInit => m_node'[u] = nullptr
          /\ m_node'[u] \in {Assigned(n, t)[u], nullptr}
          /\ output'[u] <=> (m_result'[u] = Exited /\ m_exitCode'[u] = 0)
    BY <2>1, <2>2, <2>4, <2>5, <2>6, ApplyProperties
  <2> QED
    BY <2>4, <2>6, <2>7
<1>3. CASE Server_doWork(n)
  <2>1. PICK t \in Tasks :
          sendTasksToSlave(n, m_freeCores[n], t) /\ m_node' = Assigned(n, t)
    BY <1>3 DEF Server_doWork
  <2>2. n \in m_clients /\ m_clients' = m_clients
    BY <1>3 DEF Server_doWork, m_clients
  <2>3. \A u \in Tasks : /\ m_result[u] # NoInit => m_node'[u] = nullptr
                         /\ m_node'[u] # nullptr => m_node'[u] \in m_clients
    BY <2>1, <2>2, AssignedProperties
  <2> QED
    BY <1>3, <2>2, <2>3 DEF Server_doWork, RecordStep
<1>4. CASE onClientDisconnected(n)
  <2>1. \A u \in Tasks : m_node'[u] # nullptr => m_node'[u] = m_node[u] /\ m_node[u] # n
    BY <1>4 DEF onClientDisconnected, Freed
  <2>2. \A k \in m_clients : k # n => k \in m_clients'
    BY <1>4 DEF onClientDisconnected, m_clients, TypeOK, ServerTypeOK
  <2> QED
    BY <1>4, <2>1, <2>2 DEF onClientDisconnected, RecordStep
<1> QED
  BY <1>1, <1>2, <1>3, <1>4 DEF ServerNext

\* A step of main, too: of the records it changes only m_doneIp.
LEMMA MainKeepsRecords ==
  ASSUME RecordInv, Main
  PROVE  RecordInv' /\ \A t \in Tasks : RecordStep(t)
<1>1. UNCHANGED <<m_node, m_result, m_exitCode, output, peer>>
  BY DEF Main, MainNext, sendBroadcast, BroadcastFails, CloseAfterFailure, ServerClosed,
         CheckClients, ScanTask,
         EndOfPass, CloseAllClients, closeAllClients, CloseServer, serverVars
<1> QED
  BY <1>1 DEF RecordInv, DoneIsUnowned, NoDanglingNode, SuccessMeansOutput, IsSuccess,
              m_clients, RecordStep

LEMMA NextKeepsRecords ==
  ASSUME TypeOK, RecordInv, [Next]_vars
  PROVE  RecordInv' /\ \A t \in Tasks : RecordStep(t)
<1>1. CASE UNCHANGED <<serverVars, mainVars>>
  BY <1>1 DEF serverVars, RecordInv, DoneIsUnowned, NoDanglingNode, SuccessMeansOutput, IsSuccess,
              m_clients, RecordStep
<1>2. CASE Main
  BY <1>2, MainKeepsRecords
<1>3. CASE \E n \in Node : Server(n)
  BY <1>3, ServerKeepsRecords
<1> QED
  BY <1>1, <1>2, <1>3, OthersKeepConsole DEF Next, Terminated

LEMMA RecordInvariant == Spec => []RecordInv
<1>1. Init => RecordInv
  BY DEF Init, ServerInit, RecordInv, DoneIsUnowned, NoDanglingNode, SuccessMeansOutput,
         IsSuccess, NoInit, Exited
<1>2. TypeOK /\ RecordInv /\ [Next]_vars => RecordInv'
  BY NextKeepsRecords
<1> QED
  BY <1>1, <1>2, TypeCorrect, PTL DEF Spec

\* No task record ever points to a node the server has deleted.
THEOREM NoDanglingNodeHolds == Spec => []NoDanglingNode
<1>1. RecordInv => NoDanglingNode
  BY DEF RecordInv
<1> QED
  BY <1>1, RecordInvariant, PTL

\* A task counts as a success exactly when its output file was saved.
THEOREM SuccessMeansOutputHolds == Spec => []SuccessMeansOutput
<1>1. RecordInv => SuccessMeansOutput
  BY DEF RecordInv
<1> QED
  BY <1>1, RecordInvariant, PTL

\* A recorded result never changes and its task is never given away again.
THEOREM ResultIsFinalHolds == Spec => ResultIsFinal
<1>1. TypeOK /\ RecordInv /\ [Next]_vars =>
        [\A t \in Tasks : m_result[t] # NoInit =>
           /\ m_result'[t] = m_result[t] /\ m_exitCode'[t] = m_exitCode[t]
           /\ output'[t] = output[t] /\ m_node'[t] = nullptr]_vars
  BY NextKeepsRecords DEF RecordStep
<1> QED
  BY <1>1, TypeCorrect, RecordInvariant, PTL DEF Spec, ResultIsFinal

-----------------------------------------------------------------------------
(***************************************************************************)
(* The main thread.  PassInv follows a pass of its loop: while isFinished  *)
(* is set the records before the cursor have results, so a pass that ends  *)
(* with isFinished has seen all of them, and results are final.  The loop  *)
(* is left finished, or with an expired timer.                             *)
(***************************************************************************)
AllDone == \A t \in Tasks : m_result[t] # NoInit

PassInv ==
  /\ mainPc \in {"broadcast", "check"} => ~isFinished
  /\ mainPc = "scan" /\ isFinished => \A t \in Tasks : t < cursor => m_result[t] # NoInit
  /\ mainPc \in {"closeAll", "closing"} =>
       (isFinished /\ AllDone) \/ (~isFinished /\ TimerFinished(idle))
  /\ ExitZeroMeansDone

LEMMA MainKeepsPass ==
  ASSUME TypeOK, PassInv, Main
  PROVE  PassInv'
<1> USE DEF PassInv, AllDone, ExitZeroMeansDone, Main
<1>0. UNCHANGED m_result /\ isFinished \in BOOLEAN
  BY DEF MainNext, sendBroadcast, BroadcastFails, CloseAfterFailure, ServerClosed,
         CheckClients, ScanTask,
         EndOfPass, CloseAllClients, closeAllClients, CloseServer, serverVars, TypeOK, MainTypeOK
<1>1. CASE sendBroadcast
  BY <1>0, <1>1 DEF sendBroadcast
<1>2. CASE BroadcastFails
  BY <1>0, <1>2 DEF BroadcastFails
<1>3. CASE CheckClients
  <2>1. CASE TimerFinished(idle')
    BY <1>0, <1>3, <2>1 DEF CheckClients, TimerFinished
  <2>2. CASE ~TimerFinished(idle')
    <3>1. mainPc' = "scan" /\ cursor' = 1
      BY <1>3, <2>2 DEF CheckClients
    <3>2. \A t \in Tasks : ~(t < 1)
      BY ConstantsAssumption DEF Tasks
    <3> QED
      BY <3>1, <3>2
  <2> QED
    BY <2>1, <2>2
<1>4. ASSUME NEW t \in Tasks, ScanTask(t) PROVE PassInv'
  <2>1. /\ mainPc = "scan" /\ mainPc' = "scan" /\ t = cursor /\ cursor' = t + 1
        /\ isFinished' => isFinished /\ m_result[t] # NoInit
    BY <1>4 DEF ScanTask, StillFinished
  <2>2. \A u \in Tasks : u < cursor' => u < cursor \/ u = t
    BY <2>1, ConstantsAssumption DEF Tasks
  <2> QED
    BY <1>0, <2>1, <2>2
<1>5. CASE EndOfPass
  <2>1. /\ mainPc = "scan" /\ mainPc' = (IF isFinished THEN "closeAll" ELSE "check")
        /\ cursor = NumTasks + 1 /\ UNCHANGED <<isFinished, exitCode>>
    BY <1>5 DEF EndOfPass
  <2>2. \A t \in Tasks : t < cursor
    BY <2>1, ConstantsAssumption DEF Tasks
  <2> QED
    BY <1>0, <2>1, <2>2
<1>6. CASE CloseAllClients
  BY <1>0, <1>6 DEF CloseAllClients, TimerFinished
<1>7. CASE CloseServer
  BY <1>0, <1>7 DEF CloseServer, ReturnCode
<1>8. CASE CloseAfterFailure
  BY <1>0, <1>8 DEF CloseAfterFailure
<1> QED
  BY <1>1, <1>2, <1>3, <1>4, <1>5, <1>6, <1>7, <1>8 DEF MainNext

LEMMA PassInvariant == Spec => []PassInv
<1>1. Init => PassInv
  BY DEF Init, MainInit, PassInv, ExitZeroMeansDone
<1>2. TypeOK /\ RecordInv /\ PassInv /\ [Next]_vars => PassInv'
  <2> SUFFICES ASSUME TypeOK, RecordInv, PassInv, [Next]_vars PROVE PassInv'
    OBVIOUS
  <2>1. CASE Main
    BY <2>1, MainKeepsPass
  <2>2. CASE UNCHANGED mainVars
    <3>1. \A t \in Tasks : m_result[t] # NoInit => m_result'[t] # NoInit
      BY NextKeepsRecords DEF RecordStep
    <3> QED
      BY <2>2, <3>1 DEF mainVars, PassInv, AllDone, ExitZeroMeansDone, TimerFinished
  <2>3. CASE \E n \in Node : Server(n)
    BY <2>2, <2>3 DEF Server
  <2> QED
    BY <2>1, <2>2, <2>3, OthersKeepConsole DEF Next, Terminated
<1> QED
  BY <1>1, <1>2, TypeCorrect, RecordInvariant, PTL DEF Spec

\* The console returns 0 only when every task has a result.
THEOREM ExitZeroMeansDoneHolds == Spec => []ExitZeroMeansDone
<1>1. PassInv => ExitZeroMeansDone
  BY DEF PassInv
<1> QED
  BY <1>1, PassInvariant, PTL
=============================================================================
