--------------------------- MODULE TaskFilesProofs ---------------------------
(***************************************************************************)
(* The files are a superposition on the farm: what is proved of BuildFarm  *)
(* holds of TaskFiles too, for every instance.                             *)
(***************************************************************************)
EXTENDS TaskFiles, SessionProofs

\* A step with its effect on files is a step of the farm; a process that reads
\* its source changes nothing the farm knows of.
LEMMA FilesStep ==
  ASSUME [FilesNext]_<<vars, fileVars>>
  PROVE  [Next]_vars
<1>1. CASE Main /\ UNCHANGED fileVars
  BY <1>1 DEF Next
<1>2. ASSUME NEW n \in Node, FilesServer(n)
      PROVE  Next
  BY <1>2 DEF FilesServer, Next
<1>3. ASSUME NEW n \in Node, FilesSession(n)
      PROVE  Next
  BY <1>3 DEF FilesSession, Next
<1>4. ASSUME NEW n \in Node, Network(n)
      PROVE  Next
  BY <1>4 DEF Next
<1>5. ASSUME NEW n \in Node, NEW t \in Tasks, ProcessReads(n, t)
      PROVE  UNCHANGED vars
  BY <1>5 DEF ProcessReads
<1>6. ASSUME NEW n \in Node, NEW t \in Tasks, FilesProcess(n, t)
      PROVE  Next
  BY <1>6 DEF FilesProcess, Next
<1>7. ASSUME NEW d \in Daemons, Udp(d)
      PROVE  Next
  BY <1>7 DEF Next
<1>8. CASE Terminated /\ UNCHANGED fileVars
  BY <1>8 DEF Next
<1>9. CASE UNCHANGED <<vars, fileVars>>
  BY <1>9
<1> QED
  BY <1>1, <1>2, <1>3, <1>4, <1>5, <1>6, <1>7, <1>8, <1>9 DEF FilesNext

(***************************************************************************)
(* The build with its files behaves as the farm without them.              *)
(***************************************************************************)
THEOREM FilesImplementFarm == FilesSpec => Spec
<1>1. Init /\ FileInit => Init
  OBVIOUS
<1>2. [FilesNext]_<<vars, fileVars>> => [Next]_vars
  BY FilesStep
<1> QED BY <1>1, <1>2, PTL DEF FilesSpec, Spec

-----------------------------------------------------------------------------
(***************************************************************************)
(* What the theorems about files assume: every task has files of its own   *)
(* and, but for the last theorem, a daemon serves one session, so that no  *)
(* process of an earlier one is at work on its disk.                       *)
(***************************************************************************)
OwnFiles ==
  /\ \A t, u \in Tasks : SourceFile[t] = SourceFile[u] => t = u
  /\ \A t, u \in Tasks : OutputFile[t] = OutputFile[u] => t = u
  /\ \A t, u \in Tasks : SourceFile[t] # OutputFile[u]

LEMMA OneNodePerHost ==
  ASSUME MaxSessions = 1, NEW n \in Node, NEW k \in Node, Host(n) = Host(k)
  PROVE  n = k
BY DEF Node, Host

\* No task has the number that stands for a missing or an incomplete file.
LEMMA TaskContents ==
  /\ Tasks \subseteq Content /\ NoFile \in Content /\ Broken \in Content /\ NoFile # Broken
  /\ \A t \in Tasks : t # NoFile /\ t # Broken /\ TextOf(t) = t
BY TasksAreNaturals DEF Content, NoFile, Broken, TextOf, NoId

LEMMA FileTypes ==
  ASSUME TypeOK, FileTypeOK, [FilesNext]_<<vars, fileVars>>
  PROVE  FileTypeOK'
<1> USE FilesAssumption, NodeHost, TaskContents DEF FileTypeOK
<1>1. CASE UNCHANGED fileVars
  BY <1>1 DEF fileVars
<1>2. ASSUME NEW n \in Node, FilesServer(n) PROVE FileTypeOK'
  <2>1. inputdata' \in [Node -> [Tasks -> Content]]
    BY <1>2 DEF FilesServer
  <2>2. outputOf' \in [Tasks -> Content]
    BY <1>2 DEF FilesServer
  <2> QED
    BY <1>2, <2>1, <2>2 DEF FilesServer
<1>3. ASSUME NEW n \in Node, FilesReceive(n) PROVE FileTypeOK'
  <2>1. \/ UNCHANGED disk
        \/ \E t \in Tasks : \/ disk' = [disk EXCEPT ![Host(n)][SourceFile[t]] = inputdata[n][t]]
                            \/ disk' = [disk EXCEPT ![Host(n)][SourceFile[t]] = Broken]
    BY <1>3, Zenon DEF FilesReceive, SaveSource
  <2>2. disk' \in [Daemons -> [File -> Content]]
    <3>1. CASE UNCHANGED disk
      BY <3>1
    <3>2. ASSUME NEW t \in Tasks,
                 \/ disk' = [disk EXCEPT ![Host(n)][SourceFile[t]] = inputdata[n][t]]
                 \/ disk' = [disk EXCEPT ![Host(n)][SourceFile[t]] = Broken]
          PROVE  disk' \in [Daemons -> [File -> Content]]
      <4>1. Host(n) \in Daemons /\ SourceFile[t] \in File /\ inputdata[n][t] \in Content
        OBVIOUS
      <4>2. ASSUME NEW content \in Content
            PROVE  [disk EXCEPT ![Host(n)][SourceFile[t]] = content] \in [Daemons -> [File -> Content]]
        OBVIOUS
      <4>3. CASE disk' = [disk EXCEPT ![Host(n)][SourceFile[t]] = inputdata[n][t]]
        BY <4>1, <4>2, <4>3
      <4>4. CASE disk' = [disk EXCEPT ![Host(n)][SourceFile[t]] = Broken]
        BY <4>2, <4>4
      <4> QED
        BY <3>2, <4>3, <4>4
    <3> QED
      BY <2>1, <3>1, <3>2
  <2> QED
    BY <1>3, <2>2 DEF FilesReceive
<1>4. ASSUME NEW n \in Node, NEW t \in Tasks, FilesFinish(n, t) PROVE FileTypeOK'
  <2>1. disk' \in [Daemons -> [File -> Content]]
    BY <1>4 DEF FilesFinish, Cleared
  <2>2. outputdata' \in [Node -> [Tasks -> Content]]
    BY <1>4 DEF FilesFinish, OutputToSend, TextOf
  <2> QED
    BY <1>4, <2>1, <2>2 DEF FilesFinish
<1>5. ASSUME NEW n \in Node, NEW t \in Tasks, ProcessReads(n, t) PROVE FileTypeOK'
  BY <1>5 DEF ProcessReads
<1>6. ASSUME NEW n \in Node, NEW t \in Tasks, FilesProcess(n, t) PROVE FileTypeOK'
  <2>1. \/ UNCHANGED disk
        \/ disk' = [disk EXCEPT ![Host(n)][OutputFile[t]] = input[n][t]]
    BY <1>6 DEF FilesProcess
  <2>2. disk' \in [Daemons -> [File -> Content]]
    <3>1. Host(n) \in Daemons /\ OutputFile[t] \in File /\ input[n][t] \in Content
      OBVIOUS
    <3>2. ASSUME NEW content \in Content
          PROVE  [disk EXCEPT ![Host(n)][OutputFile[t]] = content] \in [Daemons -> [File -> Content]]
      OBVIOUS
    <3>3. disk \in [Daemons -> [File -> Content]]
      OBVIOUS
    <3>4. CASE disk' = [disk EXCEPT ![Host(n)][OutputFile[t]] = input[n][t]]
      BY <3>1, <3>2, <3>4
    <3> QED
      BY <2>1, <3>3, <3>4
  <2> QED
    BY <1>6, <2>2 DEF FilesProcess
<1> QED
  BY <1>1, <1>2, <1>3, <1>4, <1>5, <1>6 DEF FilesNext, FilesSession, fileVars

-----------------------------------------------------------------------------
(***************************************************************************)
(* The files on a daemon.  FilesOfTasks says what they are while the       *)
(* session is connected; before that there are none, which is what the     *)
(* session starts from.                                                    *)
(***************************************************************************)
DiskOfTask(n, t) ==
  /\ conn[n] # "closed" /\ t \notin m_tasks[n] =>
       disk[Host(n)][SourceFile[t]] = NoFile /\ disk[Host(n)][OutputFile[t]] = NoFile
  /\ conn[n] = "connected" /\ t \in m_tasks[n] =>
       disk[Host(n)][SourceFile[t]] = inputdata[n][t]

DiskInv == FileTypeOK /\ \A n \in Node, t \in Tasks : DiskOfTask(n, t)

\* What is known of the farm.
FarmInv == TypeOK /\ RecordInv /\ LinkInv /\ StartInv /\ RunningInv

LEMMA FarmInvariant == FilesSpec => []FarmInv
BY FilesImplementFarm, TypeCorrect, RecordInvariant, LinkInvariant, StartInvariant,
   RunningInvariant, PTL DEF FarmInv

\* Main and the UDP threads, as far as the files can tell: connections may be
\* closed, and may be made while they have no tasks.
LEMMA MainLinks ==
  ASSUME FarmInv, Main
  PROVE  /\ \A k \in Node : conn'[k] = "closed" \/ conn'[k] = conn[k]
         /\ UNCHANGED <<process, toMaster, m_node, output, m_tasks>>
<1>1. ASSUME NEW k \in Node PROVE conn'[k] = "closed" \/ conn'[k] = conn[k]
  BY DEF Main, MainNext, sendBroadcast, BroadcastFails, CloseAfterFailure, ServerClosed,
         CheckClients, ScanTask,
         EndOfPass, CloseAllClients, closeAllClients, CloseServer, netVars, Cut
<1>2. UNCHANGED <<process, toMaster, m_node, output, m_tasks>>
  BY DEF Main, MainNext, sendBroadcast, BroadcastFails, CloseAfterFailure, ServerClosed,
         CheckClients, ScanTask,
         EndOfPass, CloseAllClients, closeAllClients, CloseServer, netVars, clientVars, serverVars
<1> QED
  BY <1>1, <1>2

LEMMA UdpLinks ==
  ASSUME FarmInv, NEW d \in Daemons, Udp(d), NEW k \in Node
  PROVE  \/ conn'[k] = "closed"
         \/ m_tasks'[k] = m_tasks[k] /\ conn'[k] = conn[k]
         \/ m_tasks'[k] = m_tasks[k] /\ m_tasks[k] = {} /\ conn[k] \in {"none", "connecting"}
<1>1. conn[k] = "none" => m_tasks[k] = {}
  BY DEF FarmInv, LinkInv, LinkPhase
<1>2. conn'[k] = conn[k] \/ conn[k] = "none"
  BY DEF Udp, UdpNext, DropInvitation, AcceptInvitation, IsNextSession, Udp_doWork,
         SessionStarted, SessionOver, netVars, FarmInv, TypeOK, NetTypeOK
<1>3. m_tasks'[k] = m_tasks[k] \/ conn'[k] = "closed"
  BY DEF Udp, UdpNext, DropInvitation, AcceptInvitation, Udp_doWork, SessionStarted,
         SessionOver, IsOver, clientVars, netVars, FarmInv, TypeOK, ClientTypeOK
<1> QED
  BY <1>1, <1>2, <1>3

\* A step that leaves the disk and the packets of connection k alone.
LEMMA DiskKept ==
  ASSUME NEW k \in Node, NEW u \in Tasks, DiskOfTask(k, u),
         disk'[Host(k)] = disk[Host(k)],
         \/ conn'[k] = "closed"
         \/ /\ m_tasks'[k] = m_tasks[k]
            /\ u \in m_tasks[k] => inputdata'[k][u] = inputdata[k][u]
            /\ \/ conn'[k] = conn[k]
               \/ conn[k] \in {"none", "connecting"} /\ m_tasks[k] = {}
  PROVE  DiskOfTask(k, u)'
BY DEF DiskOfTask, Host

\* A step that only writes the output file of a task with a running process.
LEMMA OutputWritten ==
  ASSUME OwnFiles, MaxSessions = 1, FarmInv, DiskInv, NEW n \in Node, NEW t \in Tasks,
         isRunning(n, t), NEW content,
         disk' = [disk EXCEPT ![Host(n)][OutputFile[t]] = content],
         UNCHANGED <<conn, m_tasks, inputdata>>
  PROVE  \A k \in Node, u \in Tasks : DiskOfTask(k, u)'
<1> SUFFICES ASSUME NEW k \in Node, NEW u \in Tasks PROVE DiskOfTask(k, u)'
  OBVIOUS
<1>0. DiskOfTask(k, u) /\ Host(n) \in Daemons /\ Host(k) \in Daemons
  BY NodeHost DEF DiskInv
<1>1. CASE k # n
  <2>1. disk'[Host(k)] = disk[Host(k)]
    BY <1>0, <1>1, OneNodePerHost DEF DiskInv, FileTypeOK
  <2> QED
    BY <1>0, <2>1, DiskKept
<1>2. CASE k = n
  <2>1. conn[n] \in {"connected", "closed"}
    BY DEF FarmInv, StartInv, isRunning, NoProcess, NoInit, StillRunning
  <2>2. conn[n] = "connected" => t \in m_tasks[n]
    BY DEF FarmInv, RunningInv
  <2>3. /\ \A f \in File : f # OutputFile[t] => disk'[Host(n)][f] = disk[Host(n)][f]
        /\ SourceFile[u] \in File /\ OutputFile[u] \in File /\ SourceFile[u] # OutputFile[t]
        /\ u # t => OutputFile[u] # OutputFile[t]
    BY <1>0, FilesAssumption DEF OwnFiles, DiskInv, FileTypeOK
  <2>4. disk'[Host(n)][SourceFile[u]] = disk[Host(n)][SourceFile[u]]
    BY <2>3
  <2>5. u # t => disk'[Host(n)][OutputFile[u]] = disk[Host(n)][OutputFile[u]]
    BY <2>3
  <2> QED
    BY <1>0, <1>2, <2>1, <2>2, <2>4, <2>5 DEF DiskOfTask, Host
<1> QED
  BY <1>1, <1>2

\* The source is saved when the task enters m_tasks.
LEMMA ReceiveKeepsDisk ==
  ASSUME OwnFiles, MaxSessions = 1, FarmInv, DiskInv, NEW n \in Node, FilesReceive(n)
  PROVE  \A k \in Node, u \in Tasks : DiskOfTask(k, u)'
<1> SUFFICES ASSUME NEW k \in Node, NEW u \in Tasks PROVE DiskOfTask(k, u)'
  OBVIOUS
<1> DEFINE id == Head(toSlave[n]).id
<1>0. DiskOfTask(k, u) /\ Host(n) \in Daemons /\ Host(k) \in Daemons
  BY NodeHost DEF DiskInv
<1>1. /\ conn[n] = "connected" /\ toSlave[n] # <<>> /\ UNCHANGED inputdata
      /\ \/ id # NoId /\ runTaskProcess(n, id) /\ UNCHANGED conn
         \/ Cut({n}) /\ UNCHANGED clientVars
  BY DEF FilesReceive, Client_onRecvFromNode, RefuseTask
<1>2. CASE k # n
  <2>1. disk'[Host(k)] = disk[Host(k)]
    BY <1>0, <1>2, OneNodePerHost DEF FilesReceive, SaveSource, DiskInv, FileTypeOK
  <2>2. conn'[k] = conn[k] /\ m_tasks'[k] = m_tasks[k]
    BY <1>1, <1>2 DEF Cut, clientVars, runTaskProcess, FarmInv, TypeOK, ClientTypeOK
  <2> QED
    BY <1>0, <1>1, <2>1, <2>2, DiskKept
<1>3. CASE k = n /\ id # NoId /\ runTaskProcess(n, id) /\ UNCHANGED conn
  <2>1. PICK t \in Tasks : t = id /\ m_tasks' = [m_tasks EXCEPT ![n] = @ \cup {t}]
    BY <1>1, <1>3, RunStartsProcess DEF FarmInv
  <2>2. m_tasks'[n] = m_tasks[n] \cup {t}
    BY <2>1 DEF FarmInv, TypeOK, ClientTypeOK
  <2>3. disk' = [disk EXCEPT ![Host(n)][SourceFile[t]] = inputdata[n][t]]
    BY <2>1, <2>2, TasksAreNaturals DEF FilesReceive, SaveSource
  <2>4. /\ \A f \in File : disk'[Host(n)][f] =
               IF f = SourceFile[t] THEN inputdata[n][t] ELSE disk[Host(n)][f]
        /\ SourceFile[u] \in File /\ OutputFile[u] \in File /\ OutputFile[u] # SourceFile[t]
        /\ u # t => SourceFile[u] # SourceFile[t]
    BY <1>0, <2>3, FilesAssumption DEF OwnFiles, DiskInv, FileTypeOK
  <2>5. CASE u = t
    BY <1>1, <1>3, <2>2, <2>4, <2>5 DEF DiskOfTask, Host
  <2>6. CASE u # t
    <3>1. /\ disk'[Host(n)][SourceFile[u]] = disk[Host(n)][SourceFile[u]]
          /\ disk'[Host(n)][OutputFile[u]] = disk[Host(n)][OutputFile[u]]
          /\ u \in m_tasks'[n] <=> u \in m_tasks[n]
      BY <2>2, <2>4, <2>6
    <3> QED
      BY <1>0, <1>1, <1>3, <3>1 DEF DiskOfTask, Host
  <2> QED
    BY <2>5, <2>6
<1>4. CASE k = n /\ Cut({n})
  BY <1>4 DEF Cut, DiskOfTask
<1> QED
  BY <1>1, <1>2, <1>3, <1>4

\* Both files are deleted when the task leaves m_tasks.
LEMMA FinishKeepsDisk ==
  ASSUME OwnFiles, MaxSessions = 1, FarmInv, DiskInv, NEW n \in Node, NEW t \in Tasks,
         FilesFinish(n, t)
  PROVE  \A k \in Node, u \in Tasks : DiskOfTask(k, u)'
<1> SUFFICES ASSUME NEW k \in Node, NEW u \in Tasks PROVE DiskOfTask(k, u)'
  OBVIOUS
<1>0. DiskOfTask(k, u) /\ Host(n) \in Daemons /\ Host(k) \in Daemons
  BY NodeHost DEF DiskInv
<1>1. /\ conn[n] = "connected" /\ UNCHANGED inputdata
      /\ \/ Cut({n}) /\ UNCHANGED m_tasks
         \/ m_tasks' = [m_tasks EXCEPT ![n] = Erased(n, t)] /\ UNCHANGED conn
  BY DEF FilesFinish, Client_doWork
<1>2. CASE k # n
  <2>1. disk'[Host(k)] = disk[Host(k)]
    BY <1>0, <1>2, OneNodePerHost DEF FilesFinish, DiskInv, FileTypeOK
  <2>2. conn'[k] = conn[k] /\ m_tasks'[k] = m_tasks[k]
    BY <1>1, <1>2 DEF Cut, FarmInv, TypeOK, ClientTypeOK
  <2> QED
    BY <1>0, <1>1, <2>1, <2>2, DiskKept
<1>3. CASE k = n /\ Cut({n})
  BY <1>3 DEF Cut, DiskOfTask
<1>4. CASE k = n /\ m_tasks' = [m_tasks EXCEPT ![n] = Erased(n, t)] /\ UNCHANGED conn
  <2>1. m_tasks'[n] = m_tasks[n] \ {t}
    BY <1>4 DEF Erased, FarmInv, TypeOK, ClientTypeOK
  <2>2. disk' = [disk EXCEPT ![Host(n)] = Cleared(Host(n), t)]
    BY <2>1 DEF FilesFinish
  <2>3. \A f \in File : disk'[Host(n)][f] =
          IF f \in {SourceFile[t], OutputFile[t]} THEN NoFile ELSE disk[Host(n)][f]
    BY <1>0, <2>2, FilesAssumption DEF Cleared, OwnFiles, DiskInv, FileTypeOK
  <2>4. SourceFile[u] \in File /\ OutputFile[u] \in File
    BY FilesAssumption
  <2>5. CASE u = t
    <3>1. disk'[Host(n)][SourceFile[u]] = NoFile /\ disk'[Host(n)][OutputFile[u]] = NoFile
      BY <2>3, <2>4, <2>5
    <3> QED
      BY <1>4, <2>1, <2>5, <3>1 DEF DiskOfTask, Host
  <2>6. CASE u # t
    <3>1. /\ SourceFile[u] \notin {SourceFile[t], OutputFile[t]}
          /\ OutputFile[u] \notin {SourceFile[t], OutputFile[t]}
      BY <2>6 DEF OwnFiles
    <3>2. /\ disk'[Host(n)][SourceFile[u]] = disk[Host(n)][SourceFile[u]]
          /\ disk'[Host(n)][OutputFile[u]] = disk[Host(n)][OutputFile[u]]
          /\ u \in m_tasks'[n] <=> u \in m_tasks[n]
      BY <2>1, <2>3, <2>4, <2>6, <3>1
    <3> QED
      BY <1>0, <1>1, <1>4, <3>2 DEF DiskOfTask, Host
  <2> QED
    BY <2>5, <2>6
<1> QED
  BY <1>1, <1>2, <1>3, <1>4

\* A step without an effect on files: connections may be closed, and may be made
\* while they have no tasks.
LEMMA DisksKept ==
  ASSUME DiskInv, UNCHANGED <<disk, inputdata>>,
         \A k \in Node : \/ conn'[k] = "closed"
                         \/ m_tasks'[k] = m_tasks[k] /\ conn'[k] = conn[k]
                         \/ /\ m_tasks'[k] = m_tasks[k] /\ m_tasks[k] = {}
                            /\ conn[k] \in {"none", "connecting"}
  PROVE  \A k \in Node, u \in Tasks : DiskOfTask(k, u)'
<1> SUFFICES ASSUME NEW k \in Node, NEW u \in Tasks PROVE DiskOfTask(k, u)'
  OBVIOUS
<1> QED
  BY DiskKept DEF DiskInv

\* Every step keeps the files in order.
LEMMA NextKeepsDisk ==
  ASSUME OwnFiles, MaxSessions = 1, FarmInv, DiskInv, [FilesNext]_<<vars, fileVars>>
  PROVE  DiskInv'
<1>0. FileTypeOK'
  BY FileTypes DEF FarmInv, DiskInv
<1> SUFFICES \A k \in Node, u \in Tasks : DiskOfTask(k, u)'
  BY <1>0 DEF DiskInv
<1>1. CASE Main /\ UNCHANGED fileVars
  BY <1>1, MainLinks, DisksKept DEF fileVars
<1>2. ASSUME NEW n \in Node, FilesServer(n)
      PROVE  \A k \in Node, u \in Tasks : DiskOfTask(k, u)'
  <2>1. UNCHANGED <<disk, conn, m_tasks>>
    BY <1>2 DEF FilesServer, Server, ServerNext, newClient, Server_onRecvFromNode, Server_doWork,
                onClientDisconnected, netVars, clientVars
  <2> SUFFICES ASSUME NEW k \in Node, NEW u \in Tasks PROVE DiskOfTask(k, u)'
    OBVIOUS
  <2>2. conn[k] = "connected" /\ u \in m_tasks[k] => m_node[u] = k
    BY DEF FarmInv, LinkInv, LinkTasks, Elsewhere
  <2>3. m_node[u] = k => inputdata'[k][u] = inputdata[k][u]
    BY <1>2 DEF FilesServer, Given, DiskInv, FileTypeOK
  <2> QED
    BY <2>1, <2>2, <2>3 DEF DiskInv, DiskOfTask, Host
<1>3. ASSUME NEW n \in Node, Session(n), conn[n] = "connecting", UNCHANGED fileVars
      PROVE  \A k \in Node, u \in Tasks : DiskOfTask(k, u)'
  <2>1. onConnect(n) \/ ConnectFails(n)
    BY <1>3 DEF Session, Client_onRecvFromNode, Client_doWork
  <2>2. m_tasks[n] = {} /\ UNCHANGED m_tasks
    BY <1>3, <2>1 DEF FarmInv, LinkInv, LinkPhase, onConnect, ConnectFails, clientVars
  <2>3. ASSUME NEW k \in Node, k # n PROVE conn'[k] = conn[k]
    BY <2>1, <2>3 DEF onConnect, ConnectFails, Cut, FarmInv, TypeOK, NetTypeOK
  <2> QED
    BY <1>3, <2>2, <2>3, DisksKept DEF fileVars
<1>4. ASSUME NEW n \in Node, Network(n), UNCHANGED fileVars
      PROVE  \A k \in Node, u \in Tasks : DiskOfTask(k, u)'
  BY <1>4, DisksKept DEF Network, ConnectionBreaks, ConnectFails, Cut, clientVars, fileVars
<1>5. ASSUME NEW n \in Node, NEW t \in Tasks, ProcessReads(n, t)
      PROVE  \A k \in Node, u \in Tasks : DiskOfTask(k, u)'
  BY <1>5, OutputWritten DEF ProcessReads, vars, netVars, clientVars
<1>6. ASSUME NEW n \in Node, NEW t \in Tasks, FilesProcess(n, t)
      PROVE  \A k \in Node, u \in Tasks : DiskOfTask(k, u)'
  <2>1. isRunning(n, t) /\ UNCHANGED <<conn, m_tasks, inputdata>>
    BY <1>6 DEF FilesProcess, Process, ProcessExits, netVars
  <2>2. CASE UNCHANGED disk
    BY <2>1, <2>2, DisksKept
  <2>3. CASE disk' = [disk EXCEPT ![Host(n)][OutputFile[t]] = input[n][t]]
    BY <2>1, <2>3, OutputWritten
  <2> QED
    BY <1>6, <2>2, <2>3 DEF FilesProcess
<1>7. ASSUME NEW d \in Daemons, Udp(d), UNCHANGED fileVars
      PROVE  \A k \in Node, u \in Tasks : DiskOfTask(k, u)'
  BY <1>7, UdpLinks, DisksKept DEF fileVars
<1>8. CASE UNCHANGED <<vars, fileVars>>
  BY <1>8, DisksKept DEF vars, netVars, clientVars, fileVars
<1> QED
  BY <1>1, <1>2, <1>3, <1>4, <1>5, <1>6, <1>7, <1>8, ReceiveKeepsDisk, FinishKeepsDisk
     DEF FilesNext, FilesSession, Terminated

LEMMA DiskInvariant ==
  ASSUME OwnFiles, MaxSessions = 1
  PROVE  FilesSpec => []DiskInv
<1>1. Init /\ FileInit => DiskInv
  BY FilesAssumption, NodeHost, TaskContents
     DEF Init, ClientInit, FileInit, DiskInv, FileTypeOK, DiskOfTask
<1>2. FarmInv /\ DiskInv /\ [FilesNext]_<<vars, fileVars>> => DiskInv'
  BY NextKeepsDisk
<1> QED
  BY <1>1, <1>2, FarmInvariant, PTL DEF FilesSpec

\* While a session is connected the files on its daemon are those of its tasks,
\* whenever processes start, read, write and end, also when loading a file
\* fails at the console or at the daemon: a source stays until its task is
\* answered for, and nothing is left of any other task.
THEOREM FilesOfTasksHolds ==
  ASSUME OwnFiles, MaxSessions = 1
  PROVE  FilesSpec => []FilesOfTasks
<1>1. DiskInv => FilesOfTasks
  BY DEF DiskInv, DiskOfTask, FilesOfTasks
<1> QED
  BY <1>1, DiskInvariant, PTL

-----------------------------------------------------------------------------
(***************************************************************************)
(* The way of an output, with disks that can be read: the source in the    *)
(* packet, the source the process has read, the output it has written, the *)
(* output in the result packet and the one at the console are all those of *)
(* the task.                                                               *)
(***************************************************************************)
SourceGiven == \A n \in Node, t \in Tasks : m_node[t] = n => inputdata[n][t] = t

SourceRead ==
  \A n \in Node, t \in Tasks : conn[n] # "closed" => input[n][t] \in {NoFile, t}

OutputWrittenBack ==
  \A n \in Node, t \in Tasks :
    conn[n] = "connected" /\ t \in m_tasks[n] /\ process[n][t] = ExitedWith(0) =>
      disk[Host(n)][OutputFile[t]] = t

OutputSent ==
  \A n \in Node : \A i \in DOMAIN toMaster[n] :
    toMaster[n][i].id \in Tasks /\ Saves(toMaster[n][i]) =>
      outputdata[n][toMaster[n][i].id] = toMaster[n][i].id

OutputStored == \A t \in Tasks : output[t] => outputOf[t] = t

OutputInv == SourceGiven /\ SourceRead /\ OutputWrittenBack /\ OutputSent /\ OutputStored

\* A process of a connected session reads the source of its own task.
LEMMA OwnSourceOnDisk ==
  ASSUME FarmInv, DiskInv, OutputInv, NEW n \in Node, NEW t \in Tasks,
         conn[n] = "connected", isRunning(n, t)
  PROVE  disk[Host(n)][SourceFile[t]] = t /\ t \in m_tasks[n]
<1>1. t \in m_tasks[n]
  BY DEF FarmInv, RunningInv
<1>2. m_node[t] = n
  BY <1>1 DEF FarmInv, LinkInv, LinkTasks, Elsewhere
<1> QED
  BY <1>1, <1>2 DEF DiskInv, DiskOfTask, OutputInv, SourceGiven

\* A step that has no effect on files or results.
LEMMA OutputsKept ==
  ASSUME FarmInv, OutputInv, UNCHANGED <<fileVars, process, toMaster, m_node, output>>,
         \A k \in Node : \/ conn'[k] = "closed"
                         \/ conn'[k] = conn[k] /\ m_tasks'[k] = m_tasks[k]
                         \/ conn[k] \in {"none", "connecting"} /\ m_tasks'[k] = {}
  PROVE  OutputInv'
<1>1. SourceGiven' /\ OutputSent' /\ OutputStored'
  BY DEF OutputInv, SourceGiven, OutputSent, OutputStored, fileVars
<1>2. SourceRead' /\ OutputWrittenBack'
  BY DEF OutputInv, SourceRead, OutputWrittenBack, fileVars, Host
<1> QED
  BY <1>1, <1>2 DEF OutputInv

\* The server takes packets from the queues and adds none.
LEMMA ServerQueues ==
  ASSUME FarmInv, NEW n \in Node, FilesServer(n), NEW k \in Node, NEW i \in DOMAIN toMaster'[k]
  PROVE  \E j \in DOMAIN toMaster[k] : toMaster'[k][i] = toMaster[k][j]
<1>1. CASE toMaster'[k] = toMaster[k]
  BY <1>1
<1>2. CASE toMaster[k] # <<>> /\ toMaster'[k] = Tail(toMaster[k])
  BY <1>2, EndOfQueue DEF FarmInv, TypeOK, NetTypeOK
<1>3. CASE toMaster'[k] = <<>>
  BY <1>3
<1> QED
  BY <1>1, <1>2, <1>3
     DEF FilesServer, Server, ServerNext, newClient, Server_onRecvFromNode, Server_doWork,
         onClientDisconnected, netVars, FarmInv, TypeOK, NetTypeOK

\* An output it stores is that of the packet it handles.
LEMMA StoredIsSent ==
  ASSUME FarmInv, NEW n \in Node, FilesServer(n), NEW t \in Stored
  PROVE  1 \in DOMAIN toMaster[n] /\ toMaster[n][1].id = t /\ Saves(toMaster[n][1])
<1>1. Server_onRecvFromNode(n)
  BY DEF FilesServer, Stored, Server, ServerNext, newClient, Server_doWork, onClientDisconnected
<1>2. PICK u \in Tasks \cup {NoId}, saved \in BOOLEAN :
        applyResultFromSlave(n, Head(toMaster[n]), Assigned(n, u), saved)
  BY <1>1 DEF Server_onRecvFromNode
<1> DEFINE packet == Head(toMaster[n])
<1>3. packet.id \in Tasks /\ output' = [output EXCEPT ![packet.id] = @ \/ (Saves(packet) /\ saved)]
  <2> HIDE DEF packet
  <2>1. ~UNCHANGED output
    BY DEF Stored
  <2>2. Applies(n, packet, Assigned(n, u))
    BY <1>2, <2>1, Zenon DEF applyResultFromSlave, packet
  <2>3. output' = [output EXCEPT ![packet.id] = @ \/ (Saves(packet) /\ saved)]
    BY <1>2, <2>2, Zenon DEF applyResultFromSlave, packet
  <2> QED
    BY <2>2, <2>3 DEF Applies
<1>4. t = packet.id /\ Saves(packet)
  <2> HIDE DEF packet
  <2>1. t \in Tasks /\ output \in [Tasks -> BOOLEAN] /\ output'[t] # output[t]
    BY DEF Stored, FarmInv, TypeOK, ServerTypeOK
  <2>2. t = packet.id
    BY <1>3, <2>1
  <2>3. output'[t] = (output[t] \/ (Saves(packet) /\ saved))
    BY <1>3, <2>1, <2>2
  <2> QED
    BY <2>2, <2>3 DEF Stored
<1>5. toMaster[n] # <<>>
  BY <1>1 DEF Server_onRecvFromNode
<1>6. 1 \in DOMAIN toMaster[n] /\ packet = toMaster[n][1]
  BY <1>5, EndOfQueue DEF FarmInv, TypeOK, NetTypeOK
<1> QED
  BY <1>4, <1>6

\* The console sends a source it has loaded and stores an output it has got.
LEMMA ServerKeepsOutputs ==
  ASSUME LoadFails = {}, FarmInv, FileTypeOK, OutputInv, NEW n \in Node, FilesServer(n)
  PROVE  OutputInv'
<1>1. /\ UNCHANGED <<disk, input, outputdata, conn, process, m_tasks>>
      /\ Server(n)
  BY DEF FilesServer, Server, ServerNext, newClient, Server_onRecvFromNode, Server_doWork,
         onClientDisconnected, netVars, clientVars
<1>2. SourceRead' /\ OutputWrittenBack'
  BY <1>1 DEF OutputInv, SourceRead, OutputWrittenBack, Host
<1>3. SourceGiven'
  <2> SUFFICES ASSUME NEW k \in Node, NEW t \in Tasks, m_node'[t] = k
               PROVE  inputdata'[k][t] = t
    BY DEF SourceGiven
  <2>1. inputdata' = [inputdata EXCEPT ![n] = [u \in Tasks |->
                        IF u \notin Given(n) THEN inputdata[n][u] ELSE u]]
    BY DEF FilesServer, LoadResults
  <2>2. CASE k = n
    <3>1. inputdata'[n][t] = IF t \notin Given(n) THEN inputdata[n][t] ELSE t
      BY <2>1 DEF FileTypeOK
    <3> QED
      BY <2>2, <3>1 DEF Given, OutputInv, SourceGiven
  <2>3. CASE k # n
    <3>1. m_node[t] = k
      <4>1. m_node'[t] \in {m_node[t], n, nullptr}
        <5>1. CASE Server_onRecvFromNode(n)
          <6>1. PICK u \in Tasks \cup {NoId}, saved \in BOOLEAN :
                  /\ sendTasksToSlave(n, Head(toMaster[n]).task_count, u)
                  /\ applyResultFromSlave(n, Head(toMaster[n]), Assigned(n, u), saved)
            BY <5>1 DEF Server_onRecvFromNode
          <6>2. n \in m_clients /\ toMaster[n] # <<>> /\ mainPc # "exited"
            BY <1>1, <5>1 DEF Server_onRecvFromNode, Server
          <6> QED
            BY <6>1, <6>2, RecvNodes DEF FarmInv
        <5>2. CASE newClient(n) \/ Server_doWork(n) \/ onClientDisconnected(n)
          BY <5>2 DEF newClient, Server_doWork, onClientDisconnected, Assigned, Freed
        <5> QED
          BY <1>1, <5>1, <5>2 DEF Server, ServerNext
      <4> QED
        BY <2>3, <4>1, NodeHost
    <3>2. inputdata'[k] = inputdata[k]
      BY <2>1, <2>3 DEF FileTypeOK
    <3> QED
      BY <3>1, <3>2 DEF OutputInv, SourceGiven
  <2> QED
    BY <2>2, <2>3
<1>4. OutputSent'
  <2> SUFFICES ASSUME NEW k \in Node, NEW i \in DOMAIN toMaster'[k],
                      toMaster'[k][i].id \in Tasks, Saves(toMaster'[k][i])
               PROVE  outputdata[k][toMaster'[k][i].id] = toMaster'[k][i].id
    BY <1>1 DEF OutputSent, Saves
  <2>1. \E j \in DOMAIN toMaster[k] : toMaster'[k][i] = toMaster[k][j]
    BY ServerQueues
  <2> QED
    BY <2>1 DEF OutputInv, OutputSent
<1>5. OutputStored'
  <2> SUFFICES ASSUME NEW t \in Tasks, output'[t] PROVE outputOf'[t] = t
    BY DEF OutputStored
  <2>1. outputOf'[t] = IF t \in Stored THEN outputdata[n][t] ELSE outputOf[t]
    BY DEF FilesServer
  <2>2. CASE t \notin Stored
    BY <2>1, <2>2 DEF Stored, OutputInv, OutputStored
  <2>3. CASE t \in Stored
    <3>1. 1 \in DOMAIN toMaster[n] /\ toMaster[n][1].id = t /\ Saves(toMaster[n][1])
      BY <2>3, StoredIsSent
    <3>2. outputdata[n][t] = t
      BY <3>1 DEF OutputInv, OutputSent
    <3> QED
      BY <2>1, <2>3, <3>2
  <2> QED
    BY <2>2, <2>3
<1> QED
  BY <1>2, <1>3, <1>4, <1>5 DEF OutputInv

\* The first packet of a session carries no output.
LEMMA ConnectKeepsOutputs ==
  ASSUME FarmInv, OutputInv, NEW n \in Node, Session(n), conn[n] = "connecting",
         UNCHANGED fileVars
  PROVE  OutputInv'
<1>1. onConnect(n) \/ ConnectFails(n)
  BY DEF Session, Client_onRecvFromNode, Client_doWork
<1>2. m_tasks[n] = {} /\ toMaster[n] = <<>>
  BY DEF FarmInv, LinkInv, LinkPhase
<1>3. UNCHANGED <<m_tasks, process, m_node, output>>
  BY <1>1 DEF Session, onConnect, ConnectFails, clientVars, serverVars
<1>4. CASE ConnectFails(n)
  BY <1>3, <1>4, OutputsKept DEF ConnectFails, Cut, fileVars
<1>5. CASE onConnect(n)
  <2>1. PICK c \in FreeCores : toMaster' = [toMaster EXCEPT ![n] = Append(@, InfoPacket(c))]
    BY <1>5 DEF onConnect
  <2>2. toMaster'[n] = <<InfoPacket(c)>> /\ \A k \in Node : k # n => toMaster'[k] = toMaster[k]
    BY <1>2, <2>1 DEF FarmInv, TypeOK, NetTypeOK
  <2>3. OutputSent'
    <3> SUFFICES ASSUME NEW k \in Node, NEW i \in DOMAIN toMaster'[k],
                        toMaster'[k][i].id \in Tasks, Saves(toMaster'[k][i])
                 PROVE  outputdata[k][toMaster'[k][i].id] = toMaster'[k][i].id
      BY DEF OutputSent, Saves, fileVars
    <3>1. k # n
      BY <2>2, TasksAreNaturals DEF InfoPacket
    <3> QED
      BY <2>2, <3>1 DEF OutputInv, OutputSent
  <2>4. SourceGiven' /\ OutputStored'
    BY <1>3 DEF OutputInv, SourceGiven, OutputStored, fileVars
  <2>5. conn' = [conn EXCEPT ![n] = "connected"]
    BY <1>5 DEF onConnect
  <2>6. SourceRead'
    BY <2>5 DEF OutputInv, SourceRead, fileVars, FarmInv, TypeOK, NetTypeOK
  <2>7. OutputWrittenBack'
    BY <1>2, <1>3, <2>5 DEF OutputInv, OutputWrittenBack, fileVars, Host, FarmInv, TypeOK, NetTypeOK
  <2> QED
    BY <2>3, <2>4, <2>6, <2>7 DEF OutputInv
<1> QED
  BY <1>1, <1>4, <1>5

\* A task that enters m_tasks has a process that has not exited.
LEMMA ReceiveKeepsOutputs ==
  ASSUME OwnFiles, MaxSessions = 1, FarmInv, FileTypeOK, OutputInv, NEW n \in Node,
         Session(n), FilesReceive(n)
  PROVE  OutputInv'
<1> DEFINE id == Head(toSlave[n]).id
<1>1. UNCHANGED <<inputdata, input, outputdata, outputOf, toMaster, m_node, output>>
  BY DEF FilesReceive, Client_onRecvFromNode, Session, serverVars
<1>2. SourceGiven' /\ OutputSent' /\ OutputStored'
  BY <1>1 DEF OutputInv, SourceGiven, OutputSent, OutputStored
<1>3. /\ conn[n] = "connected" /\ toSlave[n] # <<>>
      /\ \/ id # NoId /\ runTaskProcess(n, id) /\ UNCHANGED conn
         \/ Cut({n}) /\ UNCHANGED clientVars
  BY DEF FilesReceive, Client_onRecvFromNode, RefuseTask
<1>4. SourceRead'
  BY <1>1, <1>3 DEF OutputInv, SourceRead, Cut
<1>5. OutputWrittenBack'
  <2> SUFFICES ASSUME NEW k \in Node, NEW u \in Tasks, conn'[k] = "connected",
                      u \in m_tasks'[k], process'[k][u] = ExitedWith(0)
               PROVE  disk'[Host(k)][OutputFile[u]] = u
    BY DEF OutputWrittenBack, Host
  <2>1. conn[k] = "connected"
    BY <1>3 DEF Cut
  <2>2. u \in m_tasks[k] /\ process[k][u] = ExitedWith(0)
    <3>1. CASE Cut({n}) /\ UNCHANGED clientVars
      BY <3>1 DEF clientVars
    <3>2. CASE id # NoId /\ runTaskProcess(n, id)
      <4>1. PICK t \in Tasks, p \in {Running, FailedStart} :
              /\ process' = [process EXCEPT ![n][t] = p]
              /\ m_tasks' = [m_tasks EXCEPT ![n] = @ \cup {t}]
        BY <1>3, <3>2, RunStartsProcess DEF FarmInv
      <4>2. p # ExitedWith(0)
        BY DEF Running, FailedStart, ExitedWith, STILL_ACTIVE, StillRunning, NotStarted, Exited
      <4>3. ~(k = n /\ u = t)
        BY <4>1, <4>2 DEF FarmInv, TypeOK, ClientTypeOK
      <4> QED
        BY <4>1, <4>3 DEF FarmInv, TypeOK, ClientTypeOK
    <3> QED
      BY <1>3, <3>1, <3>2
  <2>3. disk[Host(k)][OutputFile[u]] = u
    BY <2>1, <2>2 DEF OutputInv, OutputWrittenBack
  <2>4. disk'[Host(k)][OutputFile[u]] = disk[Host(k)][OutputFile[u]]
    <3>1. Host(n) \in Daemons /\ Host(k) \in Daemons /\ OutputFile[u] \in File
      BY NodeHost, FilesAssumption
    <3>2. \/ UNCHANGED disk
          \/ id \in Tasks /\ \E content : disk' = [disk EXCEPT ![Host(n)][SourceFile[id]] = content]
      BY DEF FilesReceive, SaveSource
    <3>3. id \in Tasks => SourceFile[id] # OutputFile[u]
      BY DEF OwnFiles
    <3> HIDE DEF id
    <3> QED
      BY <3>1, <3>2, <3>3 DEF FileTypeOK
  <2> QED
    BY <2>3, <2>4
<1> QED
  BY <1>2, <1>4, <1>5 DEF OutputInv

\* doWork loads the output before it deletes the files.
LEMMA FinishKeepsOutputs ==
  ASSUME OwnFiles, MaxSessions = 1, LoadFails = {}, FarmInv, FileTypeOK, OutputInv,
         NEW n \in Node, NEW t \in Tasks, Session(n), FilesFinish(n, t)
  PROVE  OutputInv'
<1>1. UNCHANGED <<inputdata, input, outputOf, m_node, output, process>>
  BY DEF FilesFinish, Client_doWork, Session, serverVars
<1>2. SourceGiven' /\ OutputStored'
  BY <1>1 DEF OutputInv, SourceGiven, OutputStored
<1>3. /\ conn[n] = "connected" /\ t \in m_tasks[n]
      /\ \/ Cut({n}) /\ UNCHANGED m_tasks
         \/ m_tasks' = [m_tasks EXCEPT ![n] = Erased(n, t)] /\ UNCHANGED conn
  BY DEF FilesFinish, Client_doWork
<1>4. SourceRead'
  BY <1>1, <1>3 DEF OutputInv, SourceRead, Cut
<1>5. OutputWrittenBack'
  <2> SUFFICES ASSUME NEW k \in Node, NEW u \in Tasks, conn'[k] = "connected",
                      u \in m_tasks'[k], process'[k][u] = ExitedWith(0)
               PROVE  disk'[Host(k)][OutputFile[u]] = u
    BY DEF OutputWrittenBack, Host
  <2>1. /\ conn[k] = "connected" /\ u \in m_tasks[k]
        /\ m_tasks'[n] = m_tasks[n] \ {t} \/ k # n
    BY <1>3 DEF Cut, Erased, FarmInv, TypeOK, ClientTypeOK
  <2>2. disk[Host(k)][OutputFile[u]] = u
    BY <1>1, <2>1 DEF OutputInv, OutputWrittenBack
  <2>3. disk'[Host(k)][OutputFile[u]] = disk[Host(k)][OutputFile[u]]
    <3>1. Host(n) \in Daemons /\ Host(k) \in Daemons /\ OutputFile[u] \in File
      BY NodeHost, FilesAssumption
    <3>2. UNCHANGED disk \/ disk' = [disk EXCEPT ![Host(n)] = Cleared(Host(n), t)]
      BY DEF FilesFinish
    <3>3. CASE k # n
      BY <3>1, <3>2, <3>3, OneNodePerHost DEF FileTypeOK
    <3>4. CASE k = n
      <4>1. u # t
        BY <2>1, <3>4
      <4>2. OutputFile[u] # OutputFile[t] /\ OutputFile[u] # SourceFile[t]
        BY <4>1 DEF OwnFiles
      <4> QED
        BY <3>1, <3>2, <3>4, <4>2 DEF Cleared, FileTypeOK
    <3> QED
      BY <3>3, <3>4
  <2> QED
    BY <2>2, <2>3
<1>6. OutputSent'
  <2>1. PICK c \in FreeCores :
          toMaster' = [toMaster EXCEPT ![n] =
                         Append(@, ResultPacket(ReportedCores(n, c), t, process[n][t]))]
    BY DEF FilesFinish, Client_doWork
  <2> DEFINE p == ResultPacket(ReportedCores(n, c), t, process[n][t])
  <2>2. p \in SlavePacket /\ p.id = t
    BY ReportPacket DEF FarmInv
  <2>3. Saves(p) => process[n][t] = ExitedWith(0)
    <3>1. process[n][t] \in ProcessState
      BY DEF FarmInv, TypeOK, ClientTypeOK
    <3>2. Saves(p) => process[n][t].result = Exited /\ process[n][t].exit = 0
      BY DEF Saves, ResultPacket
    <3> QED
      BY <3>1, <3>2 DEF ProcessState, ExitedWith, STILL_ACTIVE
  <2>4. /\ toMaster[n] \in Seq(SlavePacket) /\ toMaster'[n] = Append(toMaster[n], p)
        /\ \A k \in Node : k # n => toMaster'[k] = toMaster[k]
    BY <2>1 DEF FarmInv, TypeOK, NetTypeOK
  <2> HIDE DEF p
  <2>5. outputdata' = [outputdata EXCEPT ![n][t] = TextOf(OutputToSend(n, t))]
    BY DEF FilesFinish, LoadResults
  <2>6. /\ \A k \in Node, u \in Tasks : k # n \/ u # t => outputdata'[k][u] = outputdata[k][u]
        /\ outputdata'[n][t] = TextOf(disk[Host(n)][OutputFile[t]])
    BY <2>5 DEF FileTypeOK, OutputToSend
  <2>7. process[n][t] = ExitedWith(0) => outputdata'[n][t] = t
    <3>1. process[n][t] = ExitedWith(0) => disk[Host(n)][OutputFile[t]] = t
      BY <1>3 DEF OutputInv, OutputWrittenBack
    <3> QED
      BY <2>6, <3>1, TaskContents
  <2>8. ~Mentions(toMaster[n], t)
    BY <1>3 DEF FarmInv, LinkInv, LinkTasks, InOnePlace, Elsewhere, Answered
  <2> SUFFICES ASSUME NEW k \in Node, NEW i \in DOMAIN toMaster'[k],
                      toMaster'[k][i].id \in Tasks, Saves(toMaster'[k][i])
               PROVE  outputdata'[k][toMaster'[k][i].id] = toMaster'[k][i].id
    BY DEF OutputSent, Saves
  <2>9. CASE k # n
    BY <2>4, <2>6, <2>9 DEF OutputInv, OutputSent
  <2>10. CASE k = n /\ i \in DOMAIN toMaster[n] /\ toMaster'[n][i] = toMaster[n][i]
    <3>1. toMaster[n][i].id # t
      BY <2>8, <2>10 DEF Mentions
    <3> QED
      BY <2>6, <2>10, <3>1 DEF OutputInv, OutputSent
  <2>11. CASE k = n /\ toMaster'[n][i] = p
    BY <2>2, <2>3, <2>7, <2>11
  <2>12. k = n => \/ i \in DOMAIN toMaster[n] /\ toMaster'[n][i] = toMaster[n][i]
                  \/ toMaster'[n][i] = p
    BY <2>2, <2>4, EndOfQueue
  <2> QED
    BY <2>9, <2>10, <2>11, <2>12
<1> QED
  BY <1>2, <1>4, <1>5, <1>6 DEF OutputInv

\* The build process writes what it has compiled from its own source.
LEMMA ProcessKeepsOutputs ==
  ASSUME OwnFiles, MaxSessions = 1, FarmInv, DiskInv, OutputInv, NEW n \in Node, NEW t \in Tasks,
         ProcessReads(n, t) \/ FilesProcess(n, t)
  PROVE  OutputInv'
<1>0. FileTypeOK /\ Host(n) \in Daemons /\ OutputFile[t] \in File
  BY NodeHost, FilesAssumption DEF DiskInv
<1>1. /\ UNCHANGED <<inputdata, outputdata, outputOf, m_node, output, toMaster, conn, m_tasks>>
      /\ isRunning(n, t)
  BY DEF ProcessReads, FilesProcess, Process, ProcessExits, vars, netVars, serverVars, clientVars
<1>2. SourceGiven' /\ OutputSent' /\ OutputStored'
  BY <1>1 DEF OutputInv, SourceGiven, OutputSent, OutputStored
<1>3. conn[n] \in {"connected", "closed"}
  BY <1>1 DEF FarmInv, StartInv, isRunning, NoProcess, NoInit, StillRunning
<1>4. SourceRead'
  <2> SUFFICES ASSUME NEW k \in Node, NEW u \in Tasks, conn[k] # "closed"
               PROVE  input'[k][u] \in {NoFile, u}
    BY <1>1 DEF SourceRead
  <2>1. input[k][u] \in {NoFile, u}
    BY DEF OutputInv, SourceRead
  <2>2. CASE ProcessReads(n, t)
    <3>1. input' = [input EXCEPT ![n][t] = disk[Host(n)][SourceFile[t]]]
      BY <2>2 DEF ProcessReads
    <3>2. CASE k = n /\ u = t
      <4>1. disk[Host(n)][SourceFile[t]] = t
        BY <1>1, <1>3, <3>2, OwnSourceOnDisk
      <4> QED
        BY <1>0, <3>1, <3>2, <4>1 DEF FileTypeOK
    <3>3. CASE ~(k = n /\ u = t)
      BY <1>0, <2>1, <3>1, <3>3 DEF FileTypeOK
    <3> QED
      BY <3>2, <3>3
  <2>3. CASE FilesProcess(n, t)
    BY <2>1, <2>3 DEF FilesProcess
  <2> QED
    BY <2>2, <2>3
<1>5. OutputWrittenBack'
  <2> SUFFICES ASSUME NEW k \in Node, NEW u \in Tasks, conn[k] = "connected",
                      u \in m_tasks[k], process'[k][u] = ExitedWith(0)
               PROVE  disk'[Host(k)][OutputFile[u]] = u
    BY <1>1 DEF OutputWrittenBack, Host
  <2>1. Host(k) \in Daemons /\ OutputFile[u] \in File
    BY NodeHost, FilesAssumption
  <2>2. \/ UNCHANGED disk
        \/ \E content : disk' = [disk EXCEPT ![Host(n)][OutputFile[t]] = content]
    BY DEF ProcessReads, FilesProcess
  <2>3. CASE ~(k = n /\ u = t)
    <3>1. process'[k][u] = process[k][u]
      BY <2>3 DEF ProcessReads, FilesProcess, Process, ProcessExits, vars, clientVars, FarmInv,
                  TypeOK, ClientTypeOK
    <3>2. disk[Host(k)][OutputFile[u]] = u
      BY <3>1 DEF OutputInv, OutputWrittenBack
    <3>3. Host(k) # Host(n) \/ OutputFile[u] # OutputFile[t]
      BY <2>3, OneNodePerHost DEF OwnFiles
    <3> QED
      BY <1>0, <2>1, <2>2, <3>2, <3>3 DEF FileTypeOK
  <2>4. CASE k = n /\ u = t
    <3>1. FilesProcess(n, t)
      <4>1. process[n][t] # ExitedWith(0)
        BY <1>1 DEF isRunning, ExitedWith, STILL_ACTIVE, StillRunning, Exited
      <4> QED
        BY <2>4, <4>1 DEF ProcessReads, vars, clientVars
    <3>2. /\ input[n][t] # NoFile
          /\ disk' = [disk EXCEPT ![Host(n)][OutputFile[t]] = input[n][t]]
      BY <2>4, <3>1 DEF FilesProcess
    <3>3. input[n][t] = t
      BY <2>4, <3>2 DEF OutputInv, SourceRead
    <3> QED
      BY <1>0, <2>4, <3>2, <3>3 DEF FileTypeOK
  <2> QED
    BY <2>3, <2>4
<1> QED
  BY <1>2, <1>4, <1>5 DEF OutputInv

LEMMA NextKeepsOutputs ==
  ASSUME OwnFiles, MaxSessions = 1, LoadFails = {}, FarmInv, DiskInv, OutputInv,
         [FilesNext]_<<vars, fileVars>>
  PROVE  OutputInv'
<1>0. FileTypeOK
  BY DEF DiskInv
<1>1. CASE Main /\ UNCHANGED fileVars
  BY <1>1, MainLinks, OutputsKept
<1>2. ASSUME NEW n \in Node, Network(n), UNCHANGED fileVars PROVE OutputInv'
  <2>1. Cut({n}) /\ UNCHANGED <<process, toMaster, m_node, output, m_tasks>>
    BY <1>2 DEF Network, ConnectionBreaks, ConnectFails, clientVars, serverVars
  <2> QED
    BY <1>2, <2>1, OutputsKept DEF Cut
<1>3. ASSUME NEW d \in Daemons, Udp(d), UNCHANGED fileVars PROVE OutputInv'
  <2>1. UNCHANGED <<process, toMaster, m_node, output>>
    BY <1>3 DEF Udp, UdpNext, DropInvitation, AcceptInvitation, Udp_doWork, SessionStarted,
                SessionOver, clientVars, netVars, serverVars
  <2> QED
    BY <1>3, <2>1, UdpLinks, OutputsKept
<1>4. CASE UNCHANGED <<vars, fileVars>>
  BY <1>4, OutputsKept DEF vars, netVars, serverVars, clientVars
<1> QED
  BY <1>0, <1>1, <1>2, <1>3, <1>4, ServerKeepsOutputs, ConnectKeepsOutputs, ReceiveKeepsOutputs,
     FinishKeepsOutputs, ProcessKeepsOutputs DEF FilesNext, FilesSession, Terminated

\* A task that counts as a success has its own, complete output at the console,
\* although the task may have been given to several daemons, connections fail
\* at any moment, and outputs are read, sent and deleted while other processes
\* run: no output of another task, no incomplete and no empty one.
THEOREM SuccessIsOwnOutputHolds ==
  ASSUME OwnFiles, MaxSessions = 1, LoadFails = {}
  PROVE  FilesSpec => []SuccessIsOwnOutput
<1>1. Init /\ FileInit => OutputInv
  BY NodeHost
     DEF Init, NetInit, ServerInit, ClientInit, FileInit, OutputInv, SourceGiven, SourceRead,
         OutputWrittenBack, OutputSent, OutputStored
<1>2. FarmInv /\ DiskInv /\ OutputInv /\ [FilesNext]_<<vars, fileVars>> => OutputInv'
  BY NextKeepsOutputs
<1>3. FarmInv /\ OutputInv => SuccessIsOwnOutput
  BY DEF FarmInv, RecordInv, SuccessMeansOutput, OutputInv, OutputStored, SuccessIsOwnOutput
<1> QED
  BY <1>1, <1>2, <1>3, FarmInvariant, DiskInvariant, PTL DEF FilesSpec

-----------------------------------------------------------------------------
(***************************************************************************)
(* Any number of sessions per daemon, and disks that fail.  Wherever there *)
(* is a file of a task or a text for one, it is the task's own or broken:  *)
(* processes of lost sessions still write, but to the files of their own   *)
(* tasks.  A result packet always comes with a text.                       *)
(***************************************************************************)
Own(t) == {NoFile, Broken, t}

OwnOnDisk ==
  \A d \in Daemons, t \in Tasks :
    disk[d][SourceFile[t]] \in Own(t) /\ disk[d][OutputFile[t]] \in Own(t)

OwnText ==
  /\ \A n \in Node, t \in Tasks :
       inputdata[n][t] \in Own(t) /\ input[n][t] \in Own(t) /\ outputdata[n][t] \in Own(t)
  /\ \A t \in Tasks : outputOf[t] \in Own(t)

SentWithText ==
  \A n \in Node : \A i \in DOMAIN toMaster[n] :
    toMaster[n][i].id \in Tasks => outputdata[n][toMaster[n][i].id] # NoFile

StoredWithText == \A t \in Tasks : output[t] => outputOf[t] # NoFile

OwnInv == FileTypeOK /\ OwnOnDisk /\ OwnText /\ SentWithText /\ StoredWithText

\* A step that writes one file, of the right task.
LEMMA OwnWrite ==
  ASSUME OwnFiles, FileTypeOK, OwnOnDisk, NEW d \in Daemons, NEW t \in Tasks, NEW f \in {SourceFile[t], OutputFile[t]},
         NEW content \in Own(t), disk' = [disk EXCEPT ![d][f] = content]
  PROVE  OwnOnDisk'
<1> SUFFICES ASSUME NEW e \in Daemons, NEW u \in Tasks, NEW g \in {SourceFile[u], OutputFile[u]}
             PROVE  disk'[e][g] \in Own(u)
  BY DEF OwnOnDisk, Own
<1>1. f \in File /\ g \in File
  BY FilesAssumption
<1>2. disk[e][g] \in Own(u)
  BY DEF OwnOnDisk
<1>3. f = g => t = u
  BY DEF OwnFiles
<1>4. disk'[e][g] = IF e = d /\ g = f THEN content ELSE disk[e][g]
  BY <1>1 DEF FileTypeOK
<1> QED
  BY <1>2, <1>3, <1>4

LEMMA OwnServer ==
  ASSUME FarmInv, OwnInv, NEW n \in Node, FilesServer(n)
  PROVE  OwnOnDisk' /\ OwnText' /\ SentWithText' /\ StoredWithText'
<1>1. UNCHANGED <<disk, input, outputdata>>
  BY DEF FilesServer
<1>2. OwnOnDisk'
  BY <1>1 DEF OwnInv, OwnOnDisk, Own
<1>3. SentWithText'
  <2> SUFFICES ASSUME NEW k \in Node, NEW i \in DOMAIN toMaster'[k], toMaster'[k][i].id \in Tasks
               PROVE  outputdata[k][toMaster'[k][i].id] # NoFile
    BY <1>1 DEF SentWithText
  <2> QED
    BY ServerQueues DEF OwnInv, SentWithText
<1>4. ASSUME NEW t \in Tasks
      PROVE  outputOf'[t] \in Own(t) /\ (output'[t] => outputOf'[t] # NoFile)
  <2>1. outputOf'[t] = IF t \in Stored THEN outputdata[n][t] ELSE outputOf[t]
    BY DEF FilesServer
  <2>2. CASE t \notin Stored
    BY <2>1, <2>2 DEF Stored, OwnInv, OwnText, StoredWithText
  <2>3. CASE t \in Stored
    <3>1. 1 \in DOMAIN toMaster[n] /\ toMaster[n][1].id = t
      BY <2>3, StoredIsSent
    <3> QED
      BY <2>1, <2>3, <3>1 DEF OwnInv, OwnText, SentWithText
  <2> QED
    BY <2>2, <2>3
<1>5. ASSUME NEW k \in Node, NEW t \in Tasks PROVE inputdata'[k][t] \in Own(t)
  <2>1. PICK loaded \in BOOLEAN :
          inputdata' = [inputdata EXCEPT ![n] = [u \in Tasks |->
            IF u \notin Given(n) THEN inputdata[n][u] ELSE IF loaded THEN u ELSE Broken]]
    BY DEF FilesServer, LoadResults
  <2>2. inputdata'[k][t] \in {inputdata[k][t], t, Broken}
    BY <2>1 DEF OwnInv, FileTypeOK
  <2> QED
    BY <2>2 DEF OwnInv, OwnText, Own
<1>6. OwnText'
  BY <1>1, <1>4, <1>5 DEF OwnInv, OwnText, Own
<1> QED
  BY <1>2, <1>3, <1>4, <1>6 DEF StoredWithText

LEMMA OwnReceive ==
  ASSUME OwnFiles, FarmInv, OwnInv, NEW n \in Node, Session(n), FilesReceive(n)
  PROVE  OwnOnDisk' /\ OwnText' /\ SentWithText' /\ StoredWithText'
<1>1. UNCHANGED <<inputdata, input, outputdata, outputOf, toMaster, output>>
  BY DEF FilesReceive, Client_onRecvFromNode, Session, serverVars
<1>2. OwnText' /\ SentWithText' /\ StoredWithText'
  BY <1>1 DEF OwnInv, OwnText, SentWithText, StoredWithText, Own
<1>3. \/ UNCHANGED disk
      \/ \E t \in Tasks : \/ disk' = [disk EXCEPT ![Host(n)][SourceFile[t]] = inputdata[n][t]]
                          \/ disk' = [disk EXCEPT ![Host(n)][SourceFile[t]] = Broken]
  BY Zenon DEF FilesReceive, SaveSource
<1>4. CASE UNCHANGED disk
  BY <1>2, <1>4 DEF OwnInv, OwnOnDisk, Own
<1>5. ASSUME NEW t \in Tasks, NEW content \in Own(t),
             disk' = [disk EXCEPT ![Host(n)][SourceFile[t]] = content]
      PROVE  OwnOnDisk'
  BY <1>5, NodeHost, OwnWrite DEF OwnInv
<1>6. \A t \in Tasks : inputdata[n][t] \in Own(t) /\ Broken \in Own(t)
  BY DEF OwnInv, OwnText, Own
<1> QED
  BY <1>2, <1>3, <1>4, <1>5, <1>6

LEMMA OwnFinish ==
  ASSUME OwnFiles, FarmInv, OwnInv, NEW n \in Node, NEW t \in Tasks, Session(n), FilesFinish(n, t)
  PROVE  OwnOnDisk' /\ OwnText' /\ SentWithText' /\ StoredWithText'
<1>0. Host(n) \in Daemons
  BY NodeHost
<1>1. UNCHANGED <<inputdata, input, outputOf, output>>
  BY DEF FilesFinish, Client_doWork, Session, serverVars
<1>2. OwnOnDisk'
  <2>1. UNCHANGED disk \/ disk' = [disk EXCEPT ![Host(n)] = Cleared(Host(n), t)]
    BY DEF FilesFinish
  <2>2. \A d \in Daemons, f \in File : disk'[d][f] \in {disk[d][f], NoFile}
    BY <1>0, <2>1 DEF Cleared, OwnInv, FileTypeOK
  <2>3. \A u \in Tasks : SourceFile[u] \in File /\ OutputFile[u] \in File
    BY FilesAssumption
  <2> QED
    BY <2>2, <2>3 DEF OwnInv, OwnOnDisk, Own
<1>3. /\ outputdata'[n][t] \in {Broken, t}
      /\ \A k \in Node, u \in Tasks : k # n \/ u # t => outputdata'[k][u] = outputdata[k][u]
  <2>1. PICK loaded \in BOOLEAN :
          outputdata' = [outputdata EXCEPT ![n][t] = IF loaded THEN TextOf(OutputToSend(n, t)) ELSE Broken]
    BY DEF FilesFinish, LoadResults
  <2>2. TextOf(OutputToSend(n, t)) \in {Broken, t}
    BY <1>0 DEF OutputToSend, TextOf, OwnInv, OwnOnDisk, Own
  <2> QED
    BY <2>1, <2>2 DEF OwnInv, FileTypeOK
<1>4. OwnText'
  BY <1>1, <1>3 DEF OwnInv, OwnText, Own
<1>5. \A k \in Node, u \in Tasks : outputdata[k][u] # NoFile => outputdata'[k][u] # NoFile
  BY <1>3, TaskContents
<1>6. SentWithText'
  <2>1. PICK c \in FreeCores :
          toMaster' = [toMaster EXCEPT ![n] =
                         Append(@, ResultPacket(ReportedCores(n, c), t, process[n][t]))]
    BY DEF FilesFinish, Client_doWork
  <2> DEFINE p == ResultPacket(ReportedCores(n, c), t, process[n][t])
  <2>2. p \in SlavePacket /\ p.id = t
    BY ReportPacket DEF FarmInv
  <2>3. /\ toMaster[n] \in Seq(SlavePacket) /\ toMaster'[n] = Append(toMaster[n], p)
        /\ \A k \in Node : k # n => toMaster'[k] = toMaster[k]
    BY <2>1 DEF FarmInv, TypeOK, NetTypeOK
  <2> HIDE DEF p
  <2> SUFFICES ASSUME NEW k \in Node, NEW i \in DOMAIN toMaster'[k], toMaster'[k][i].id \in Tasks
               PROVE  outputdata'[k][toMaster'[k][i].id] # NoFile
    BY DEF SentWithText
  <2>4. CASE i \in DOMAIN toMaster[k] /\ toMaster'[k][i] = toMaster[k][i]
    BY <1>5, <2>4 DEF OwnInv, SentWithText
  <2>5. CASE k = n /\ toMaster'[n][i] = p
    BY <1>3, <2>2, <2>5, TaskContents
  <2>6. k = n => \/ i \in DOMAIN toMaster[n] /\ toMaster'[n][i] = toMaster[n][i]
                 \/ toMaster'[n][i] = p
    BY <2>2, <2>3, EndOfQueue
  <2> QED
    BY <2>3, <2>4, <2>5, <2>6
<1>7. StoredWithText'
  BY <1>1 DEF OwnInv, StoredWithText
<1> QED
  BY <1>2, <1>4, <1>6, <1>7

LEMMA OwnProcess ==
  ASSUME OwnFiles, FarmInv, OwnInv, NEW n \in Node, NEW t \in Tasks, ProcessReads(n, t) \/ FilesProcess(n, t)
  PROVE  OwnOnDisk' /\ OwnText' /\ SentWithText' /\ StoredWithText'
<1>0. Host(n) \in Daemons /\ SourceFile[t] \in File
  BY NodeHost, FilesAssumption
<1>1. UNCHANGED <<inputdata, outputdata, outputOf, output, toMaster>>
  BY DEF ProcessReads, FilesProcess, Process, ProcessExits, vars, netVars, serverVars
<1>2. SentWithText' /\ StoredWithText'
  BY <1>1 DEF OwnInv, SentWithText, StoredWithText
<1>3. \A k \in Node, u \in Tasks : input'[k][u] \in Own(u)
  <2>1. CASE ProcessReads(n, t)
    <3>1. input' = [input EXCEPT ![n][t] = disk[Host(n)][SourceFile[t]]]
      BY <2>1 DEF ProcessReads
    <3>2. disk[Host(n)][SourceFile[t]] \in Own(t) /\ \A k \in Node, u \in Tasks : input[k][u] \in Own(u)
      BY <1>0 DEF OwnInv, OwnOnDisk, OwnText
    <3> QED
      BY <3>1, <3>2 DEF OwnInv, FileTypeOK
  <2>2. CASE FilesProcess(n, t)
    BY <2>2 DEF FilesProcess, OwnInv, OwnText
  <2> QED
    BY <2>1, <2>2
<1>4. OwnText'
  BY <1>1, <1>3 DEF OwnInv, OwnText, Own
<1>5. OwnOnDisk'
  <2>1. \/ UNCHANGED disk
        \/ disk' = [disk EXCEPT ![Host(n)][OutputFile[t]] = Broken]
        \/ disk' = [disk EXCEPT ![Host(n)][OutputFile[t]] = input[n][t]]
    BY DEF ProcessReads, FilesProcess
  <2>2. Broken \in Own(t) /\ input[n][t] \in Own(t)
    BY DEF OwnInv, OwnText, Own
  <2>3. CASE UNCHANGED disk
    BY <2>3 DEF OwnInv, OwnOnDisk, Own
  <2>4. ASSUME NEW content \in Own(t), disk' = [disk EXCEPT ![Host(n)][OutputFile[t]] = content]
        PROVE  OwnOnDisk'
    BY <1>0, <2>4, OwnWrite DEF OwnInv
  <2> QED
    BY <2>1, <2>2, <2>3, <2>4
<1> QED
  BY <1>2, <1>4, <1>5

\* A step without effect on files; a session's first packet has no result.
LEMMA OwnKept ==
  ASSUME OwnInv, UNCHANGED fileVars, UNCHANGED output,
         \A k \in Node : \A i \in DOMAIN toMaster'[k] :
           toMaster'[k][i].id \in Tasks => i \in DOMAIN toMaster[k] /\ toMaster'[k][i] = toMaster[k][i]
  PROVE  OwnOnDisk' /\ OwnText' /\ SentWithText' /\ StoredWithText'
<1>1. OwnOnDisk' /\ StoredWithText'
  BY DEF OwnInv, OwnOnDisk, StoredWithText, fileVars, Own
<1>2. OwnText'
  BY DEF OwnInv, OwnText, fileVars, Own
<1>3. SentWithText'
  <2> SUFFICES ASSUME NEW k \in Node, NEW i \in DOMAIN toMaster'[k], toMaster'[k][i].id \in Tasks
               PROVE  outputdata'[k][toMaster'[k][i].id] # NoFile
    BY DEF SentWithText
  <2> QED
    BY DEF OwnInv, SentWithText, fileVars
<1> QED
  BY <1>1, <1>2, <1>3

LEMMA NextKeepsOwn ==
  ASSUME OwnFiles, FarmInv, OwnInv, [FilesNext]_<<vars, fileVars>>
  PROVE  OwnInv'
<1>0. FileTypeOK'
  BY FileTypes DEF FarmInv, OwnInv
<1> SUFFICES OwnOnDisk' /\ OwnText' /\ SentWithText' /\ StoredWithText'
  BY <1>0 DEF OwnInv
<1> DEFINE Goal == OwnOnDisk' /\ OwnText' /\ SentWithText' /\ StoredWithText'
<1>1. ASSUME UNCHANGED <<toMaster, output>>, UNCHANGED fileVars PROVE Goal
  BY <1>1, OwnKept
<1>2. CASE Main /\ UNCHANGED fileVars
  BY <1>1, <1>2, MainLinks
<1>3. ASSUME NEW n \in Node, Network(n), UNCHANGED fileVars PROVE Goal
  BY <1>1, <1>3 DEF Network, ConnectionBreaks, ConnectFails, Cut, clientVars, serverVars
<1>4. ASSUME NEW d \in Daemons, Udp(d), UNCHANGED fileVars PROVE Goal
  BY <1>1, <1>4 DEF Udp, UdpNext, DropInvitation, AcceptInvitation, Udp_doWork, SessionStarted,
                    SessionOver, clientVars, netVars, serverVars
<1>5. ASSUME NEW n \in Node, Session(n), conn[n] = "connecting", UNCHANGED fileVars PROVE Goal
  <2>1. (onConnect(n) \/ ConnectFails(n)) /\ UNCHANGED output
    BY <1>5 DEF Session, Client_onRecvFromNode, Client_doWork, serverVars
  <2>2. CASE ConnectFails(n)
    BY <1>1, <1>5, <2>1, <2>2 DEF ConnectFails, Cut
  <2>3. CASE onConnect(n)
    <3>1. PICK c \in FreeCores : toMaster' = [toMaster EXCEPT ![n] = Append(@, InfoPacket(c))]
      BY <2>3 DEF onConnect
    <3>2. toMaster[n] = <<>>
      BY <1>5 DEF FarmInv, LinkInv, LinkPhase
    <3>3. toMaster'[n] = <<InfoPacket(c)>> /\ \A k \in Node : k # n => toMaster'[k] = toMaster[k]
      BY <3>1, <3>2 DEF FarmInv, TypeOK, NetTypeOK
    <3>4. ASSUME NEW k \in Node, NEW i \in DOMAIN toMaster'[k], toMaster'[k][i].id \in Tasks
          PROVE  i \in DOMAIN toMaster[k] /\ toMaster'[k][i] = toMaster[k][i]
      <4>1. k # n
        BY <3>3, <3>4, TasksAreNaturals DEF InfoPacket
      <4> QED
        BY <3>3, <3>4, <4>1
    <3> QED
      BY <1>5, <2>1, <3>4, OwnKept
  <2> QED
    BY <2>1, <2>2, <2>3
<1>6. CASE UNCHANGED <<vars, fileVars>>
  BY <1>1, <1>6 DEF vars, netVars, serverVars
<1> QED
  BY <1>2, <1>3, <1>4, <1>5, <1>6, OwnServer, OwnReceive, OwnFinish, OwnProcess
     DEF FilesNext, FilesSession, Terminated

\* However many sessions a daemon has had, whatever processes of lost sessions
\* still run, and also when sources or outputs cannot be loaded: the output the
\* console has saved for a successful task is the one a daemon sent for that task,
\* complete or broken, and never that of another task.
THEOREM SuccessIsNoOthersOutputHolds ==
  ASSUME OwnFiles
  PROVE  FilesSpec => []SuccessIsNoOthersOutput
<1>1. Init /\ FileInit => OwnInv
  <2> SUFFICES ASSUME Init, FileInit PROVE OwnInv
    OBVIOUS
  <2>1. FileTypeOK /\ OwnOnDisk /\ OwnText
    BY FilesAssumption, NodeHost, TaskContents DEF FileInit, FileTypeOK, OwnOnDisk, OwnText, Own
  <2>2. SentWithText /\ StoredWithText
    BY DEF Init, NetInit, ServerInit, SentWithText, StoredWithText
  <2> QED
    BY <2>1, <2>2 DEF OwnInv
<1>2. FarmInv /\ OwnInv /\ [FilesNext]_<<vars, fileVars>> => OwnInv'
  BY NextKeepsOwn
<1>3. FarmInv /\ OwnInv => SuccessIsNoOthersOutput
  BY DEF FarmInv, RecordInv, SuccessMeansOutput, OwnInv, OwnText, StoredWithText, Own,
         SuccessIsNoOthersOutput
<1> QED
  BY <1>1, <1>2, <1>3, FarmInvariant, PTL DEF FilesSpec
==============================================================================
