------------------------- MODULE TcpProtobufServer -------------------------
(***************************************************************************)
(* The console's task server: the table of TaskInfo records and the        *)
(* callbacks TcpProtobufServer overrides.  The library's server thread     *)
(* calls them one at a time.  The main thread shares the records with it;  *)
(* both lock a record's m_mutex around each visit, and the main thread     *)
(* writes no field these handlers read, so a handler that visits several   *)
(* records is one action.                                                  *)
(***************************************************************************)
EXTENDS FdbProtocol

VARIABLES
  m_node,       \* m_node[t]: the client task t was sent to
  m_result,     \* m_result[t]: how the process of task t ended
  m_exitCode,   \* m_exitCode[t]: its exit code, or the error of saving its output
  m_doneIp,     \* m_doneIp[t]: who returned the result, until main has counted it
  output,       \* output[t]: whether the output file of task t was saved
  m_freeCores,  \* m_freeCores[n]: tasks the console may still send to client n
  peer          \* peer[n]: whether the console has a TcpProtobufNode for n

serverVars == <<m_node, m_result, m_exitCode, m_doneIp, output, m_freeCores, peer>>

m_clients == {n \in Node : peer[n] = "client"}

SaveError == 1   \* any result of su::fs::save other than OK

ServerTypeOK ==
  /\ m_node \in [Tasks -> Node \cup {nullptr}]
  /\ m_result \in [Tasks -> ExitCodeResult]
  /\ m_exitCode \in [Tasks -> Int]
  /\ m_doneIp \in [Tasks -> Node \cup {nullptr}]
  /\ output \in [Tasks -> BOOLEAN]
  /\ m_freeCores \in [Node -> Int]
  /\ peer \in [Node -> {"unseen", "client", "deleted"}]

ServerInit ==
  /\ m_node = [t \in Tasks |-> nullptr]
  /\ m_result = [t \in Tasks |-> NoInit]
  /\ m_exitCode = [t \in Tasks |-> 0]
  /\ m_doneIp = [t \in Tasks |-> nullptr]
  /\ output = [t \in Tasks |-> FALSE]
  /\ m_freeCores = [n \in Node |-> 0]
  /\ peer = [n \in Node |-> "unseen"]

-----------------------------------------------------------------------------
(***************************************************************************)
(* sendTasksToSlave sends at most one task: the first record that has      *)
(* neither a node nor a result.                                            *)
(***************************************************************************)
\* Mutants of IsFree: one half of the test is missing.
IsFree_IgnoresResult(t) == m_node[t] = nullptr
IsFree_IgnoresNode(t)   == m_result[t] = NoInit

IsFree(t) == m_node[t] = nullptr /\ m_result[t] = NoInit

\* With `credit' free cores on record, the loop ends at record t, or at none.
Picks(credit, t) ==
  \/ /\ t \in Tasks
     /\ credit > 0
     /\ IsFree(t)
     /\ \A u \in 1 .. (t - 1) : ~IsFree(u)
  \/ /\ t = NoId
     /\ credit <= 0 \/ \A u \in Tasks : ~IsFree(u)

\* m_node after task t (if any) has been given to n.
Assigned(n, t) == [u \in Tasks |-> IF u = t THEN n ELSE m_node[u]]

sendTasksToSlave(n, credit, t) ==
  /\ Picks(credit, t)
  /\ m_freeCores' = [m_freeCores EXCEPT ![n] = IF t = NoId THEN credit ELSE credit - 1]
  /\ toSlave' = IF t = NoId THEN toSlave ELSE SentToSlaves({n}, TaskPacket(t))

-----------------------------------------------------------------------------
(***************************************************************************)
(* applyResultFromSlave: `nodes' is m_node as the preceding                *)
(* sendTasksToSlave left it.  A result is taken only from the client the   *)
(* task is assigned to; any other is logged and dropped.  The output is    *)
(* saved when the process exited with code 0 (the daemon always sets the   *)
(* outputData field), and a failure to save becomes the task's exit code.  *)
(***************************************************************************)
Applies(n, r, nodes) == r.id \in Tasks /\ nodes[r.id] = n

\* Mutant of Saves: the exit code of the process is not looked at.
Saves_AnyExitCode(r) == r.process_code = Exited

Saves(r) == r.exit_code = 0 /\ r.process_code = Exited

applyResultFromSlave(n, r, nodes, saved) ==
  IF Applies(n, r, nodes)
  THEN /\ m_node' = [nodes EXCEPT ![r.id] = nullptr]
       /\ m_result' = [m_result EXCEPT ![r.id] = r.process_code]
       /\ m_exitCode' = [m_exitCode EXCEPT ![r.id] =
                            IF Saves(r) /\ ~saved THEN SaveError ELSE r.exit_code]
       /\ m_doneIp' = [m_doneIp EXCEPT ![r.id] = n]
       /\ output' = [output EXCEPT ![r.id] = @ \/ (Saves(r) /\ saved)]
  ELSE /\ m_node' = nodes
       /\ UNCHANGED <<m_result, m_exitCode, m_doneIp, output>>

-----------------------------------------------------------------------------
\* The library accepts an established connection, also one that was cut
\* meanwhile, and newClient makes its node.  The daemon sends its first packet
\* in onConnect, so a connection was established when that packet is there.
newClient(n) ==
  /\ toMaster[n] # <<>>
  /\ peer[n] = "unseen"
  /\ peer' = [peer EXCEPT ![n] = "client"]
  /\ m_freeCores' = [m_freeCores EXCEPT ![n] = 0]
  /\ UNCHANGED <<m_node, m_result, m_exitCode, m_doneIp, output, netVars>>

\* One packet of onRecvFromNode's loop: the info first (and a task in answer
\* to it), then the result.
Server_onRecvFromNode(n) ==
  /\ n \in m_clients
  /\ toMaster[n] # <<>>
  /\ \E t \in Tasks \cup {NoId}, saved \in BOOLEAN :
       LET packet == Head(toMaster[n])
       IN  /\ sendTasksToSlave(n, packet.task_count, t)
           /\ applyResultFromSlave(n, packet, Assigned(n, t), saved)
  /\ toMaster' = [toMaster EXCEPT ![n] = Tail(@)]
  /\ UNCHANGED <<conn, peer>>

\* Mutant of Server_doWork: tasks are only sent in answer to a packet.
Server_doWork_Idle(n) ==
  n \in m_clients /\ FALSE /\ UNCHANGED <<serverVars, netVars>>

\* doWork's loop over m_clients, for a client it sends a task to.
Server_doWork(n) ==
  /\ n \in m_clients
  /\ \E t \in Tasks :
       /\ sendTasksToSlave(n, m_freeCores[n], t)
       /\ m_node' = Assigned(n, t)
  /\ UNCHANGED <<m_result, m_exitCode, m_doneIp, output, peer, conn, toMaster>>

\* m_node after every task of n has been freed.  Mutants: only the first is; none is.
Freed_FirstOnly(n) ==
  [t \in Tasks |-> IF m_node[t] = n /\ \A u \in 1 .. (t - 1) : m_node[u] # n
                   THEN nullptr ELSE m_node[t]]
Freed_None(n) == [t \in Tasks |-> m_node[t]]
Freed(n)      == [t \in Tasks |-> IF m_node[t] = n THEN nullptr ELSE m_node[t]]

\* The library notices that the connection is gone and deletes the node;
\* packets it had not handed over by then are lost.
onClientDisconnected(n) ==
  /\ n \in m_clients
  /\ conn[n] = "closed"
  /\ m_node' = Freed(n)
  /\ peer' = [peer EXCEPT ![n] = "deleted"]
  /\ toMaster' = [toMaster EXCEPT ![n] = <<>>]
  /\ UNCHANGED <<m_result, m_exitCode, m_doneIp, output, m_freeCores, conn, toSlave>>

\* What the server thread does for one connection.
ServerNext(n) ==
  newClient(n) \/ Server_onRecvFromNode(n) \/ Server_doWork(n) \/ onClientDisconnected(n)

\* Called by the main thread, under the library's mutex for m_clients.
closeAllClients ==
  /\ toSlave' = SentToSlaves(m_clients, ClosePacket)
  /\ UNCHANGED <<serverVars, conn, toMaster>>
=============================================================================
