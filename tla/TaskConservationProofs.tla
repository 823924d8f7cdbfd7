----------------------- MODULE TaskConservationProofs -----------------------
(***************************************************************************)
(* Console and daemons agree on who has which task, and therefore the      *)
(* console implements the task board: proofs for all instances.            *)
(***************************************************************************)
EXTENDS BuildFarmProofs

-----------------------------------------------------------------------------
(***************************************************************************)
(* Queues, seen through Mentions and OncePerTask.                          *)
(***************************************************************************)

\* A result: the process was not started or it has ended.
Final == {NotStarted, Exited}

\* Every result in the queue is final.
Genuine(queue) ==
  \A i \in DOMAIN queue : queue[i].id # NoId => queue[i].process_code \in Final

\* An empty queue mentions nothing.
LEMMA EmptyQueue ==
  /\ OncePerTask(<<>>) /\ Genuine(<<>>)
  /\ \A t : ~Mentions(<<>>, t)
BY DEF OncePerTask, Genuine, Mentions

\* Appending a packet about a task the queue does not mention, or about none.
LEMMA AppendQueue ==
  ASSUME NEW S, NEW queue \in Seq(S), NEW p \in S
  PROVE  /\ \A t : Mentions(Append(queue, p), t) <=> Mentions(queue, t) \/ p.id = t
         /\ OncePerTask(queue) /\ (p.id = NoId \/ ~Mentions(queue, p.id)) =>
              OncePerTask(Append(queue, p))
         /\ Genuine(queue) /\ (p.id = NoId \/ p.process_code \in Final) =>
              Genuine(Append(queue, p))
<1> DEFINE q == Append(queue, p)
<1>1. /\ Len(queue) \in Nat /\ DOMAIN queue = 1 .. Len(queue)
      /\ DOMAIN q = 1 .. (Len(queue) + 1)
      /\ \A i \in DOMAIN queue : i \in DOMAIN q /\ q[i] = queue[i]
      /\ Len(queue) + 1 \in DOMAIN q /\ q[Len(queue) + 1] = p
  BY AppendProperties, LenProperties
<1>2. \A i \in DOMAIN q : i \in DOMAIN queue \/ i = Len(queue) + 1
  BY <1>1
<1> HIDE DEF q
<1>3. \A t : Mentions(q, t) <=> Mentions(queue, t) \/ p.id = t
  BY <1>1, <1>2 DEF Mentions
<1>4. ASSUME OncePerTask(queue), p.id = NoId \/ ~Mentions(queue, p.id)
      PROVE  OncePerTask(q)
  <2> SUFFICES ASSUME NEW i \in DOMAIN q, NEW j \in DOMAIN q,
                      q[i].id = q[j].id, q[i].id # NoId
               PROVE  i = j
    BY DEF OncePerTask
  <2>1. CASE i \in DOMAIN queue /\ j \in DOMAIN queue
    BY <1>1, <1>4, <2>1 DEF OncePerTask
  <2>2. CASE i \in DOMAIN queue /\ j = Len(queue) + 1
    BY <1>1, <1>4, <2>2 DEF Mentions
  <2>3. CASE i = Len(queue) + 1 /\ j \in DOMAIN queue
    BY <1>1, <1>4, <2>3 DEF Mentions
  <2> QED
    BY <1>2, <2>1, <2>2, <2>3
<1>5. ASSUME Genuine(queue), p.id = NoId \/ p.process_code \in Final
      PROVE  Genuine(q)
  BY <1>1, <1>2, <1>5 DEF Genuine
<1> QED
  BY <1>3, <1>4, <1>5 DEF q

\* Taking the first packet off the queue.
LEMMA TailQueue ==
  ASSUME NEW S, NEW queue \in Seq(S), queue # <<>>
  PROVE  /\ Mentions(queue, Head(queue).id)
         /\ \A t : Mentions(Tail(queue), t) => Mentions(queue, t)
         /\ \A t : Mentions(queue, t) => Mentions(Tail(queue), t) \/ t = Head(queue).id
         /\ OncePerTask(queue) => OncePerTask(Tail(queue))
         /\ OncePerTask(queue) /\ Head(queue).id # NoId => ~Mentions(Tail(queue), Head(queue).id)
         /\ Genuine(queue) => Genuine(Tail(queue))
         /\ Genuine(queue) /\ Head(queue).id # NoId => Head(queue).process_code \in Final
<1> DEFINE q == Tail(queue)
<1>1. /\ Len(queue) \in Nat \ {0} /\ DOMAIN queue = 1 .. Len(queue)
      /\ Head(queue) = queue[1]
      /\ DOMAIN q = 1 .. (Len(queue) - 1)
      /\ \A i \in DOMAIN q : i + 1 \in DOMAIN queue /\ q[i] = queue[i + 1]
  BY HeadTailProperties, LenProperties, EmptySeq
<1>2. 1 \in DOMAIN queue /\ \A i \in DOMAIN queue : i = 1 \/ (i - 1 \in DOMAIN q /\ q[i - 1] = queue[i])
  BY <1>1
<1>3. \A i \in DOMAIN q : i \in Int /\ i >= 1
  BY <1>1
<1> HIDE DEF q
<1>4. Mentions(queue, Head(queue).id)
  BY <1>1, <1>2 DEF Mentions
<1>5. \A t : Mentions(q, t) => Mentions(queue, t)
  BY <1>1 DEF Mentions
<1>6. \A t : Mentions(queue, t) => Mentions(q, t) \/ t = Head(queue).id
  BY <1>1, <1>2 DEF Mentions
<1>7. OncePerTask(queue) => OncePerTask(q)
  BY <1>1, <1>3 DEF OncePerTask
<1>8. OncePerTask(queue) /\ Head(queue).id # NoId => ~Mentions(q, Head(queue).id)
  BY <1>1, <1>2, <1>3 DEF OncePerTask, Mentions
<1>9. Genuine(queue) => Genuine(q)
  BY <1>1 DEF Genuine
<1>10. Genuine(queue) /\ Head(queue).id # NoId => Head(queue).process_code \in Final
  BY <1>1, <1>2 DEF Genuine
<1> QED
  BY <1>4, <1>5, <1>6, <1>7, <1>8, <1>9, <1>10 DEF q

-----------------------------------------------------------------------------
(***************************************************************************)
(* The invariant, one connection at a time.  Besides what TasksConserved   *)
(* says it follows a connection through its life: nothing is on it before  *)
(* it is established, no task before the console accepts it, nothing to    *)
(* the daemon once it is closed; and it knows that a task of the daemon    *)
(* has a process, so that a result is one.                                 *)
(***************************************************************************)
Elsewhere(n, t) == ~OnWire(n, t) /\ t \notin m_tasks[n] /\ ~Answered(n, t)

LinkPhase(n) ==
  /\ conn[n] \in {"none", "connecting"} => peer[n] = "unseen" /\ toMaster[n] = <<>>
  /\ peer[n] = "unseen" =>
       /\ toSlave[n] = <<>> /\ m_tasks[n] = {}
       /\ \A t \in Tasks : ~Answered(n, t)
  /\ peer[n] = "deleted" => conn[n] = "closed"
  /\ conn[n] = "closed" => toSlave[n] = <<>>

LinkTasks(n) ==
  /\ OncePerTask(toSlave[n]) /\ OncePerTask(toMaster[n]) /\ Genuine(toMaster[n])
  /\ \A t \in m_tasks[n] : process[n][t].result # NoInit
  /\ \A t \in Tasks :
       /\ conn[n] = "connected" => IF m_node[t] = n THEN InOnePlace(n, t) ELSE Elsewhere(n, t)
       /\ Answered(n, t) => m_node[t] = n \/ mainPc = "exited"

LinkInv == \A n \in Node : LinkPhase(n) /\ LinkTasks(n)

\* A step that does not touch connection k.
LEMMA LinkUntouched ==
  ASSUME NEW k \in Node, LinkPhase(k), LinkTasks(k),
         conn'[k] = conn[k], toMaster'[k] = toMaster[k], toSlave'[k] = toSlave[k],
         m_tasks'[k] = m_tasks[k], process'[k] = process[k], peer'[k] = peer[k],
         \A t \in Tasks : (m_node'[t] = k) <=> (m_node[t] = k),
         mainPc = "exited" => mainPc' = "exited"
  PROVE  LinkPhase(k)' /\ LinkTasks(k)'
BY DEF LinkPhase, LinkTasks, InOnePlace, Elsewhere, OnWire, Answered

\* A step that closes connection k and loses what the daemon had not read.
LEMMA LinkClosed ==
  ASSUME NEW k \in Node, LinkPhase(k), LinkTasks(k),
         conn'[k] = "closed", toMaster'[k] = toMaster[k], toSlave'[k] = <<>>,
         m_tasks'[k] = m_tasks[k], process'[k] = process[k], peer'[k] = peer[k],
         \A t \in Tasks : (m_node'[t] = k) <=> (m_node[t] = k),
         mainPc = "exited" => mainPc' = "exited"
  PROVE  LinkPhase(k)' /\ LinkTasks(k)'
BY EmptyQueue DEF LinkPhase, LinkTasks, OnWire, Answered

\* Cut, when it changes nothing else.
LEMMA CutKeepsLinks ==
  ASSUME TypeOK, LinkInv, NEW ns \in SUBSET Node, Cut(ns),
         UNCHANGED <<toMaster, m_tasks, process, peer, m_node>>,
         mainPc = "exited" => mainPc' = "exited"
  PROVE  LinkInv'
<1> SUFFICES ASSUME NEW k \in Node PROVE LinkPhase(k)' /\ LinkTasks(k)'
  BY DEF LinkInv
<1>1. CASE k \in ns
  BY <1>1, LinkClosed DEF Cut, LinkInv
<1>2. CASE k \notin ns
  BY <1>2, LinkUntouched DEF Cut, LinkInv
<1> QED
  BY <1>1, <1>2

\* Main changes connections only by closing them and by the close command,
\* which is about no task.
LEMMA MainKeepsLinks ==
  ASSUME TypeOK, LinkInv, Main
  PROVE  LinkInv'
<1> USE DEF Main, clientVars, serverVars, netVars
<1> DEFINE Still == UNCHANGED <<conn, toMaster, toSlave, m_tasks, process, peer, m_node>>
                    /\ (mainPc = "exited" => mainPc' = "exited")
<1>0. Still => LinkInv'
  BY LinkUntouched DEF LinkInv
<1>1. CASE sendBroadcast
  BY <1>0, <1>1 DEF sendBroadcast
<1>2. CASE BroadcastFails
  BY <1>0, <1>2 DEF BroadcastFails
<1>3. CASE CheckClients
  BY <1>0, <1>3 DEF CheckClients
<1>4. ASSUME NEW t \in Tasks, ScanTask(t) PROVE LinkInv'
  BY <1>0, <1>4 DEF ScanTask
<1>5. CASE EndOfPass
  BY <1>0, <1>5 DEF EndOfPass
<1>6. CASE CloseAllClients
  <2> SUFFICES ASSUME NEW k \in Node PROVE LinkPhase(k)' /\ LinkTasks(k)'
    BY DEF LinkInv
  <2>1. /\ UNCHANGED <<conn, toMaster, m_tasks, process, peer, m_node>>
        /\ mainPc # "exited" /\ mainPc' # "exited"
        /\ toSlave' = SentToSlaves(m_clients, ClosePacket)
    BY <1>6 DEF CloseAllClients, closeAllClients
  <2>2. CASE k \in m_clients /\ conn[k] = "connected"
    <3>1. toSlave'[k] = Append(toSlave[k], ClosePacket)
      BY <2>1, <2>2 DEF SentToSlaves
    <3>2. toSlave[k] \in Seq(MasterPacket) /\ ClosePacket \in MasterPacket /\ ClosePacket.id = NoId
      BY PacketTypes DEF TypeOK, NetTypeOK, ClosePacket
    <3>3. \A t : Mentions(toSlave'[k], t) <=> Mentions(toSlave[k], t) \/ t = NoId
      BY <3>1, <3>2, AppendQueue
    <3>4. OncePerTask(toSlave[k]) => OncePerTask(toSlave'[k])
      BY <3>1, <3>2, AppendQueue
    <3> QED
      BY <2>1, <2>2, <3>3, <3>4, TasksAreNaturals
         DEF LinkInv, LinkPhase, LinkTasks, InOnePlace, Elsewhere, OnWire, Answered, m_clients
  <2>3. CASE ~(k \in m_clients /\ conn[k] = "connected")
    BY <2>1, <2>3, LinkUntouched DEF SentToSlaves, LinkInv
  <2> QED
    BY <2>2, <2>3
<1>7. CASE CloseServer
  BY <1>7, CutKeepsLinks DEF CloseServer, ServerClosed
<1>8. CASE CloseAfterFailure
  BY <1>8, CutKeepsLinks DEF CloseAfterFailure, ServerClosed
<1> QED
  BY <1>1, <1>2, <1>3, <1>4, <1>5, <1>6, <1>7, <1>8 DEF MainNext

\* What sendTasksToSlave does to the queues: at most one packet, about the
\* picked task, to client n alone, and none on a closed connection.
LEMMA SendTasksQueues ==
  ASSUME TypeOK, NEW n \in Node, NEW credit, NEW t \in Tasks \cup {NoId},
         sendTasksToSlave(n, credit, t)
  PROVE  /\ \A k \in Node : k # n \/ conn[k] # "connected" => toSlave'[k] = toSlave[k]
         /\ \A u \in Tasks : Mentions(toSlave'[n], u) <=>
              Mentions(toSlave[n], u) \/ (u = t /\ conn[n] = "connected")
         /\ OncePerTask(toSlave[n]) /\ (t \in Tasks => ~Mentions(toSlave[n], t)) =>
              OncePerTask(toSlave'[n])
<1>1. CASE t = NoId
  BY <1>1, TasksAreNaturals DEF sendTasksToSlave
<1>2. CASE t # NoId
  <2>1. toSlave' = SentToSlaves({n}, TaskPacket(t))
    BY <1>2 DEF sendTasksToSlave
  <2>2. \A k \in Node : k # n \/ conn[k] # "connected" => toSlave'[k] = toSlave[k]
    BY <2>1 DEF SentToSlaves
  <2>3. CASE conn[n] = "connected"
    <3>1. toSlave'[n] = Append(toSlave[n], TaskPacket(t))
      BY <2>1, <2>3 DEF SentToSlaves
    <3>2. /\ toSlave[n] \in Seq(MasterPacket) /\ TaskPacket(t) \in MasterPacket
          /\ TaskPacket(t).id = t
      BY <1>2, PacketTypes DEF TypeOK, NetTypeOK, TaskPacket
    <3>3. \A u : Mentions(toSlave'[n], u) <=> Mentions(toSlave[n], u) \/ u = t
      BY <3>1, <3>2, AppendQueue
    <3>4. OncePerTask(toSlave[n]) /\ ~Mentions(toSlave[n], t) => OncePerTask(toSlave'[n])
      BY <3>1, <3>2, AppendQueue
    <3> QED
      BY <1>2, <2>2, <2>3, <3>3, <3>4
  <2>4. CASE conn[n] # "connected"
    BY <2>2, <2>4
  <2> QED
    BY <2>3, <2>4
<1> QED
  BY <1>1, <1>2

\* What onRecvFromNode does to m_node: the task that is answered for is free,
\* the picked one is with n, and they are different.
LEMMA RecvNodes ==
  ASSUME TypeOK, LinkInv, mainPc # "exited", NEW n \in m_clients, toMaster[n] # <<>>,
         NEW t \in Tasks \cup {NoId}, NEW saved \in BOOLEAN,
         sendTasksToSlave(n, Head(toMaster[n]).task_count, t),
         applyResultFromSlave(n, Head(toMaster[n]), Assigned(n, t), saved)
  PROVE  /\ Head(toMaster[n]) \in SlavePacket
         /\ t \in Tasks => m_node[t] = nullptr /\ m_result[t] = NoInit
         /\ Head(toMaster[n]).id \in Tasks =>
              /\ Applies(n, Head(toMaster[n]), Assigned(n, t))
              /\ m_node[Head(toMaster[n]).id] = n /\ Head(toMaster[n]).id # t
         /\ \A u \in Tasks :
              m_node'[u] = IF u = Head(toMaster[n]).id THEN nullptr
                           ELSE IF u = t THEN n ELSE m_node[u]
<1> DEFINE packet == Head(toMaster[n])
<1>1. n \in Node /\ n # nullptr
  BY ConstantsAssumption DEF m_clients
<1>2. packet \in SlavePacket
  BY <1>1, TakeFromMasterQueue DEF TypeOK
<1>3. packet.id \in Tasks \cup {NoId}
  BY <1>2 DEF SlavePacket
<1>4. t \in Tasks => m_node[t] = nullptr /\ m_result[t] = NoInit
  BY <1>1, PickedIsFree
<1>5. packet.id \in Tasks => m_node[packet.id] = n
  <2>1. Mentions(toMaster[n], packet.id)
    BY <1>1, TailQueue DEF TypeOK, NetTypeOK
  <2> QED
    BY <1>1, <2>1 DEF LinkInv, LinkTasks, Answered
<1> HIDE DEF packet
<1>6. packet.id \in Tasks => packet.id # t /\ Assigned(n, t)[packet.id] = n
  BY <1>1, <1>4, <1>5 DEF Assigned
<1>7. packet.id \in Tasks => Applies(n, packet, Assigned(n, t))
  BY <1>6 DEF Applies
<1>8. \A u \in Tasks : m_node'[u] = IF u = packet.id THEN nullptr ELSE IF u = t THEN n ELSE m_node[u]
  <2>1. CASE packet.id \in Tasks
    <3>1. m_node' = [Assigned(n, t) EXCEPT ![packet.id] = nullptr]
      BY <1>7, <2>1, Zenon DEF applyResultFromSlave, packet
    <3> QED
      BY <3>1 DEF Assigned
  <2>2. CASE packet.id \notin Tasks
    <3>1. m_node' = Assigned(n, t)
      BY <2>2, Zenon DEF applyResultFromSlave, Applies, packet
    <3> QED
      BY <2>2, <3>1 DEF Assigned
  <2> QED
    BY <2>1, <2>2
<1> QED
  BY <1>2, <1>4, <1>5, <1>6, <1>7, <1>8 DEF packet

\* The server thread: a new client, a packet, a task sent, a client gone.
LEMMA ServerKeepsLinks ==
  ASSUME TypeOK, LinkInv, NEW n \in Node, Server(n)
  PROVE  LinkInv'
<1> SUFFICES ASSUME NEW k \in Node PROVE LinkPhase(k)' /\ LinkTasks(k)'
  BY DEF LinkInv
<1> USE DEF Server, clientVars, netVars, mainVars
<1>0. LinkPhase(k) /\ LinkTasks(k) /\ LinkPhase(n) /\ LinkTasks(n) /\ n # nullptr /\ k # nullptr
  BY ConstantsAssumption DEF LinkInv
<1>1. CASE newClient(n)
  <2>1. CASE k = n
    <3>1. /\ UNCHANGED <<conn, toMaster, toSlave, m_tasks, process, m_node, mainPc>>
          /\ peer[n] = "unseen" /\ peer'[n] = "client" /\ toMaster[n] # <<>>
      BY <1>1 DEF newClient, TypeOK, ServerTypeOK
    <3> QED
      BY <1>0, <2>1, <3>1
         DEF LinkPhase, LinkTasks, InOnePlace, Elsewhere, OnWire, Answered
  <2>2. CASE k # n
    BY <1>0, <1>1, <2>2, LinkUntouched DEF newClient, TypeOK, ServerTypeOK
  <2> QED
    BY <2>1, <2>2
<1>2. CASE Server_onRecvFromNode(n)
  <2> DEFINE id == Head(toMaster[n]).id
  <2>1. PICK t \in Tasks \cup {NoId}, saved \in BOOLEAN :
          /\ sendTasksToSlave(n, Head(toMaster[n]).task_count, t)
          /\ applyResultFromSlave(n, Head(toMaster[n]), Assigned(n, t), saved)
    BY <1>2 DEF Server_onRecvFromNode
  <2>2. /\ n \in m_clients /\ toMaster[n] # <<>>
        /\ toMaster' = [toMaster EXCEPT ![n] = Tail(@)]
        /\ UNCHANGED <<conn, peer, m_tasks, process, mainPc>> /\ mainPc # "exited"
    BY <1>2 DEF Server_onRecvFromNode
  <2>3. /\ t \in Tasks => m_node[t] = nullptr
        /\ id \in Tasks => m_node[id] = n /\ id # t
        /\ \A u \in Tasks : m_node'[u] = IF u = id THEN nullptr ELSE IF u = t THEN n ELSE m_node[u]
    BY <2>1, <2>2, RecvNodes
  <2>4. CASE k # n
    <3>1. toSlave'[k] = toSlave[k]
      BY <2>1, <2>4, SendTasksQueues
    <3>2. \A u \in Tasks : (m_node'[u] = k) <=> (m_node[u] = k)
      BY <1>0, <2>3, <2>4
    <3>3. toMaster'[k] = toMaster[k]
      BY <2>2, <2>4 DEF TypeOK, NetTypeOK
    <3> QED
      BY <1>0, <2>2, <3>1, <3>2, <3>3, LinkUntouched
  <2>5. CASE k = n
    <3>1. toMaster[n] \in Seq(SlavePacket) /\ toMaster'[n] = Tail(toMaster[n])
      BY <2>2 DEF TypeOK, NetTypeOK
    <3>2. /\ \A u \in Tasks : Mentions(toMaster'[n], u) => Mentions(toMaster[n], u) /\ u # id
          /\ \A u \in Tasks : Mentions(toMaster[n], u) => Mentions(toMaster'[n], u) \/ u = id
          /\ OncePerTask(toMaster'[n]) /\ Genuine(toMaster'[n])
      BY <1>0, <2>2, <3>1, TailQueue, TasksAreNaturals DEF LinkTasks
    <3>3. id \in Tasks => Mentions(toMaster[n], id)
      BY <2>2, <3>1, TailQueue
    <3> HIDE DEF id
    <3>4. peer[n] = "client" /\ conn[n] \in {"connected", "closed"}
      BY <1>0, <2>2 DEF m_clients, LinkPhase, TypeOK, NetTypeOK, ConnState
    <3>5. conn[n] = "closed" => toSlave'[n] = toSlave[n]
      BY <2>1, SendTasksQueues
    <3>6. conn[n] = "connected" /\ t \in Tasks => Elsewhere(n, t)
      BY <1>0, <2>3 DEF LinkTasks
    <3>7. OncePerTask(toSlave'[n])
      <4>1. CASE conn[n] = "connected"
        BY <1>0, <2>1, <3>6, <4>1, SendTasksQueues DEF LinkTasks, Elsewhere, OnWire
      <4>2. CASE conn[n] = "closed"
        BY <1>0, <3>5, <4>2 DEF LinkTasks
      <4> QED
        BY <3>4, <4>1, <4>2
    <3>8. \A u \in Tasks : Mentions(toSlave'[n], u) <=>
             Mentions(toSlave[n], u) \/ (u = t /\ conn[n] = "connected")
      BY <2>1, SendTasksQueues
    <3>9. LinkPhase(n)'
      BY <1>0, <2>2, <3>2, <3>4, <3>5 DEF LinkPhase, Answered
    <3>10. ASSUME NEW u \in Tasks
           PROVE  /\ conn'[n] = "connected" =>
                       IF m_node'[u] = n THEN InOnePlace(n, u)' ELSE Elsewhere(n, u)'
                  /\ Answered(n, u)' => m_node'[u] = n \/ mainPc' = "exited"
      <4>0. /\ conn[n] = "connected" => IF m_node[u] = n THEN InOnePlace(n, u) ELSE Elsewhere(n, u)
            /\ Answered(n, u) => m_node[u] = n
        BY <1>0, <2>2 DEF LinkTasks
      <4>1. CASE u = id
        BY <1>0, <2>2, <2>3, <3>2, <3>3, <3>8, <4>0, <4>1
           DEF InOnePlace, Elsewhere, OnWire, Answered
      <4>2. CASE u # id /\ u = t
        BY <1>0, <2>2, <2>3, <3>2, <3>6, <3>8, <4>0, <4>2
           DEF InOnePlace, Elsewhere, OnWire, Answered
      <4>3. CASE u # id /\ u # t
        BY <2>2, <2>3, <3>2, <3>8, <4>0, <4>3
           DEF InOnePlace, Elsewhere, OnWire, Answered
      <4> QED
        BY <4>1, <4>2, <4>3
    <3> QED
      BY <1>0, <2>2, <2>5, <3>2, <3>7, <3>9, <3>10 DEF LinkTasks
  <2> QED
    BY <2>4, <2>5
<1>3. CASE Server_doWork(n)
  <2>1. PICK t \in Tasks :
          sendTasksToSlave(n, m_freeCores[n], t) /\ m_node' = Assigned(n, t)
    BY <1>3 DEF Server_doWork
  <2>2. /\ n \in m_clients
        /\ UNCHANGED <<conn, peer, toMaster, m_tasks, process, mainPc>> /\ mainPc # "exited"
    BY <1>3 DEF Server_doWork
  <2>3. /\ m_node[t] = nullptr
        /\ \A u \in Tasks : m_node'[u] = IF u = t THEN n ELSE m_node[u]
    BY <2>1, PickedIsFree DEF Assigned
  <2>4. CASE k # n
    <3>1. toSlave'[k] = toSlave[k]
      BY <2>1, <2>4, SendTasksQueues
    <3>2. \A u \in Tasks : (m_node'[u] = k) <=> (m_node[u] = k)
      BY <1>0, <2>3, <2>4
    <3> QED
      BY <1>0, <2>2, <3>1, <3>2, LinkUntouched
  <2>5. CASE k = n
    <3>1. peer[n] = "client" /\ conn[n] \in {"connected", "closed"}
      BY <1>0, <2>2 DEF m_clients, LinkPhase, TypeOK, NetTypeOK, ConnState
    <3>2. conn[n] = "closed" => toSlave'[n] = toSlave[n]
      BY <2>1, SendTasksQueues
    <3>3. conn[n] = "connected" => Elsewhere(n, t)
      BY <1>0, <2>3 DEF LinkTasks
    <3>4. OncePerTask(toSlave'[n])
      <4>1. CASE conn[n] = "connected"
        BY <1>0, <2>1, <3>3, <4>1, SendTasksQueues DEF LinkTasks, Elsewhere, OnWire
      <4>2. CASE conn[n] = "closed"
        BY <1>0, <3>2, <4>2 DEF LinkTasks
      <4> QED
        BY <3>1, <4>1, <4>2
    <3>5. \A u \in Tasks : Mentions(toSlave'[n], u) <=>
             Mentions(toSlave[n], u) \/ (u = t /\ conn[n] = "connected")
      BY <2>1, SendTasksQueues
    <3>6. LinkPhase(n)'
      BY <1>0, <2>2, <3>1, <3>2 DEF LinkPhase, Answered
    <3>7. ASSUME NEW u \in Tasks
          PROVE  /\ conn'[n] = "connected" =>
                      IF m_node'[u] = n THEN InOnePlace(n, u)' ELSE Elsewhere(n, u)'
                 /\ Answered(n, u)' => m_node'[u] = n \/ mainPc' = "exited"
      <4>0. /\ conn[n] = "connected" => IF m_node[u] = n THEN InOnePlace(n, u) ELSE Elsewhere(n, u)
            /\ Answered(n, u) => m_node[u] = n
        BY <1>0, <2>2 DEF LinkTasks
      <4> QED
        BY <2>2, <2>3, <3>3, <3>5, <4>0 DEF InOnePlace, Elsewhere, OnWire, Answered
    <3> QED
      BY <1>0, <2>2, <2>5, <3>4, <3>6, <3>7 DEF LinkTasks
  <2> QED
    BY <2>4, <2>5
<1>4. CASE onClientDisconnected(n)
  <2>1. /\ conn[n] = "closed" /\ peer' = [peer EXCEPT ![n] = "deleted"]
        /\ toMaster' = [toMaster EXCEPT ![n] = <<>>] /\ m_node' = Freed(n)
        /\ UNCHANGED <<conn, toSlave, m_tasks, process, mainPc>>
    BY <1>4 DEF onClientDisconnected
  <2>2. CASE k # n
    <3>1. \A u \in Tasks : (m_node'[u] = k) <=> (m_node[u] = k)
      BY <1>0, <2>1, <2>2 DEF Freed
    <3> QED
      BY <1>0, <2>1, <2>2, <3>1, LinkUntouched DEF TypeOK, NetTypeOK, ServerTypeOK
  <2>3. CASE k = n
    <3>1. toMaster'[n] = <<>> /\ peer'[n] = "deleted"
      BY <2>1 DEF TypeOK, NetTypeOK, ServerTypeOK
    <3> QED
      BY <1>0, <2>1, <2>3, <3>1, EmptyQueue DEF LinkPhase, LinkTasks, Answered
  <2> QED
    BY <2>2, <2>3
<1> QED
  BY <1>1, <1>2, <1>3, <1>4 DEF ServerNext

\* A result goes from m_tasks to the queue to the console.
LEMMA DoWorkKeepsLinks ==
  ASSUME TypeOK, LinkInv, NEW n \in Node, NEW t \in Tasks, Client_doWork(n, t),
         UNCHANGED <<peer, m_node, mainPc>>
  PROVE  LinkInv'
<1> SUFFICES ASSUME NEW k \in Node PROVE LinkPhase(k)' /\ LinkTasks(k)'
  BY DEF LinkInv
<1>0. LinkPhase(k) /\ LinkTasks(k) /\ LinkPhase(n) /\ LinkTasks(n)
  BY DEF LinkInv
<1>1. PICK c \in FreeCores :
        toMaster' = [toMaster EXCEPT ![n] =
                       Append(@, ResultPacket(ReportedCores(n, c), t, process[n][t]))]
  BY DEF Client_doWork
<1> DEFINE p == ResultPacket(ReportedCores(n, c), t, process[n][t])
<1>2. conn[n] = "connected" /\ t \in m_tasks[n] /\ UNCHANGED process
  BY DEF Client_doWork
<1>3. p \in SlavePacket /\ p.id = t /\ p.process_code \in Final
  <2>1. ReportedCores(n, c) \in Int
    <3>1. IsFiniteSet(Tasks)
      BY FS_Interval, ConstantsAssumption DEF Tasks
    <3>2. m_tasks[n] \subseteq Tasks
      BY DEF TypeOK, ClientTypeOK
    <3> QED
      BY <3>1, <3>2, FS_Subset, FS_CardinalityType, ConstantsAssumption DEF ReportedCores
  <2>2. process[n][t] \in ProcessState
    BY DEF TypeOK, ClientTypeOK
  <2>3. process[n][t].result # NoInit /\ process[n][t].result # StillRunning
    BY <1>0, <1>2 DEF LinkTasks, Client_doWork, isRunning
  <2>4. process[n][t].result \in Final
    BY <2>2, <2>3 DEF ProcessState, ExitCodeResult, Final
  <2> QED
    BY <2>1, <2>2, <2>4, PacketTypes DEF ResultPacket
<1> HIDE DEF p
<1>4. CASE k # n
  BY <1>0, <1>1, <1>2, <1>4, LinkUntouched DEF Client_doWork, Cut, TypeOK, NetTypeOK, ClientTypeOK
<1>5. CASE k = n
  <2>1. m_node[t] = n /\ ~OnWire(n, t) /\ ~Answered(n, t) /\ peer[n] # "unseen"
    BY <1>0, <1>2 DEF LinkTasks, LinkPhase, InOnePlace, Elsewhere
  <2>2. toMaster[n] \in Seq(SlavePacket) /\ toMaster'[n] = Append(toMaster[n], p)
    BY <1>1 DEF TypeOK, NetTypeOK, p
  <2>3. /\ \A u : Mentions(toMaster'[n], u) <=> Mentions(toMaster[n], u) \/ u = t
        /\ OncePerTask(toMaster'[n]) /\ Genuine(toMaster'[n])
    BY <1>0, <1>3, <2>1, <2>2, AppendQueue DEF LinkTasks, Answered
  <2>4. CASE Cut({n}) /\ UNCHANGED m_tasks
    <3>1. conn'[n] = "closed" /\ toSlave'[n] = <<>>
      BY <2>4 DEF Cut
    <3> QED
      BY <1>0, <1>2, <1>5, <2>1, <2>3, <2>4, <3>1, EmptyQueue DEF LinkPhase, LinkTasks, Answered
  <2>5. CASE /\ m_tasks' = [m_tasks EXCEPT ![n] = Erased(n, t)]
             /\ UNCHANGED <<conn, toSlave>>
    <3>1. m_tasks'[n] = m_tasks[n] \ {t}
      BY <2>5 DEF Erased, TypeOK, ClientTypeOK
    <3>2. ASSUME NEW u \in Tasks
          PROVE  /\ IF m_node'[u] = n THEN InOnePlace(n, u)' ELSE Elsewhere(n, u)'
                 /\ Answered(n, u)' => m_node'[u] = n \/ mainPc' = "exited"
      <4>0. /\ IF m_node[u] = n THEN InOnePlace(n, u) ELSE Elsewhere(n, u)
            /\ Answered(n, u) => m_node[u] = n \/ mainPc = "exited"
        BY <1>0, <1>2 DEF LinkTasks
      <4> QED
        BY <1>2, <2>1, <2>3, <2>5, <3>1, <4>0 DEF InOnePlace, Elsewhere, OnWire, Answered
    <3>3. LinkPhase(n)'
      BY <1>0, <1>2, <2>1, <2>5, <3>1 DEF LinkPhase
    <3> QED
      BY <1>0, <1>2, <1>5, <2>3, <2>5, <3>1, <3>2, <3>3 DEF LinkTasks
  <2> QED
    BY <2>4, <2>5 DEF Client_doWork
<1> QED
  BY <1>4, <1>5

\* A task goes from the queue to the daemon into m_tasks, with a process.
LEMMA RunTaskKeepsLinks ==
  ASSUME TypeOK, LinkInv, NEW n \in Node, conn[n] = "connected", toSlave[n] # <<>>,
         Head(toSlave[n]).id # NoId, runTaskProcess(n, Head(toSlave[n]).id),
         toSlave' = [toSlave EXCEPT ![n] = Tail(@)],
         UNCHANGED <<conn, toMaster, peer, m_node, mainPc>>
  PROVE  LinkInv'
<1> SUFFICES ASSUME NEW k \in Node PROVE LinkPhase(k)' /\ LinkTasks(k)'
  BY DEF LinkInv
<1> DEFINE id == Head(toSlave[n]).id
<1>0. LinkPhase(k) /\ LinkTasks(k) /\ LinkPhase(n) /\ LinkTasks(n)
  BY DEF LinkInv
<1>1. id \in Tasks
  BY TakeFromSlaveQueue DEF TypeOK, MasterPacket
<1>2. PICK p \in {Running, FailedStart} : process' = [process EXCEPT ![n][id] = p]
  BY DEF runTaskProcess
<1>3. m_tasks' = [m_tasks EXCEPT ![n] = @ \cup {id}]
  BY DEF runTaskProcess
<1>4. toSlave[n] \in Seq(MasterPacket) /\ toSlave'[n] = Tail(toSlave[n])
  BY DEF TypeOK, NetTypeOK
<1>5. /\ Mentions(toSlave[n], id)
      /\ \A u \in Tasks : Mentions(toSlave'[n], u) => Mentions(toSlave[n], u) /\ u # id
      /\ \A u \in Tasks : Mentions(toSlave[n], u) => Mentions(toSlave'[n], u) \/ u = id
      /\ OncePerTask(toSlave'[n])
  BY <1>0, <1>4, TailQueue DEF LinkTasks
<1> HIDE DEF id
<1>6. CASE k # n
  BY <1>0, <1>2, <1>3, <1>6, LinkUntouched DEF TypeOK, NetTypeOK, ClientTypeOK
<1>7. CASE k = n
  <2>1. m_node[id] = n /\ id \notin m_tasks[n] /\ ~Answered(n, id) /\ peer[n] # "unseen"
    BY <1>0, <1>1, <1>5 DEF LinkTasks, LinkPhase, InOnePlace, Elsewhere, OnWire
  <2>2. m_tasks'[n] = m_tasks[n] \cup {id}
    BY <1>3 DEF TypeOK, ClientTypeOK
  <2>3. \A u \in m_tasks'[n] : process'[n][u].result # NoInit
    <3>1. \A u \in Tasks : process'[n][u] = IF u = id THEN p ELSE process[n][u]
      BY <1>1, <1>2 DEF TypeOK, ClientTypeOK
    <3>2. p.result # NoInit
      BY <1>2 DEF Running, FailedStart, NoInit, StillRunning, NotStarted
    <3>3. m_tasks[n] \subseteq Tasks
      BY DEF TypeOK, ClientTypeOK
    <3> QED
      BY <1>0, <1>1, <2>2, <3>1, <3>2, <3>3 DEF LinkTasks
  <2>4. ASSUME NEW u \in Tasks
        PROVE  /\ IF m_node'[u] = n THEN InOnePlace(n, u)' ELSE Elsewhere(n, u)'
               /\ Answered(n, u)' => m_node'[u] = n \/ mainPc' = "exited"
    <3>0. /\ IF m_node[u] = n THEN InOnePlace(n, u) ELSE Elsewhere(n, u)
          /\ Answered(n, u) => m_node[u] = n \/ mainPc = "exited"
      BY <1>0 DEF LinkTasks
    <3> QED
      BY <1>5, <2>1, <2>2, <3>0 DEF InOnePlace, Elsewhere, OnWire, Answered
  <2>5. LinkPhase(n)'
    BY <1>0, <2>1 DEF LinkPhase
  <2> QED
    BY <1>0, <1>5, <1>7, <2>3, <2>4, <2>5 DEF LinkTasks
<1> QED
  BY <1>6, <1>7

\* A session thread: connecting, a packet of the console, a finished task.
LEMMA SessionKeepsLinks ==
  ASSUME TypeOK, RecordInv, LinkInv, NEW n \in Node, Session(n)
  PROVE  LinkInv'
<1> USE DEF Session, serverVars, mainVars, clientVars
<1>1. CASE onConnect(n)
  <2> SUFFICES ASSUME NEW k \in Node PROVE LinkPhase(k)' /\ LinkTasks(k)'
    BY DEF LinkInv
  <2>0. LinkPhase(k) /\ LinkTasks(k)
    BY DEF LinkInv
  <2>1. PICK c \in FreeCores : toMaster' = [toMaster EXCEPT ![n] = Append(@, InfoPacket(c))]
    BY <1>1 DEF onConnect
  <2>2. /\ conn[n] = "connecting" /\ conn' = [conn EXCEPT ![n] = "connected"]
        /\ UNCHANGED <<toSlave, m_tasks, process, peer, m_node, mainPc>>
    BY <1>1 DEF onConnect
  <2>3. CASE k # n
    BY <2>0, <2>1, <2>2, <2>3, LinkUntouched DEF TypeOK, NetTypeOK
  <2>4. CASE k = n
    <3>1. /\ toMaster[n] \in Seq(SlavePacket) /\ InfoPacket(c) \in SlavePacket
          /\ InfoPacket(c).id = NoId /\ toMaster'[n] = Append(toMaster[n], InfoPacket(c))
      BY <2>1, PacketTypes, ConstantsAssumption DEF TypeOK, NetTypeOK, InfoPacket
    <3>2. /\ \A u \in Tasks : Mentions(toMaster'[n], u) <=> Mentions(toMaster[n], u)
          /\ OncePerTask(toMaster'[n]) /\ Genuine(toMaster'[n])
      BY <2>0, <2>4, <3>1, AppendQueue, TasksAreNaturals DEF LinkTasks
    <3>3. conn'[n] = "connected" /\ peer[n] = "unseen"
      BY <2>0, <2>2, <2>4 DEF LinkPhase, TypeOK, NetTypeOK
    <3>4. \A u \in Tasks : m_node[u] # n
      BY <3>3, ConstantsAssumption DEF RecordInv, NoDanglingNode, m_clients
    <3> QED
      BY <2>0, <2>2, <2>4, <3>2, <3>3, <3>4, EmptyQueue
         DEF LinkPhase, LinkTasks, Elsewhere, OnWire, Answered
  <2> QED
    BY <2>3, <2>4
<1>2. CASE ConnectFails(n)
  BY <1>2, CutKeepsLinks DEF ConnectFails
<1>3. CASE Client_onRecvFromNode(n)
  <2>1. /\ conn[n] = "connected" /\ toSlave[n] # <<>>
        /\ UNCHANGED <<toMaster, peer, m_node, mainPc>>
        /\ \/ /\ Head(toSlave[n]).id # NoId /\ runTaskProcess(n, Head(toSlave[n]).id)
              /\ toSlave' = [toSlave EXCEPT ![n] = Tail(@)]
              /\ UNCHANGED conn
           \/ Cut({n}) /\ UNCHANGED clientVars
    BY <1>3 DEF Client_onRecvFromNode, RefuseTask
  <2> QED
    BY <2>1, RunTaskKeepsLinks, CutKeepsLinks
<1>4. ASSUME NEW t \in Tasks, Client_doWork(n, t) PROVE LinkInv'
  BY <1>4, DoWorkKeepsLinks
<1> QED
  BY <1>1, <1>2, <1>3, <1>4

\* The UDP thread: only the start of a session and its end touch a link.
LEMMA UdpKeepsLinks ==
  ASSUME TypeOK, LinkInv, NEW d \in Daemons, Udp(d)
  PROVE  LinkInv'
<1> SUFFICES ASSUME NEW k \in Node PROVE LinkPhase(k)' /\ LinkTasks(k)'
  BY DEF LinkInv
<1> USE DEF Udp, serverVars, mainVars, clientVars, netVars
<1>0. LinkPhase(k) /\ LinkTasks(k)
  BY DEF LinkInv
<1>1. CASE DropInvitation(d)
  BY <1>0, <1>1, LinkUntouched DEF DropInvitation
<1>2. CASE AcceptInvitation(d)
  <2>1. PICK n \in Node : conn[n] = "none" /\ conn' = [conn EXCEPT ![n] = "connecting"]
    BY <1>2 DEF AcceptInvitation, IsNextSession
  <2>2. UNCHANGED <<toMaster, toSlave, m_tasks, process, peer, m_node, mainPc>>
    BY <1>2 DEF AcceptInvitation
  <2>3. CASE k = n
    <3>1. conn[k] = "none" /\ conn'[k] = "connecting"
      BY <2>1, <2>3 DEF TypeOK, NetTypeOK
    <3> QED
      BY <1>0, <2>2, <3>1 DEF LinkPhase, LinkTasks, Answered
  <2>4. CASE k # n
    BY <1>0, <2>1, <2>2, <2>4, LinkUntouched DEF TypeOK, NetTypeOK
  <2> QED
    BY <2>3, <2>4
<1>3. CASE SessionStarted(d)
  BY <1>0, <1>3, LinkUntouched DEF SessionStarted
<1>4. CASE SessionOver(d)
  <2>1. /\ conn[m_client[d]] = "closed" /\ m_tasks' = [m_tasks EXCEPT ![m_client[d]] = {}]
        /\ UNCHANGED <<conn, toMaster, toSlave, process, peer, m_node, mainPc>>
    BY <1>4 DEF SessionOver, IsOver
  <2>2. CASE k = m_client[d]
    <3>1. conn[k] = "closed" /\ m_tasks'[k] = {}
      BY <2>1, <2>2 DEF TypeOK, ClientTypeOK
    <3> QED
      BY <1>0, <2>1, <3>1 DEF LinkPhase, LinkTasks, Answered
  <2>3. CASE k # m_client[d]
    BY <1>0, <2>1, <2>3, LinkUntouched DEF TypeOK, ClientTypeOK
  <2> QED
    BY <2>2, <2>3
<1> QED
  BY <1>1, <1>2, <1>3, <1>4 DEF UdpNext, Udp_doWork

\* A process that ends had been started, and still has after that.
LEMMA ProcessKeepsLinks ==
  ASSUME TypeOK, LinkInv, NEW n \in Node, NEW t \in Tasks, Process(n, t)
  PROVE  LinkInv'
<1> SUFFICES ASSUME NEW k \in Node PROVE LinkPhase(k)' /\ LinkTasks(k)'
  BY DEF LinkInv
<1>0. LinkPhase(k) /\ LinkTasks(k)
  BY DEF LinkInv
<1>1. PICK code \in ExitCodes : process' = [process EXCEPT ![n][t] = ExitedWith(code)]
  BY DEF Process, ProcessExits
<1>2. UNCHANGED <<conn, toMaster, toSlave, m_tasks, peer, m_node, mainPc>>
  BY DEF Process, ProcessExits, netVars, serverVars, mainVars
<1>3. \A u \in m_tasks'[k] : process'[k][u].result # NoInit
  <2>1. m_tasks[k] \subseteq Tasks
    BY DEF TypeOK, ClientTypeOK
  <2>2. \A u \in Tasks : process'[k][u] = process[k][u] \/ process'[k][u] = ExitedWith(code)
    BY <1>1 DEF TypeOK, ClientTypeOK
  <2>3. ExitedWith(code).result # NoInit
    BY DEF ExitedWith, Running, StillRunning, Exited, NoInit
  <2> QED
    BY <1>0, <1>2, <2>1, <2>2, <2>3 DEF LinkTasks
<1>4. LinkPhase(k)'
  BY <1>0, <1>2 DEF LinkPhase, Answered
<1> QED
  BY <1>0, <1>2, <1>3, <1>4 DEF LinkTasks, InOnePlace, Elsewhere, OnWire, Answered

\* Every step of the farm keeps the invariant, given the two before it.
LEMMA LinkInvariant == Spec => []LinkInv
<1>1. Init => LinkInv
  BY EmptyQueue DEF Init, NetInit, ServerInit, ClientInit, LinkInv, LinkPhase, LinkTasks, Answered
<1>2. TypeOK /\ RecordInv /\ LinkInv /\ [Next]_vars => LinkInv'
  <2> SUFFICES ASSUME TypeOK, RecordInv, LinkInv, [Next]_vars PROVE LinkInv'
    OBVIOUS
  <2>1. ASSUME NEW n \in Node, Network(n) PROVE LinkInv'
    <3>1. Cut({n}) /\ UNCHANGED <<toMaster, m_tasks, process, peer, m_node, mainPc>>
      BY <2>1 DEF Network, ConnectionBreaks, ConnectFails, serverVars, mainVars, clientVars
    <3> QED
      BY <3>1, CutKeepsLinks
  <2>2. CASE UNCHANGED vars
    BY <2>2, LinkUntouched DEF vars, netVars, serverVars, mainVars, clientVars, LinkInv
  <2> QED
    BY <2>1, <2>2, MainKeepsLinks, ServerKeepsLinks, SessionKeepsLinks, UdpKeepsLinks,
       ProcessKeepsLinks DEF Next, Terminated
<1> QED
  BY <1>1, <1>2, TypeCorrect, RecordInvariant, PTL DEF Spec

\* Console and daemons agree on who has which task, in every state: on a live
\* connection an assigned task is in exactly one place, any other in none, and
\* a result packet is always for a task that is assigned to its sender.
THEOREM TasksConservedHolds == Spec => []TasksConserved
<1>1. LinkInv => TasksConserved
  BY DEF LinkInv, LinkTasks, Elsewhere, TasksConserved
<1> QED
  BY <1>1, LinkInvariant, PTL

-----------------------------------------------------------------------------
(***************************************************************************)
(* Refinement.  A step that leaves m_node and m_result alone is a stutter  *)
(* of the board; the server thread's others are one board action each.     *)
(***************************************************************************)
DoneTasks == {t \in Tasks : m_result[t] # NoInit}

\* A step of main, of a daemon or of the network does not touch the board.
LEMMA OthersKeepBoard ==
  ASSUME [Next]_vars, ~(\E n \in Node : Server(n))
  PROVE  UNCHANGED <<m_node, m_result>>
<1>1. CASE Main
  BY <1>1 DEF Main, MainNext, sendBroadcast, BroadcastFails, CloseAfterFailure, ServerClosed,
         CheckClients, ScanTask,
         EndOfPass, CloseAllClients, closeAllClients, CloseServer, serverVars
<1> QED
  BY <1>1, OthersKeepConsole DEF Next, Terminated, serverVars

\* A packet of client n: nothing, a task handed in, a task taken, or both.
LEMMA RecvIsBoardStep ==
  ASSUME TypeOK, LinkInv, mainPc # "exited", NEW n \in Node, Server_onRecvFromNode(n)
  PROVE  [Board!BoardNext]_<<m_node, DoneTasks>>
<1> DEFINE packet == Head(toMaster[n])
<1>1. n \in m_clients /\ toMaster[n] # <<>>
  BY DEF Server_onRecvFromNode
<1>2. PICK t \in Tasks \cup {NoId}, saved \in BOOLEAN :
        /\ sendTasksToSlave(n, packet.task_count, t)
        /\ applyResultFromSlave(n, packet, Assigned(n, t), saved)
  BY DEF Server_onRecvFromNode
<1>3. /\ packet \in SlavePacket
      /\ t \in Tasks => m_node[t] = nullptr /\ m_result[t] = NoInit
      /\ packet.id \in Tasks =>
           Applies(n, packet, Assigned(n, t)) /\ m_node[packet.id] = n /\ packet.id # t
      /\ \A u \in Tasks : m_node'[u] = IF u = packet.id THEN nullptr
                                       ELSE IF u = t THEN n ELSE m_node[u]
  BY <1>1, <1>2, RecvNodes
<1>4. packet.id \in Tasks => packet.process_code # NoInit
  <2>1. packet.id \in Tasks => packet.process_code \in Final
    BY <1>1, TailQueue, TasksAreNaturals DEF TypeOK, NetTypeOK, LinkInv, LinkTasks
  <2> QED
    BY <2>1 DEF Final, NoInit, NotStarted, Exited
<1> HIDE DEF packet
<1>5. m_node \in [Tasks -> Node \cup {nullptr}] /\ m_result \in [Tasks -> ExitCodeResult]
  BY DEF TypeOK, ServerTypeOK
<1>6. m_node' = [u \in Tasks |-> m_node'[u]]
  <2>1. Assigned(n, t) = [u \in Tasks |-> Assigned(n, t)[u]]
    BY DEF Assigned
  <2>2. m_node' = Assigned(n, t) \/ m_node' = [Assigned(n, t) EXCEPT ![packet.id] = nullptr]
    BY <1>2, Zenon DEF applyResultFromSlave
  <2> QED
    BY <2>1, <2>2
<1>7. CASE packet.id \in Tasks
  <2>1. m_result' = [m_result EXCEPT ![packet.id] = packet.process_code]
    BY <1>2, <1>3, <1>7, Zenon DEF applyResultFromSlave
  <2>2. DoneTasks' = DoneTasks \cup {packet.id}
    BY <1>4, <1>5, <1>7, <2>1 DEF DoneTasks
  <2>3. CASE t = NoId
    <3>1. m_node' = [m_node EXCEPT ![packet.id] = nullptr]
      BY <1>3, <1>5, <1>6, <2>3, TasksAreNaturals
    <3>2. PICK u \in Tasks : u = packet.id
      BY <1>7
    <3>3. Board!Finish(n, u)
      BY <1>3, <1>7, <2>2, <3>1, <3>2 DEF Board!Finish, DoneTasks
    <3> QED
      BY <3>3 DEF Board!BoardNext
  <2>4. CASE t \in Tasks
    <3>1. m_node' = [m_node EXCEPT ![packet.id] = nullptr, ![t] = n]
      BY <1>3, <1>5, <1>6, <1>7, <2>4
    <3>2. Board!FinishAndTake(n, packet.id, t)
      BY <1>3, <1>7, <2>2, <2>4, <3>1 DEF Board!FinishAndTake, Board!Free, DoneTasks
    <3> QED
      BY <1>7, <2>4, <3>2 DEF Board!BoardNext
  <2> QED
    BY <2>3, <2>4
<1>8. CASE packet.id \notin Tasks
  <2>1. UNCHANGED m_result
    BY <1>2, <1>8, Zenon DEF applyResultFromSlave, Applies
  <2>2. DoneTasks' = DoneTasks
    BY <2>1 DEF DoneTasks
  <2>3. CASE t = NoId
    <3>1. m_node' = m_node
      BY <1>3, <1>5, <1>6, <1>8, <2>3, TasksAreNaturals
    <3> QED
      BY <2>2, <3>1
  <2>4. CASE t \in Tasks
    <3>1. m_node' = [m_node EXCEPT ![t] = n]
      BY <1>3, <1>5, <1>6, <1>8, <2>4
    <3>2. Board!Take(n, t)
      BY <1>3, <2>2, <2>4, <3>1 DEF Board!Take, Board!Free, DoneTasks
    <3> QED
      BY <2>4, <3>2 DEF Board!BoardNext
  <2> QED
    BY <2>3, <2>4
<1> QED
  BY <1>7, <1>8

LEMMA ServerIsBoardStep ==
  ASSUME TypeOK, LinkInv, NEW n \in Node, Server(n)
  PROVE  [Board!BoardNext]_<<m_node, DoneTasks>>
<1>1. CASE newClient(n)
  BY <1>1 DEF newClient, DoneTasks
<1>2. CASE Server_onRecvFromNode(n)
  BY <1>2, RecvIsBoardStep DEF Server
<1>3. CASE Server_doWork(n)
  <2>1. PICK t \in Tasks :
          sendTasksToSlave(n, m_freeCores[n], t) /\ m_node' = Assigned(n, t)
    BY <1>3 DEF Server_doWork
  <2>2. m_node[t] = nullptr /\ m_result[t] = NoInit
    BY <2>1, PickedIsFree
  <2>3. m_node' = [m_node EXCEPT ![t] = n]
    BY <2>1 DEF Assigned, TypeOK, ServerTypeOK
  <2>4. DoneTasks' = DoneTasks
    BY <1>3 DEF Server_doWork, DoneTasks
  <2>5. Board!Take(n, t)
    BY <2>2, <2>3, <2>4 DEF Board!Take, Board!Free, DoneTasks
  <2> QED
    BY <2>5 DEF Board!BoardNext
<1>4. CASE onClientDisconnected(n)
  <2>1. m_node' = Freed(n) /\ DoneTasks' = DoneTasks
    BY <1>4 DEF onClientDisconnected, DoneTasks
  <2>2. Board!Release(n)
    BY <2>1 DEF Board!Release, Freed, DoneTasks
  <2> QED
    BY <2>2 DEF Board!BoardNext
<1> QED
  BY <1>1, <1>2, <1>3, <1>4 DEF Server, ServerNext

\* The console implements the task board: under every interleaving of threads,
\* lost connections and late results, a task is given to one client at a time,
\* handed in once, by the client that has it, and freed when the client goes.
THEOREM ImplementsTaskBoardHolds == Spec => ImplementsTaskBoard
<1>1. Init => Board!BoardInit
  BY DEF Init, ServerInit, Board!BoardInit
<1>2. TypeOK /\ LinkInv /\ [Next]_vars => [Board!BoardNext]_(Board!boardVars)
  <2> SUFFICES ASSUME TypeOK, LinkInv, [Next]_vars
               PROVE  [Board!BoardNext]_<<m_node, DoneTasks>>
    BY DEF Board!boardVars, DoneTasks
  <2>1. CASE UNCHANGED <<m_node, m_result>>
    BY <2>1 DEF DoneTasks
  <2> QED
    BY <2>1, ServerIsBoardStep, OthersKeepBoard
<1> QED
  BY <1>1, <1>2, TypeCorrect, LinkInvariant, PTL DEF Spec, ImplementsTaskBoard, Board!BoardSpec

-----------------------------------------------------------------------------
(***************************************************************************)
(* Conservation of results.  CountInv is inductive: a packet adds its task *)
(* to the tasks with a result and to those main has not counted, and a     *)
(* visit of main moves one from the latter into one of the two totals.     *)
(* For that a result must be final: main counts a record whose process     *)
(* still runs neither as a success nor as an error, and forgets it.        *)
(***************************************************************************)
Uncounted == {t \in Tasks : m_doneIp[t] # nullptr}

CountInv ==
  /\ \A t \in Tasks : m_result[t] # NoInit => m_result[t] \in Final
  /\ \A t \in Tasks : m_doneIp[t] # nullptr => m_result[t] # NoInit
  /\ ResultsCountedOnce

\* Sets of tasks can be counted.
LEMMA TaskSetsFinite ==
  /\ \A S \in SUBSET Tasks : IsFiniteSet(S) /\ Cardinality(S) \in Nat
  /\ Cardinality(Tasks) = NumTasks
<1>1. IsFiniteSet(Tasks) /\ Cardinality(Tasks) = NumTasks
  BY FS_Interval, ConstantsAssumption DEF Tasks
<1>2. ASSUME NEW S \in SUBSET Tasks
      PROVE  IsFiniteSet(S) /\ Cardinality(S) \in Nat
  BY <1>1, FS_Subset, FS_CardinalityType
<1> QED
  BY <1>1, <1>2

\* The server thread records results one at a time, each for a task that had none.
LEMMA ServerResults ==
  ASSUME TypeOK, RecordInv, LinkInv, NEW n \in Node, Server(n)
  PROVE  \/ UNCHANGED <<m_result, m_doneIp>>
         \/ \E id \in Tasks, code \in Final :
              /\ m_result[id] = NoInit
              /\ m_result' = [m_result EXCEPT ![id] = code]
              /\ m_doneIp' = [m_doneIp EXCEPT ![id] = n]
<1>1. CASE Server_onRecvFromNode(n)
  <2> DEFINE packet == Head(toMaster[n])
  <2>1. n \in m_clients /\ toMaster[n] # <<>> /\ mainPc # "exited" /\ n # nullptr
    BY <1>1, ConstantsAssumption DEF Server_onRecvFromNode, Server
  <2>2. PICK t \in Tasks \cup {NoId}, saved \in BOOLEAN :
          /\ sendTasksToSlave(n, packet.task_count, t)
          /\ applyResultFromSlave(n, packet, Assigned(n, t), saved)
    BY <1>1 DEF Server_onRecvFromNode
  <2>3. packet.id \in Tasks => Applies(n, packet, Assigned(n, t)) /\ m_node[packet.id] = n
    BY <2>1, <2>2, RecvNodes
  <2>4. packet.id \in Tasks => packet.process_code \in Final
    BY <2>1, TailQueue, TasksAreNaturals DEF TypeOK, NetTypeOK, LinkInv, LinkTasks
  <2> HIDE DEF packet
  <2>5. CASE packet.id \in Tasks
    <3>1. /\ m_result' = [m_result EXCEPT ![packet.id] = packet.process_code]
          /\ m_doneIp' = [m_doneIp EXCEPT ![packet.id] = n]
      BY <2>2, <2>3, <2>5, Zenon DEF applyResultFromSlave
    <3>2. m_result[packet.id] = NoInit
      BY <2>1, <2>3, <2>5 DEF RecordInv, DoneIsUnowned
    <3> QED
      BY <2>4, <2>5, <3>1, <3>2
  <2>6. CASE packet.id \notin Tasks
    BY <2>2, <2>6, Zenon DEF applyResultFromSlave, Applies
  <2> QED
    BY <2>5, <2>6
<1> QED
  BY <1>1 DEF Server, ServerNext, newClient, Server_doWork, onClientDisconnected

\* A result recorded by the server is one more to count.
LEMMA ResultKeepsCount ==
  ASSUME TypeOK, CountInv, NEW n \in Node, NEW id \in Tasks, NEW code \in Final,
         m_result[id] = NoInit,
         m_result' = [m_result EXCEPT ![id] = code],
         m_doneIp' = [m_doneIp EXCEPT ![id] = n],
         UNCHANGED <<countSuccess, countError>>
  PROVE  CountInv'
<1>1. code # NoInit /\ n # nullptr /\ m_doneIp[id] = nullptr
  BY ConstantsAssumption DEF Final, NotStarted, Exited, NoInit, CountInv
<1>2. DoneTasks' = DoneTasks \cup {id} /\ id \notin DoneTasks
  BY <1>1 DEF DoneTasks, TypeOK, ServerTypeOK
<1>3. Uncounted' = Uncounted \cup {id} /\ id \notin Uncounted
  BY <1>1 DEF Uncounted, TypeOK, ServerTypeOK
<1>4. /\ IsFiniteSet(DoneTasks) /\ IsFiniteSet(Uncounted)
      /\ Cardinality(DoneTasks) \in Nat /\ Cardinality(Uncounted) \in Nat
  BY TaskSetsFinite DEF DoneTasks, Uncounted
<1>5. /\ Cardinality(DoneTasks') = Cardinality(DoneTasks) + 1
      /\ Cardinality(Uncounted') = Cardinality(Uncounted) + 1
  BY <1>2, <1>3, <1>4, FS_AddElement
<1>6. countSuccess + countError + Cardinality(Uncounted) = Cardinality(DoneTasks)
  BY DEF CountInv, ResultsCountedOnce, Uncounted, DoneTasks
<1>7. (countSuccess + countError + Cardinality(Uncounted) = Cardinality(DoneTasks))'
  BY <1>4, <1>5, <1>6 DEF TypeOK, MainTypeOK
<1>8. ResultsCountedOnce'
  BY <1>7 DEF ResultsCountedOnce, Uncounted, DoneTasks
<1> QED
  BY <1>1, <1>8 DEF CountInv, TypeOK, ServerTypeOK

\* A record that main visits is counted if it waits for that, and once.
LEMMA ScanKeepsCount ==
  ASSUME TypeOK, CountInv, NEW t \in Tasks, ScanTask(t)
  PROVE  CountInv'
<1>1. CASE IsNew(t)
  <2>1. m_doneIp' = [m_doneIp EXCEPT ![t] = nullptr] /\ UNCHANGED m_result
    BY <1>1 DEF ScanTask
  <2>2. t \in Uncounted /\ Uncounted' = Uncounted \ {t}
    BY <1>1, <2>1 DEF IsNew, Uncounted, TypeOK, ServerTypeOK
  <2>3. IsFiniteSet(Uncounted) /\ Cardinality(Uncounted) \in Nat
    BY TaskSetsFinite DEF Uncounted
  <2>4. Cardinality(Uncounted') = Cardinality(Uncounted) - 1
    BY <2>2, <2>3, FS_RemoveElement
  <2>5. (IsError(t) \/ IsSuccess(t)) /\ ~(IsError(t) /\ IsSuccess(t))
    BY <1>1 DEF IsNew, IsError, IsSuccess, CountInv, Final, NotStarted, Exited
  <2>6. countSuccess' + countError' = countSuccess + countError + 1
    <3>1. /\ countError' = countError + IF IsError(t) THEN 1 ELSE 0
          /\ countSuccess' = countSuccess + IF IsSuccess(t) THEN 1 ELSE 0
      BY <1>1 DEF ScanTask
    <3> QED
      BY <2>5, <3>1 DEF TypeOK, MainTypeOK
  <2>7. {countSuccess, countError, countSuccess', countError'} \subseteq Nat
    BY <1>1 DEF ScanTask, TypeOK, MainTypeOK
  <2>8. countSuccess + countError + Cardinality(Uncounted) = Cardinality(DoneTasks)
    BY DEF CountInv, ResultsCountedOnce, Uncounted, DoneTasks
  <2>9. DoneTasks' = DoneTasks
    BY <2>1 DEF DoneTasks
  <2>10. (countSuccess + countError + Cardinality(Uncounted) = Cardinality(DoneTasks))'
    BY <2>3, <2>4, <2>6, <2>7, <2>8, <2>9
  <2>11. ResultsCountedOnce'
    BY <2>10 DEF ResultsCountedOnce, Uncounted, DoneTasks
  <2> QED
    BY <2>1, <2>11 DEF CountInv, TypeOK, ServerTypeOK
<1>2. CASE ~IsNew(t)
  BY <1>2 DEF ScanTask, CountInv, ResultsCountedOnce
<1> QED
  BY <1>1, <1>2

LEMMA CountInvariant == Spec => []CountInv
<1>1. Init => CountInv
  <2> SUFFICES ASSUME Init PROVE CountInv
    OBVIOUS
  <2>1. /\ {t \in Tasks : m_doneIp[t] # nullptr} = {} /\ {t \in Tasks : m_result[t] # NoInit} = {}
        /\ countSuccess = 0 /\ countError = 0
    BY DEF Init, ServerInit, MainInit
  <2>2. ResultsCountedOnce
    BY <2>1, FS_EmptySet DEF ResultsCountedOnce
  <2> QED
    BY <2>1, <2>2 DEF CountInv
<1>2. TypeOK /\ RecordInv /\ LinkInv /\ CountInv /\ [Next]_vars => CountInv'
  <2> SUFFICES ASSUME TypeOK, RecordInv, LinkInv, CountInv, [Next]_vars PROVE CountInv'
    OBVIOUS
  <2>1. CASE UNCHANGED <<m_result, m_doneIp, countSuccess, countError>>
    BY <2>1 DEF CountInv, ResultsCountedOnce
  <2>2. ASSUME NEW n \in Node, Server(n) PROVE CountInv'
    <3>1. UNCHANGED <<countSuccess, countError>>
      BY <2>2 DEF Server, mainVars
    <3> QED
      BY <2>1, <2>2, <3>1, ServerResults, ResultKeepsCount
  <2>3. CASE Main
    <3>1. ASSUME NEW t \in Tasks, ScanTask(t) PROVE CountInv'
      BY <3>1, ScanKeepsCount
    <3> QED
      BY <2>1, <2>3, <3>1
         DEF Main, MainNext, sendBroadcast, BroadcastFails, CloseAfterFailure, ServerClosed, CheckClients,
             EndOfPass, CloseAllClients, closeAllClients, CloseServer, serverVars
  <2> QED
    BY <2>1, <2>2, <2>3, OthersKeepConsole DEF Next, Terminated, serverVars, mainVars
<1> QED
  BY <1>1, <1>2, TypeCorrect, RecordInvariant, LinkInvariant, PTL DEF Spec

\* The totals main prints are exact: every result is counted once or waits to
\* be counted, whatever the server thread adds while main goes through the records.
THEOREM ResultsCountedOnceHolds == Spec => []ResultsCountedOnce
<1>1. CountInv => ResultsCountedOnce
  BY DEF CountInv
<1> QED
  BY <1>1, CountInvariant, PTL

(***************************************************************************)
(* A pass that ends with isFinished has counted every record it has seen,  *)
(* and no result comes for a record that has one.                          *)
(***************************************************************************)
CountedInv ==
  /\ mainPc = "scan" /\ isFinished => \A t \in Tasks : t < cursor => m_doneIp[t] = nullptr
  /\ mainPc \in {"closeAll", "closing"} /\ isFinished => \A t \in Tasks : m_doneIp[t] = nullptr

LEMMA MainKeepsCounted ==
  ASSUME TypeOK, PassInv, CountedInv, Main
  PROVE  CountedInv'
<1> USE DEF CountedInv, Main
<1>1. CASE sendBroadcast
  BY <1>1 DEF sendBroadcast
<1>2. CASE BroadcastFails
  BY <1>2 DEF BroadcastFails
<1>3. CASE CheckClients
  <2>1. CASE TimerFinished(idle')
    BY <1>3, <2>1 DEF CheckClients, PassInv
  <2>2. CASE ~TimerFinished(idle')
    <3>1. mainPc' = "scan" /\ cursor' = 1
      BY <1>3, <2>2 DEF CheckClients
    <3>2. \A t \in Tasks : ~(t < 1)
      BY ConstantsAssumption DEF Tasks
    <3> QED
      BY <3>1, <3>2
  <2> QED
    BY <2>1, <2>2
<1>4. ASSUME NEW t \in Tasks, ScanTask(t) PROVE CountedInv'
  <2>1. /\ mainPc = "scan" /\ mainPc' = "scan" /\ t = cursor /\ cursor' = t + 1
        /\ isFinished' => isFinished /\ m_result[t] # NoInit
    BY <1>4 DEF ScanTask, StillFinished
  <2>2. /\ \A u \in Tasks : u # t => m_doneIp'[u] = m_doneIp[u]
        /\ m_result[t] # NoInit => m_doneIp'[t] = nullptr
    BY <1>4 DEF ScanTask, IsNew, TypeOK, ServerTypeOK
  <2>3. \A u \in Tasks : u < cursor' => u < cursor \/ u = t
    BY <2>1, ConstantsAssumption DEF Tasks
  <2> QED
    BY <2>1, <2>2, <2>3
<1>5. CASE EndOfPass
  <2>1. /\ mainPc = "scan" /\ mainPc' \in {"closeAll", "check"} /\ cursor = NumTasks + 1
        /\ UNCHANGED <<isFinished, m_doneIp>>
    BY <1>5 DEF EndOfPass, serverVars
  <2>2. \A t \in Tasks : t < cursor
    BY <2>1, ConstantsAssumption DEF Tasks
  <2> QED
    BY <2>1, <2>2
<1>6. CASE CloseAllClients
  BY <1>6 DEF CloseAllClients, closeAllClients, serverVars
<1>7. CASE CloseServer
  BY <1>7 DEF CloseServer
<1>8. CASE CloseAfterFailure
  BY <1>8 DEF CloseAfterFailure
<1> QED
  BY <1>1, <1>2, <1>3, <1>4, <1>5, <1>6, <1>7, <1>8 DEF MainNext

LEMMA CountedInvariant == Spec => []CountedInv
<1>1. Init => CountedInv
  BY DEF Init, MainInit, CountedInv
<1>2. TypeOK /\ RecordInv /\ LinkInv /\ PassInv /\ CountedInv /\ [Next]_vars => CountedInv'
  <2> SUFFICES ASSUME TypeOK, RecordInv, LinkInv, PassInv, CountedInv, [Next]_vars
               PROVE  CountedInv'
    OBVIOUS
  <2>1. CASE Main
    BY <2>1, MainKeepsCounted
  <2>2. ASSUME NEW n \in Node, Server(n) PROVE CountedInv'
    <3>1. UNCHANGED <<mainPc, isFinished, cursor>>
      BY <2>2 DEF Server, mainVars
    <3>2. \A t \in Tasks : m_result[t] # NoInit => m_doneIp'[t] = m_doneIp[t]
      BY <2>2, ServerResults DEF TypeOK, ServerTypeOK
    <3> QED
      BY <3>1, <3>2 DEF CountedInv, PassInv, AllDone
  <2>3. CASE UNCHANGED <<serverVars, mainVars>>
    BY <2>3 DEF serverVars, mainVars, CountedInv
  <2> QED
    BY <2>1, <2>2, <2>3, OthersKeepConsole DEF Next, Terminated
<1> QED
  BY <1>1, <1>2, TypeCorrect, RecordInvariant, LinkInvariant, PassInvariant, PTL DEF Spec

\* When main leaves its loop finished, every task has a result and every result
\* is in the totals it has printed.
THEOREM FinishedMeansCountedHolds == Spec => []FinishedMeansCounted
<1>1. TypeOK /\ PassInv /\ CountInv /\ CountedInv => FinishedMeansCounted
  <2> SUFFICES ASSUME TypeOK, PassInv, CountInv, CountedInv,
                      mainPc \in {"closeAll", "closing"}, isFinished
               PROVE  AllDone /\ countSuccess + countError = NumTasks
    BY DEF FinishedMeansCounted, AllDone
  <2>1. AllDone
    BY DEF PassInv
  <2>2. {t \in Tasks : m_doneIp[t] # nullptr} = {} /\ {t \in Tasks : m_result[t] # NoInit} = Tasks
    BY <2>1 DEF AllDone, CountedInv
  <2>3. countSuccess + countError + 0 = NumTasks
    BY <2>2, FS_EmptySet, TaskSetsFinite DEF CountInv, ResultsCountedOnce
  <2> QED
    BY <2>1, <2>3 DEF TypeOK, MainTypeOK
<1> QED
  BY <1>1, TypeCorrect, PassInvariant, CountInvariant, CountedInvariant, PTL
=============================================================================
