---------------------------- MODULE FdbProtocol ----------------------------
(***************************************************************************)
(* What the console (master) and the daemons (slaves) share: the tasks of  *)
(* one build, the packets of master.proto and slave.proto, and the TCP     *)
(* connections that carry them.                                            *)
(*                                                                         *)
(* A connection is a pair <<d, s>>: the s-th TcpProtobufClient daemon d    *)
(* creates.  The console's TcpProtobufNode for that connection is          *)
(* identified with the pair, so "node" means the same thing on both sides. *)
(* Sockets, framing and threads come from the library smallUtils, which is *)
(* not part of the repository; it is modelled from how the code uses it:   *)
(* a TCP stream is a FIFO queue in each direction that may be cut at any   *)
(* moment, and data that was under way when it is cut may be lost.         *)
(***************************************************************************)
EXTENDS Integers, Sequences, FiniteSets, ProcessCodes

CONSTANTS
  NumTasks,      \* number of tasks loadConfig created; their ids are 1..NumTasks
  Daemons,       \* the daemons of the network
  MaxSessions,   \* connections one daemon can make: WhoIsHere datagrams it can get
  Projects,      \* project names
  ProjectOf,     \* the project of each task
  Config,        \* the projects each daemon's configuration file lists
  AbortOnError,  \* the tasks whose AbortOnError flag is set
  FreeCores,     \* the values Projects::getFreeCore may return
  ExitCodes,     \* the exit codes a build process may end with
  Unreliable,    \* the daemons whose network, disk or process creation may fail
  nullptr        \* no node, no client

Tasks == 1 .. NumTasks
NoId  == 0       \* a packet without a task or a result: loadConfig's ids start at 1

Node    == Daemons \X (1 .. MaxSessions)
Host(n) == n[1]

ASSUME ConstantsAssumption ==
  /\ NumTasks \in Nat \ {0}
  /\ MaxSessions \in Nat \ {0}
  /\ ProjectOf \in [Tasks -> Projects]
  /\ Config \in [Daemons -> SUBSET Projects]
  /\ AbortOnError \subseteq Tasks
  /\ FreeCores \subseteq Nat
  /\ ExitCodes \subseteq Int
  /\ Unreliable \subseteq Daemons
  /\ nullptr \notin Node

-----------------------------------------------------------------------------
(***************************************************************************)
(* Packets.  A slave packet always carries info; a result is present when  *)
(* id # NoId.  A master packet is a task (id # NoId) or the close command. *)
(* The file contents the packets carry are left out.                       *)
(***************************************************************************)
SlavePacket ==
  [task_count : Int, id : Tasks \cup {NoId}, exit_code : Int, process_code : ExitCodeResult]

MasterPacket == [id : Tasks \cup {NoId}, close : BOOLEAN]

InfoPacket(count) ==
  [task_count |-> count, id |-> NoId, exit_code |-> 0, process_code |-> NoInit]

ResultPacket(count, t, proc) ==
  [task_count |-> count, id |-> t, exit_code |-> proc.exit, process_code |-> proc.result]

TaskPacket(t) == [id |-> t, close |-> FALSE]
ClosePacket   == [id |-> NoId, close |-> TRUE]

-----------------------------------------------------------------------------
VARIABLES
  conn,       \* conn[n]: state of the daemon's TcpClient for connection n
  toMaster,   \* toMaster[n]: slave packets sent and not yet handled by the console
  toSlave,    \* toSlave[n]: master packets sent and not yet handled by the daemon
  inbox       \* inbox[d]: WhoIsHere datagrams on their way to daemon d

netVars == <<conn, toMaster, toSlave>>

ConnState == {"none", "connecting", "connected", "closed"}

NetTypeOK ==
  /\ conn \in [Node -> ConnState]
  /\ toMaster \in [Node -> Seq(SlavePacket)]
  /\ toSlave \in [Node -> Seq(MasterPacket)]
  /\ inbox \in [Daemons -> 0 .. MaxSessions]

NetInit ==
  /\ conn = [n \in Node |-> "none"]
  /\ toMaster = [n \in Node |-> <<>>]
  /\ toSlave = [n \in Node |-> <<>>]
  /\ inbox = [d \in Daemons |-> 0]

\* What toSlave becomes when the console sends p to the nodes of ns: a packet
\* sent on a connection that is already cut is lost (the callers ignore the
\* result of send).
SentToSlaves(ns, p) ==
  [n \in Node |-> IF n \in ns /\ conn[n] = "connected" THEN Append(toSlave[n], p)
                                                       ELSE toSlave[n]]

\* The connections of ns are closed and what the daemon had not read of them
\* is gone.
Cut(ns) ==
  /\ conn' = [n \in Node |-> IF n \in ns THEN "closed" ELSE conn[n]]
  /\ toSlave' = [n \in Node |-> IF n \in ns THEN <<>> ELSE toSlave[n]]

\* The network, or the keep-alive timer of the daemon's TcpClient, cuts an
\* established connection.
ConnectionBreaks(n) ==
  /\ Host(n) \in Unreliable
  /\ conn[n] = "connected"
  /\ Cut({n})
  /\ UNCHANGED toMaster
=============================================================================
