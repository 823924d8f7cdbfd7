-------------------------- MODULE UdpDaemonServer --------------------------
(***************************************************************************)
(* A daemon's UDP thread: it answers the console's WhoIsHere datagram with *)
(* a TcpProtobufClient session and polls that session until it is over.    *)
(***************************************************************************)
EXTENDS TcpProtobufClient

VARIABLES
  m_status,   \* m_status[d]: Idle, Connectig or Working
  m_client    \* m_client[d]: the session daemon d holds, or nullptr

udpVars == <<m_status, m_client>>

UdpTypeOK ==
  /\ m_status \in [Daemons -> {"Idle", "Connectig", "Working"}]
  /\ m_client \in [Daemons -> Node \cup {nullptr}]

UdpInit ==
  /\ m_status = [d \in Daemons |-> "Idle"]
  /\ m_client = [d \in Daemons |-> nullptr]

\* The session the next TcpProtobufClient of daemon d opens.
IsNextSession(d, n) ==
  /\ Host(n) = d
  /\ conn[n] = "none"
  /\ \A s \in 1 .. (n[2] - 1) : conn[<<d, s>>] # "none"

\* The console names the project of its first task in the datagram.
BroadcastProject == ProjectOf[1]

(***************************************************************************)
(* onRecvFromNode.  While a session exists, and when the datagram is       *)
(* damaged, names an unknown project, comes from a foreign address or      *)
(* finds no free core, it is dropped.  Otherwise a session starts and any  *)
(* other datagrams received so far are cleared.                            *)
(***************************************************************************)
DropInvitation(d) ==
  /\ inbox[d] > 0
  /\ \/ m_status[d] # "Idle"
     \/ BroadcastProject \notin Config[d]
     \/ 0 \in FreeCores
     \/ d \in Unreliable
  /\ inbox' = [inbox EXCEPT ![d] = @ - 1]
  /\ UNCHANGED <<m_status, m_client, netVars, clientVars>>

\* Mutant of MayAccept: the status is not looked at.
MayAccept_Always(d) == BroadcastProject \in Config[d]
MayAccept(d)        == BroadcastProject \in Config[d] /\ m_status[d] = "Idle"

AcceptInvitation(d) ==
  /\ inbox[d] > 0
  /\ MayAccept(d)
  /\ \E c \in FreeCores : c > 0
  /\ \E n \in Node :
       /\ IsNextSession(d, n)
       /\ m_client' = [m_client EXCEPT ![d] = n]
       /\ conn' = [conn EXCEPT ![n] = "connecting"]
  /\ m_status' = [m_status EXCEPT ![d] = "Connectig"]
  /\ \E left \in 0 .. (inbox[d] - 1) : inbox' = [inbox EXCEPT ![d] = left]
  /\ UNCHANGED <<toMaster, toSlave, clientVars>>

(***************************************************************************)
(* doWork.  When the session is over the TcpProtobufClient is destroyed:   *)
(* its Task records are forgotten, their processes run on.                 *)
(***************************************************************************)
SessionStarted(d) ==
  /\ m_status[d] = "Connectig"
  /\ conn[m_client[d]] = "connected"
  /\ m_status' = [m_status EXCEPT ![d] = "Working"]
  /\ UNCHANGED <<m_client, inbox, netVars, clientVars>>

\* Mutant of IsOver: a connection that failed is not noticed.
IsOver_Working(d) == m_status[d] = "Working" /\ conn[m_client[d]] = "closed"
IsOver(d)         == m_status[d] # "Idle" /\ conn[m_client[d]] = "closed"

SessionOver(d) ==
  /\ IsOver(d)
  /\ m_status' = [m_status EXCEPT ![d] = "Idle"]
  /\ m_client' = [m_client EXCEPT ![d] = nullptr]
  /\ m_tasks' = [m_tasks EXCEPT ![m_client[d]] = {}]
  /\ UNCHANGED <<inbox, process, netVars>>

Udp_doWork(d) == SessionStarted(d) \/ SessionOver(d)

\* What the UDP thread of daemon d does.
UdpNext(d) == DropInvitation(d) \/ AcceptInvitation(d) \/ Udp_doWork(d)
=============================================================================
