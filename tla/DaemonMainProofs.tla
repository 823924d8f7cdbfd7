--------------------------- MODULE DaemonMainProofs ---------------------------
(***************************************************************************)
(* Type correctness and NothingLeftBehind, for every length of the message *)
(* queue and whether or not the window is closed by another program.       *)
(***************************************************************************)
EXTENDS DaemonMain, TLAPS

(***************************************************************************)
(* Type correctness of the daemon's two threads.                           *)
(***************************************************************************)
THEOREM DaemonTypeCorrect == DmSpec => []DmTypeOK
<1> USE DEF DmTypeOK, Messages
<1>1. DmInit => DmTypeOK
  <2>1. <<>> \in Seq(Messages)
    OBVIOUS
  <2> QED BY <2>1, Zenon DEF DmInit
<1>2. DmTypeOK /\ [DmNext]_dmVars => DmTypeOK'
  <2> SUFFICES ASSUME DmTypeOK, [DmNext]_dmVars
               PROVE  DmTypeOK'
    OBVIOUS
  <2>1. CASE Main
    BY <2>1 DEF Main, GiveUp, LoadProjects, InitWinSock2, StartWindowThread, RunServer,
         StartServer, Join, CloseServer, MainGoes, windowVars
  <2>2. CASE WindowThread
    <3>1. CASE Dispatch
      <4>1. queue # <<>> /\ window' \in {"get", "check"} /\ UNCHANGED <<main, udp, icon>>
        BY <3>1 DEF Dispatch, mainVars
      <4>2. Tail(queue) \in Seq(Messages) /\ Append(Tail(queue), "null") \in Seq(Messages)
        BY <4>1
      <4>3. /\ queue' \in {Tail(queue), Append(Tail(queue), "null"), <<>>}
            /\ g_wnd' \in {g_wnd, "destroyed"}
        BY <3>1 DEF Dispatch, WindowProc, showMenu, IsExit, DefWindowProc
      <4>4. menu' \in BOOLEAN /\ g_finish' \in BOOLEAN
        BY <3>1 DEF Dispatch, WindowProc, showMenu, IsExit, DefWindowProc
      <4>5. queue' \in Seq(Messages)
        <5>1. <<>> \in Seq(Messages)
          OBVIOUS
        <5> QED BY <4>2, <4>3, <5>1, Zenon
      <4>6. g_wnd' \in {"null", "shown", "destroyed"}
        BY <4>3
      <4>7. main' \in {"load", "network", "thread", "run", "start", "join", "close", "exited"}
        BY <4>1
      <4> QED BY <4>1, <4>4, <4>5, <4>6, <4>7
    <3>2. CASE WindowThread /\ ~Dispatch
      BY <3>2 DEF WindowThread, WindowFails, RegisterWindowClass, CreateTheWindow, createNotifyIcon,
           GetMessageFails, CheckFinish, deleteNotifyIcon, WindowGoes, mainVars
    <3> QED BY <2>2, <3>1, <3>2
  <2>3. CASE Environment
    <3>1. CASE \E msg \in Messages : Post(msg)
      BY <3>1 DEF Post, mainVars
    <3>2. CASE LeaveMenu(<<"exit">>) \/ LeaveMenu(<<>>)
      <4>1. <<"exit">> \in Seq(Messages) /\ <<>> \in Seq(Messages) /\ <<"null">> \in Seq(Messages)
        OBVIOUS
      <4>2. PICK picked \in Seq(Messages) : LeaveMenu(picked)
        BY <3>2, <4>1
      <4>3. queue \o picked \in Seq(Messages)
        OBVIOUS
      <4>4. (queue \o picked) \o <<"null">> \in Seq(Messages)
        BY <4>1, <4>3
      <4> QED BY <4>2, <4>4 DEF LeaveMenu, mainVars
    <3> QED BY <2>3, <3>1, <3>2 DEF Environment
  <2>4. CASE UNCHANGED dmVars
    BY <2>4 DEF dmVars
  <2> QED BY <2>1, <2>2, <2>3, <2>4 DEF DmNext
<1> QED BY <1>1, <1>2, PTL DEF DmSpec

\* The window thread is between its first and its last step exactly while main
\* runs the server or waits for it.
ThreadsInStep ==
  /\ main \in {"load", "network", "thread"} => window = "none"
  /\ main \in {"run", "start", "join"} => window # "none"
  /\ main = "close" => window = "done"
  /\ main = "exited" => \/ window = "none"
                        \/ window = "done" /\ udp = "closed"

\* The icon is there from createNotifyIcon to deleteNotifyIcon.
IconInLoop == icon => window \in {"get", "check", "delete"}

LeftInv == ThreadsInStep /\ IconInLoop

LEMMA LeftInvInit == DmInit => LeftInv
  BY DEF DmInit, LeftInv, ThreadsInStep, IconInLoop

LEMMA LeftInvNext == LeftInv /\ [DmNext]_dmVars => LeftInv'
<1> SUFFICES ASSUME LeftInv, [DmNext]_dmVars
             PROVE  LeftInv'
  OBVIOUS
<1> USE DEF LeftInv, ThreadsInStep, IconInLoop
<1>1. CASE Main
  <2>1. CASE GiveUp
    BY <2>1 DEF GiveUp, MainGoes, windowVars
  <2>2. CASE LoadProjects \/ InitWinSock2 \/ RunServer \/ StartServer
    BY <2>2 DEF LoadProjects, InitWinSock2, RunServer, StartServer, MainGoes, windowVars
  <2>3. CASE StartWindowThread
    BY <2>3 DEF StartWindowThread, MainGoes
  <2>4. CASE Join
    BY <2>4 DEF Join, Joined, MainGoes, windowVars
  <2>5. CASE CloseServer
    BY <2>5 DEF CloseServer, MainGoes, windowVars
  <2> QED BY <1>1, <2>1, <2>2, <2>3, <2>4, <2>5 DEF Main
<1>2. CASE WindowThread
  <2>1. CASE WindowFails \/ RegisterWindowClass \/ CreateTheWindow
    BY <2>1 DEF WindowFails, RegisterWindowClass, CreateTheWindow, WindowGoes, mainVars
  <2>2. CASE createNotifyIcon \/ deleteNotifyIcon
    BY <2>2 DEF createNotifyIcon, deleteNotifyIcon, WindowGoes, mainVars
  <2>3. CASE Dispatch
    <3>1. window = "get" /\ window' \in {"get", "check"} /\ UNCHANGED <<main, udp, icon>>
      BY <2>3 DEF Dispatch, mainVars
    <3> QED BY <3>1
  <2>4. CASE GetMessageFails \/ CheckFinish
    BY <2>4 DEF GetMessageFails, CheckFinish, WindowGoes, mainVars
  <2> QED BY <1>2, <2>1, <2>2, <2>3, <2>4 DEF WindowThread
<1>3. CASE Environment
  <2>1. CASE \E msg \in Messages : Post(msg)
    BY <2>1 DEF Post, mainVars
  <2>2. CASE LeaveMenu(<<"exit">>) \/ LeaveMenu(<<>>)
    BY <2>2 DEF LeaveMenu, mainVars
  <2> QED BY <1>3, <2>1, <2>2 DEF Environment
<1>4. CASE UNCHANGED dmVars
  BY <1>4 DEF dmVars
<1> QED BY <1>1, <1>2, <1>3, <1>4 DEF DmNext

(***************************************************************************)
(* When main returns, whichever way the threads were interleaved, the      *)
(* window thread is over, its icon gone and the UDP server closed.         *)
(***************************************************************************)
THEOREM NothingLeftBehindHolds == DmSpec => []NothingLeftBehind
<1>1. LeftInv => NothingLeftBehind
  BY DEF LeftInv, ThreadsInStep, IconInLoop, NothingLeftBehind
<1> QED BY LeftInvInit, LeftInvNext, <1>1, PTL DEF DmSpec
===============================================================================
