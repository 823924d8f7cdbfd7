----------------------------- MODULE DaemonMain -----------------------------
(***************************************************************************)
(* The two threads of a daemon: main, which runs the UDP server until the  *)
(* window thread ends, and the window thread, which shows the icon in the  *)
(* tray and handles the messages of a hidden window.                       *)
(***************************************************************************)
EXTENDS Integers, Sequences

CONSTANTS
  MaxQueue,   \* Bound: the user and the system post only to a queue shorter than this
  Closes      \* BOOLEAN: another program may send WM_CLOSE to the hidden window

ASSUME DaemonMainAssumption == MaxQueue \in Nat /\ Closes \in BOOLEAN

VARIABLES
  main,       \* where the main thread is
  window,     \* where the window thread is
  udp,        \* the UDP server: "none", "running" or "closed"
  g_wnd,      \* the window: "null", "shown" or "destroyed"
  icon,       \* is the icon in the tray?
  queue,      \* the messages posted to the window
  menu,       \* is the popup menu open?
  g_finish

mainVars   == <<main, udp>>
windowVars == <<window, g_wnd, icon, queue, menu, g_finish>>
dmVars     == <<main, udp, window, g_wnd, icon, queue, menu, g_finish>>

Messages == {"rbuttonup", "exit", "other", "null", "close"}

DmTypeOK ==
  /\ main \in {"load", "network", "thread", "run", "start", "join", "close", "exited"}
  /\ window \in {"none", "register", "create", "icon", "get", "check", "delete", "done"}
  /\ udp \in {"none", "running", "closed"}
  /\ g_wnd \in {"null", "shown", "destroyed"}
  /\ icon \in BOOLEAN /\ menu \in BOOLEAN /\ g_finish \in BOOLEAN
  /\ queue \in Seq(Messages)

DmInit ==
  /\ main = "load" /\ window = "none" /\ udp = "none"
  /\ g_wnd = "null" /\ queue = <<>>
  /\ icon = FALSE /\ menu = FALSE /\ g_finish = FALSE

-----------------------------------------------------------------------------
(***************************************************************************)
(* main.                                                                   *)
(***************************************************************************)
MainGoes(from, to) == main = from /\ main' = to

\* No configuration, projects that do not load, no network: main returns.
GiveUp == \/ MainGoes("load", "exited") /\ UNCHANGED <<udp, windowVars>>
          \/ MainGoes("network", "exited") /\ UNCHANGED <<udp, windowVars>>

LoadProjects == MainGoes("load", "network") /\ UNCHANGED <<udp, windowVars>>
InitWinSock2 == MainGoes("network", "thread") /\ UNCHANGED <<udp, windowVars>>

StartWindowThread ==
  /\ MainGoes("thread", "run")
  /\ window' = "register"
  /\ UNCHANGED <<udp, g_wnd, icon, queue, menu, g_finish>>

\* run and start of the UDP server; main does not look at what they return.
RunServer   == MainGoes("run", "start") /\ UNCHANGED <<udp, windowVars>>
StartServer == /\ MainGoes("start", "join")
               /\ udp' \in {"running", "none"}
               /\ UNCHANGED windowVars

\* Mutants of Joined: main does not wait for the window thread; main waits for
\* the flag that Exit sets.
Joined_Detached == window # "none"
Joined_Finish   == g_finish /\ window = "done"
Joined          == window = "done"

Join == MainGoes("join", "close") /\ Joined /\ UNCHANGED <<udp, windowVars>>

CloseServer == MainGoes("close", "exited") /\ udp' = "closed" /\ UNCHANGED windowVars

Main == \/ GiveUp \/ LoadProjects \/ InitWinSock2 \/ StartWindowThread
        \/ RunServer \/ StartServer \/ Join \/ CloseServer

-----------------------------------------------------------------------------
(***************************************************************************)
(* createWindow, and WindowProc for the messages its loop dispatches.      *)
(***************************************************************************)
WindowGoes(from, to) == window = from /\ window' = to

WindowFails ==
  /\ \/ WindowGoes("register", "done")
     \/ WindowGoes("create", "done")
  /\ UNCHANGED <<mainVars, g_wnd, icon, queue, menu, g_finish>>

RegisterWindowClass ==
  /\ WindowGoes("register", "create")
  /\ UNCHANGED <<mainVars, g_wnd, icon, queue, menu, g_finish>>

CreateTheWindow ==
  /\ WindowGoes("create", "icon")
  /\ g_wnd' = "shown"
  /\ UNCHANGED <<mainVars, icon, queue, menu, g_finish>>

createNotifyIcon ==
  /\ WindowGoes("icon", "get")
  /\ icon' = TRUE
  /\ UNCHANGED <<mainVars, g_wnd, queue, menu, g_finish>>

\* showMenu: the menu opens, unless one is open already.  TrackPopupMenu
\* dispatches messages until the user is done with the menu.
showMenu ==
  /\ menu' = TRUE
  /\ queue' = IF menu THEN Append(Tail(queue), "null") ELSE Tail(queue)
  /\ UNCHANGED <<g_wnd, g_finish>>

\* DefWindowProc destroys the window on WM_CLOSE; its messages and its menu go with it.
DefWindowProc(msg) ==
  /\ g_wnd' = IF msg = "close" THEN "destroyed" ELSE g_wnd
  /\ queue' = IF msg = "close" THEN <<>> ELSE Tail(queue)
  /\ menu' = (menu /\ msg # "close")
  /\ UNCHANGED g_finish

\* Mutant of IsExit: the wrong item.
IsExit_Name(msg) == msg = "other"
IsExit(msg)      == msg = "exit"

WindowProc(msg) ==
  \/ msg = "rbuttonup" /\ showMenu
  \/ IsExit(msg) /\ g_finish' = TRUE /\ queue' = Tail(queue) /\ UNCHANGED <<g_wnd, menu>>
  \/ msg # "rbuttonup" /\ ~IsExit(msg) /\ DefWindowProc(msg)

\* GetMessage and DispatchMessage, in the loop of createWindow or, while the
\* menu is open, in TrackPopupMenu's.
Dispatch ==
  /\ window = "get" /\ g_wnd = "shown" /\ queue # <<>>
  /\ WindowProc(Head(queue))
  /\ window' = IF menu' THEN "get" ELSE "check"
  /\ UNCHANGED <<mainVars, icon>>

\* For a window that is gone GetMessage returns -1, which is not 0.
GetMessageFails ==
  /\ g_wnd = "destroyed"
  /\ WindowGoes("get", "check")
  /\ UNCHANGED <<mainVars, g_wnd, icon, queue, menu, g_finish>>

CheckFinish ==
  /\ window = "check"
  /\ window' = IF g_finish THEN "delete" ELSE "get"
  /\ UNCHANGED <<mainVars, g_wnd, icon, queue, menu, g_finish>>

deleteNotifyIcon ==
  /\ WindowGoes("delete", "done")
  /\ icon' = FALSE
  /\ UNCHANGED <<mainVars, g_wnd, queue, menu, g_finish>>

WindowThread ==
  \/ WindowFails \/ RegisterWindowClass \/ CreateTheWindow \/ createNotifyIcon
  \/ Dispatch \/ GetMessageFails \/ CheckFinish \/ deleteNotifyIcon

-----------------------------------------------------------------------------
(***************************************************************************)
(* The user and the system.                                                *)
(***************************************************************************)
MayPost(msg) ==
  CASE msg = "rbuttonup" -> icon
    [] msg = "close"     -> Closes
    [] OTHER             -> msg = "other"

Post(msg) ==
  /\ g_wnd = "shown" /\ Len(queue) < MaxQueue
  /\ MayPost(msg)
  /\ queue' = Append(queue, msg)
  /\ UNCHANGED <<mainVars, window, g_wnd, icon, menu, g_finish>>

\* The user picks Exit, which posts its WM_COMMAND, or leaves the menu; showMenu
\* then posts WM_NULL and WindowProc returns.
LeaveMenu(picked) ==
  /\ menu /\ window = "get"
  /\ menu' = FALSE
  /\ queue' = queue \o picked \o <<"null">>
  /\ window' = "check"
  /\ UNCHANGED <<mainVars, g_wnd, icon, g_finish>>

Environment ==
  \/ \E msg \in Messages : Post(msg)
  \/ LeaveMenu(<<"exit">>)
  \/ LeaveMenu(<<>>)

DmNext == Main \/ WindowThread \/ Environment

\* The scheduler runs both threads; nothing makes the user act.
DmSpec == DmInit /\ [][DmNext]_dmVars /\ WF_dmVars(Main) /\ WF_dmVars(WindowThread)

-----------------------------------------------------------------------------
(***************************************************************************)
(* A daemon that has started its threads leaves nothing behind when main   *)
(* returns: whichever thread is ahead of the other, the window thread is   *)
(* over, the icon is off the tray and the UDP server is closed.            *)
(***************************************************************************)
NothingLeftBehind ==
  main = "exited" /\ window # "none" => window = "done" /\ ~icon /\ udp = "closed"

\* A window thread that ends, after Exit or because the window cannot be made,
\* ends the daemon.
NoDaemonWithoutWindow == window = "done" ~> main = "exited"

(***************************************************************************)
(* Picking Exit in the tray menu ends the daemon, unless a second click on *)
(* the icon was quicker and its menu waits for the user, or WM_CLOSE       *)
(* destroyed the window with its messages: then the loop, which takes the  *)
(* -1 of GetMessage for a message, goes round for ever.                    *)
(***************************************************************************)
ExitEndsDaemon ==
  (\E i \in DOMAIN queue : queue[i] = "exit") ~> (main = "exited" \/ menu \/ g_wnd = "destroyed")
=============================================================================
