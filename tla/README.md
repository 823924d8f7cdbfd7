# FreeDistributedBuild in TLA+

FreeDistributedBuild spreads the build commands of one computer over the
Windows machines of a local network. `fdbconsole` (the *master*, `src/console`)
reads a build set, makes a table of tasks and invites daemons by a multicast
datagram; each `fdbdaemon` (a *slave*, `src/daemon`) that accepts connects to the
console by TCP, tells how many tasks it can take, runs the tasks it is sent as
processes and returns exit codes and output files.

This directory holds a TLA+ specification of that protocol, and of the parts
around it, as the code implements them, TLC configurations that check it on
small instances, and proofs that TLAPS checks for all instances.

## The system

| Component | Source | State | Operations | Modelled in |
|---|---|---|---|---|
| Console task server | `console/tcp_protobufserver.*`, `protocol/tcp_protobufnode.*` | the `TaskInfo` records (`m_node`, `m_result`, `m_exitCode`, `m_doneIp`), the clients and their `m_freeCores` | `newClient`, `onRecvFromNode` (`sendTasksToSlave`, `applyResultFromSlave`), `doWork`, `onClientDisconnected`, `closeAllClients` | `TcpProtobufServer` |
| Console main thread | `console/console.cpp`, `main`, `sendBroadcast` | `workTimer`, `isFinished`, the totals | broadcast, loop, shutdown, exit code | `ConsoleMain` |
| Build set | `console/console.cpp`, `loadConfig`, `taskGenerator`; `console.h` | the task table, the counter of ids | reading the elements, wildcards, substituting variables, converting paths | `BuildSet` |
| Daemon session | `daemon/tcp_protobufclient.*` | `m_tasks`, one process each | `onConnect`, `onRecvFromNode` (`runTaskProcess`), `doWork` | `TcpProtobufClient` |
| Daemon UDP server | `daemon/udp_daemonserver.*` | `m_status`, `m_client` | `onRecvFromNode`, `doWork` | `UdpDaemonServer` |
| Protocol | `protocol/*.proto`, `whoishere.h` | packets under way | | `FdbProtocol` |
| Files of a task | `tcp_protobufserver.cpp`, `tcp_protobufclient.cpp` | sources and outputs at the console, in packets and on the daemons' disks | loading, saving, deleting | `TaskFiles` |
| Build process | `daemon/Process.*` | a Windows process and its handles | `execute`, `isRunning`, `getProcessExitCode`, `terminate`, the destructor | `AppObject`, `ProcessLife` |
| Projects, work time | `common/project.*` | projects, work-time window, the time of day | `loadFromFile`, `loadWorkTime`, `getProject`, `getWorkPercent`, `getFreeCore` | `Projects` |
| Daemon main, tray window | `daemon/daemon.cpp`, `window.cpp` | two threads, the window's messages, the icon, `g_finish` | `main`, `createWindow`, `WindowProc`, `showMenu` | `DaemonMain` |
| smallUtils, tinyxml2, protobuf | submodules (empty), vendored | sockets, threads, timers | | external, see below |

How they interact. The console has two threads: the server thread calls the
callbacks of `TcpProtobufServer` one at a time, and the main thread looks at the
same records once a second; each locks one record's `m_mutex` at a time. A daemon
has a UDP thread that owns at most one session object, and the session's own
thread that calls the callbacks of `TcpProtobufClient`. Console and daemon meet
only in datagrams and TCP packets.

What is hard about it:

* *credit*: the console sends a task only while `m_freeCores > 0`; every slave
  packet overwrites that number with one computed earlier, by a daemon that did
  not know what was under way;
* *disconnects* at any moment, from both sides, some of them used as the answer
  to an error (a refused task, a failed `AbortOnError` task, an expired timer),
  with results or tasks still in the queues;
* *two threads* on the task records, and a timer that samples the number of
  clients;
* *shutdown*, while clients are still connecting and tasks are still sent;
* *processes and files outlive sessions*: nothing terminates a process or deletes
  its files when its session is lost, and the next session may get the same task;
* *free cores change with the clock*, between the call that accepts an invitation
  and the one that reports them.

What makes each part correct: the server never loses, duplicates or doubly
assigns a task and never keeps a pointer to a deleted node; main counts every
result once, terminates, and returns the right exit code; a session holds a task
exactly while the console believes so, and (what fails, see Findings) never more
tasks than cores; a daemon has one session at a time and always comes back to `Idle`; a success is the
complete output of the task's own source; a daemon's command names the files the
daemon has saved; the free cores follow the work-time window; Exit ends a daemon
and leaves nothing behind.

## Modules

* `FdbProtocol`: constants and their assumptions, packets, connections. A
  connection is a pair `<<daemon, session number>>`; it also names the console's
  node for it. `toMaster` and `toSlave` are the queues of a connection, `conn` the
  state of the daemon's socket, `inbox` the datagrams under way. A packet keeps
  the fields the handlers decide on; the contents of files are in `TaskFiles`.
* `TcpProtobufServer`: the records and callbacks of the server thread. A callback
  is one action per packet or per client. `sendTasksToSlave` and
  `applyResultFromSlave` are operators used inside the action of
  `onRecvFromNode`, in the order of the code: the info of a packet first, then
  its result. `peer[n]` says whether the console has a node for connection `n`.
* `ConsoleMain`: the main thread from `sendBroadcast` to `return`, one action per
  record of the scan, so that the server thread can act between two records.
  When `sendBroadcast` fails the server thread goes on until `CloseAfterFailure`.
  `idle` counts the passes (a second each) since `workTimer` was last restarted.
* `TcpProtobufClient`: the session. `process[n][t]` is what
  `getProcessExitCode` reports of the process session `n` started for task `t`;
  processes survive their session, as in the code.
* `UdpDaemonServer`: status and session of a daemon. A session object that is
  over is deleted, and its `m_tasks` with it.
* `BuildFarm`: composes the four threads (`Main`, `Server(n)`, `Session(n)`,
  `Udp(d)`) with the processes and the network, and states the properties.
* `TaskBoard`: the abstract specification of the console's promise, a board on
  which a task is free, with one worker, or done.
* `TaskFiles`: a superposition on `BuildFarm`. Each step of the farm gets its effect
  on the files: the source in a task packet (`inputdata`), the files on a daemon's
  disk, what a process has read, the output in a result packet and the one saved.
  A content is the number of the task it belongs to, or `Broken`. The one added
  step, `ProcessReads`, is the build process opening its files.
* `ProcessCodes`, `ProcessLife`, `AppObject`: the codes; the abstract life of a process
  as a session polls it (one start, one end, no change after it); and the class
  with the Windows process and the handles behind it. `AppObject` and the processes
  of `BuildFarm` both implement `ProcessLife`, which is what lets the farm use
  `process[n][t]` in place of the object.
* `Projects`: the configuration file, read once, and the clock. An element without a text,
  of which `GetText` is null, crashes the program.
* `BuildSet`: `loadConfig`, one action per `Task` element, and the daemon's conversion
  of paths (`AtDaemon`). Strings are sequences of tokens (variables, separators, the
  star, pieces of text), so that substitution and conversion are what they are in
  the code and not the identity. The extension of a file is one token.
* `DaemonMain`: main and the window thread of a daemon with the window's messages.
* `MCBuildFarm`, `MCTaskFiles`, `MCProjects`, `MCAppObject`, `MCBuildSet`: values for the
  constants. Modules ending in `Proofs`: theorems.

Operators whose names end in an underscore and a word (`Freed_FirstOnly`) are
mutants: forms of the operator of the same name with a plausible bug, kept to
show that a property notices it. No specification uses them.

### The environment

smallUtils is a submodule that is not in the repository, so sockets, threads and
timers are modelled from how the code uses them. Assumed of it: TCP queues are
FIFO; a connection can be cut at any time, which loses what the daemon has not
read and may lose what the console has not read; when a callback returns `false`
the library disconnects; the console's library notices a closed connection and
calls `onClientDisconnected` before it deletes the node; a new session starts
with empty queues. `Process.cpp` in `src/daemon` is a copy of a smallUtils class
that the build does not compile; it tells what the class does.

`Unreliable` is the set of daemons that may fail: the connection breaks or cannot
be made, a datagram is damaged, the source file cannot be saved, a process cannot
be created. `getFreeCore` depends on the time of day, so each call may return any
value of `FreeCores`. Saving an output file on the console may fail at any time.

## Runs

Deadlock is checked in the runs of the farm, with and without files: a behaviour
ends only in `Terminated`, when the console has returned and the daemons are at
rest. It is not checked for `AppObject`, `BuildSet` and `DaemonMain`, which end when
every object is destroyed, the build set is loaded, or main has returned.

* `farm_safety` (1.2 million states): two daemons with two cores, the second
  unreliable, two tasks with their files, the first with `AbortOnError`; a task fails
  when its process cannot be started or its output cannot be saved. `TasksConserved`
  says that console and daemon agree about every task of a live connection;
  `NoDanglingNode`, `ResultsCountedOnce`, `FinishedMeansCounted` and `ExitZeroMeansDone` are
  about the records and main (the timer lasts two passes: with one it has always
  expired when main leaves its loop, and main never returns 0);
  `IdleClientHasCredit` says that no daemon starves; `SuccessIsOwnOutput` and
  `FilesOfTasks` follow the files, for disks that can be read, one session per daemon
  and tasks with files of their own; `ImplementsTaskBoard` is the refinement, with
  `owner <- m_node` and `done` the tasks with a result; `ImplementsProcessLife` says that
  no session starts a second process for a task. Two tasks and two daemons are the
  least for which a task can move from one daemon to the other while a second one is
  under way.
* `farm_reconnect` (4.4 million states): one unreliable daemon that can make two
  sessions, tasks of two projects with their files, exit codes 0 and 1, both tasks with
  `AbortOnError`, so that a failed task leaves its files behind. The processes of the
  first session go on while the second has the same tasks. Shows `OneSessionPerDaemon`,
  that each session holds the tasks the console has assigned to it (`TasksConserved`), that
  a success has an output (`SuccessMeansOutput`) and that results are final
  (`ResultIsFinal`). That a session starts with empty queues is assumed, not shown (see
  the environment above). `SuccessIsOwnOutput` fails here; what is left of it is
  `SuccessIsNoOthersOutput`.
* `farm_liveness` (399 thousand states): one reliable daemon that knows both projects, one
  unreliable daemon that knows only the broadcast one, exit codes 0 and 1, the first task
  with `AbortOnError`. `AllTasksGetDone` (unless the reliable daemon leaves because of
  `AbortOnError`), `ConsoleReturns`, `DaemonsComeToRest`, under `FairSpec`. With two tasks and
  two cores no new credit is needed; that credit comes back is `IdleClientHasCredit`.
* `work_time` (9.1 thousand states): a day of a few minutes, every window in it (also over
  midnight, with equal ends, absent, without a text, garbled), percentages below 0 and above 100.
  `WindowIsTheWay` compares the two comparisons of `getWorkPercent` with the minutes
  a clock's hand passes from Begin to End; `CoresAreNearest` is the rounding;
  `CoresChangeAtEdges` and `WindowComes` follow the clock (weak fairness of `Tick`).
* `app_object` (1.3 thousand states): three objects, exit codes 0, 1 and 259.
  `ImplementsProcessLife`; what 259 does is the run `exit_259`.
* `build_set` (1.6 thousand states): 247 build sets of up to two projects (one unknown)
  and two tasks. `IdsAreDense`; `WildcardIsComplete`: a wildcard stands for the files of its
  directory that end as it does; `FilesStayApart`; and `CommandNamesItsFiles`: what a daemon
  runs is what the `Params` say with the daemon's own paths in them. `InstanceAssumption`
  makes TLC evaluate what the theorems assume of the strings.
* `daemon_main` (6.7 thousand states): a queue of three messages, failures to make the
  window, clicks while the menu is open, and `WM_CLOSE` from another program. Weak
  fairness of both threads; nothing makes the user act.

Bounds: `NumTasks`, `Daemons`, `MaxSessions` (also the number of datagrams a daemon
can get, so that it never wants more sessions than there are) and `WaitPasses`
(five in the code, one or two here: what matters is that the timer can expire
before, between and after the steps of the daemons, and that it can be
restarted). `MaxQueue` bounds the messages posted to the daemon's window. No state
constraint is used; the state spaces are finite.

Fairness is weak and per thread: main, the server's work for each connection,
each session, each UDP thread, each process. It says that threads run, that the
server goes round its clients, and that a compiler ends. Nothing is assumed of
the network or of the order of a thread's own steps.

### Findings

Each has a run that TLC finds violated.

* `one_core`: `TcpProtobufClient::doWork` computes the free cores before it erases
  the finished task. With one core the report is 0 and the daemon is never given
  a second task. `getFreeCore` reserves three threads, so every machine with up
  to four has one core. `AllTasksGetDone` and `ConsoleReturns` need two cores for
  the same reason.
* `overload`: the same report leaves out the tasks under way, and the console overwrites its
  own count with it. A daemon with three cores (six or more hardware threads) gets a
  fourth task while three are under way; with c cores each report can bring c - 2 tasks
  more than there is room for. Nothing at the daemon refuses them. Erasing the task
  before reporting would cure `one_core` and make two cores overload too: as the code is,
  two is the only number of cores that neither starves nor overloads.
* `late_exit`: the timer is restarted only by a client that is there when main
  looks. One that comes, delivers the last result and leaves between two looks,
  before or during a scan, does not count; main then returns 1, "No one daemon else
  responding!", for a
  complete build.
* `session_end`: "Finished all tasks" is logged for every session that ends, also
  when its processes still run. They are not terminated and their files stay.
* `exit_259`: 259 is `STILL_ACTIVE`. A process that ends with it is reported to run
  (`Process.cpp:123`, against the comment at `Process.h:57`), and its task never gets a result.

### What the passing runs take for granted

A passing run states the conditions under which a property holds in the values of
its constants. Each of them is needed: TLC finds the property violated when the
one constant is changed (the partial extension apart, which is read off the code).
The hazards behind these rows are thus not caught by a passing run.

| Run, property | Changed | What happens |
|---|---|---|
| `farm_safety`, `IdleClientHasCredit` | `FreeCores = {0, 2}` | The invitation is accepted with free cores; when the connection is made `onConnect` (`:102`) reports 0, and a daemon without tasks never reports again. |
| `farm_safety`, `SuccessIsOwnOutput` | `LoadFails = {"output"}` | An output that cannot be loaded is logged and sent as empty data with exit code 0 (`tcp_protobufclient.cpp:51`), which the console saves and counts as a success. |
| `farm_safety`, `SuccessIsOwnOutput` | `LoadFails = {"source"}` | A source that cannot be loaded is sent as empty data (`tcp_protobufserver.cpp:125`); a process that accepts it makes a success of it. |
| `farm_safety`, `SuccessIsOwnOutput` | `MaxSessions = 2` (one task, one unreliable daemon) | The process of a lost session still works on the files when the daemon is given the task again; it spoils the output of the second attempt, which is sent as a success. |
| `build_set`, `WildcardIsComplete` | `BuildSets <- BareBuildSets` (and no `InstanceAssumption`, which rules them out) | The mask of a wildcard without a directory keeps its star (`console.cpp:91`) and no file matches, although the note at `console.cpp:460` describes this use. |
| `build_set`, `FilesStayApart` | a mask that ends inside an extension (`*pp`), which the tokens cannot express | `a.cpp` and `a.hpp` have the same `$(sourcefilename)`, so their outputs are one file. |
| `daemon_main`, `ExitEndsDaemon` without its last disjunct | | After `WM_CLOSE` `GetMessage` returns -1 and the loop goes round for ever (`window.cpp:138`). |

Read off the models while writing them, and stated by no property: `$(odir)`, which
the help text lists (`console.cpp:264`), is never substituted; the application is the one
path that "step 3. convert absolute paths to project related paths"
(`console.cpp:129`) leaves out, although the daemon converts it back
(`tcp_protobufclient.cpp:178`); `delete task` (`:92`) never deletes the task's `AppObject`, so
its handles stay open; the help texts for the source and the output file are
interchanged (`console.cpp:266`).

## Proofs

`BuildFarmProofs` proves, for every number of tasks, daemons and sessions and all
values of the other constants that satisfy `ConstantsAssumption` and
`WaitAssumption`:

* `TypeCorrect`: `Spec => []TypeOK`. The inductive invariant `TypeInv` adds that a
  pass of main begins only before the timer has expired; without it `idle` could
  not be bounded.
* `NoDanglingNodeHolds`, `SuccessMeansOutputHolds`, `ResultIsFinalHolds`: from the
  inductive invariant `RecordInv`. Its extra conjunct, `DoneIsUnowned`, says that a
  record with a result has no node. So `sendTasksToSlave`, which picks records
  with neither, and `applyResultFromSlave`, which changes a record with a node,
  can never touch a record that has a result, and the record they change has no
  output yet. This holds without any assumption on the packets that arrive.
* `ExitZeroMeansDoneHolds`: from `PassInv`, which follows main through a pass (the
  records before the cursor have results while `isFinished` is set) and uses that
  results are final, since the server thread runs during the pass.

`TaskConservationProofs` builds on these:

* `TasksConservedHolds`: from `LinkInv`, an invariant of one connection at a time.
  `LinkTasks` is the conservation law itself, and that a task in `m_tasks` has a
  process, so that no result packet carries `NoInit`. `LinkPhase` ties the daemon's
  view of a connection (`conn`) to the console's (`peer`): nothing is on it before
  it is established, no task before the console has a node for it, nothing to
  the daemon once it is closed. Without it a new connection could start with
  tasks assigned to it or with packets in its queues. The queues are reasoned
  about through `Mentions`, `OncePerTask` and `Genuine` and three lemmas
  (`EmptyQueue`, `AppendQueue`, `TailQueue`). `Genuine` says that every result under
  way is final: not started, or ended.
* `ImplementsTaskBoardHolds`: the refinement, step by step. `newClient` and all other
  threads stutter; `doWork` is `Take`; `onClientDisconnected` is `Release`; a packet is
  a stutter, `Take`, `Finish` or `FinishAndTake`. The last two need `LinkInv`: the
  result in the packet is one, and its task is still with the sender and is
  not the one `sendTasksToSlave` has just given away.
* `ResultsCountedOnceHolds`: from `CountInv`, which adds that a recorded result is final
  and that main has something to count only where there is a result. The first is
  not a formality: a record whose result said "running" would be counted neither as
  a success nor as an error and would be forgotten all the same, so the totals are
  right only because no daemon answers for a process that still runs (`Genuine`).
* `FinishedMeansCountedHolds`: `CountedInv` follows main through a pass. The records it
  has seen are counted, and since results are final (`DoneIsUnowned`) the server
  thread cannot add one behind the cursor.

`SessionProofs` is the daemons' side:

* `OneSessionPerDaemonHolds`: `SessionInv` adds that the session of a daemon is one of
  its own and was opened. A new session is one whose connection was never made, so
  it is another, and what the old one leaves behind is closed and has no tasks.
* `FarmImplementsProcessLife`: `StartInv` says that a process was started only on a
  connection that had been made, and that while this is up its task is in
  `m_tasks`, answered for, or done. With `LinkInv` none of these is true of a task in a
  packet to the daemon, so `runTaskProcess` never starts a second process.
  `RunningInv` is the other half: while the connection is up, only tasks in `m_tasks`
  have running processes.
* `IdleClientHasCreditHolds` rests on `NextLoadStep`: seen from one connection, a step of the
  farm opens it, reports a finished task, handles a packet, sends a task or accepts the
  client (`LoadStep`); `Load` is what the daemon has to do, read or not. `CreditInv`: a
  connected daemon without load has credit in the last packet under way or, when there is
  none, in `m_freeCores`. Only the last packet matters, since each overwrites the number. It
  needs that `getFreeCore` returns at least two, as the report of the last task still counts
  that task (`one_core`). The hypothesis is about `FreeCores` only; daemons, tasks and
  sessions are unbounded. There is no such theorem against overload: from three cores on
  the number of tasks a daemon can be given has no bound but `NumTasks`.

`TaskFilesProofs`:

* `FilesImplementFarm`, `FilesSpec => Spec`. Every step with files is a step of the farm,
  so every theorem above holds with files too.
* `FilesOfTasksHolds`, for tasks with files of their own (`OwnFiles`) and one session per
  daemon. `DiskInv` adds that there are no files before the session is connected; with
  `RunningInv` no process writes an output after `doWork` has deleted it.
* `SuccessIsOwnOutputHolds`, which also takes disks that can be read (`LoadFails = {}`).
  `OutputInv` follows the contents along the way of a task: in the packet (`SourceGiven`),
  read by the process (`SourceRead`), written (`OutputWrittenBack`), sent (`OutputSent`) and
  stored (`OutputStored`).

Each of these hypotheses is needed; the table above says what happens without it.

* `SuccessIsNoOthersOutputHolds`, for any number of sessions per daemon and disks that fail;
  of the hypotheses only `OwnFiles` is left. `OwnInv` says that every file and every text of
  a task is its own or broken, wherever it is (`OwnOnDisk`, `OwnText`), and that a
  result packet comes with a text (`SentWithText`). A process of a lost session can spoil
  what it writes to, and it only writes to the output of its own task.

`BuildSetProofs`: the four properties of `BuildSet`, for every number of projects, elements and
files, and for strings of any length.

* `IdsAreDenseHolds` assumes nothing of the strings, and of a directory only that it has
  finitely many files. `TableInv` says that `loadConfig`'s counter is the length of the
  table. It closes a gap between the modules: `FdbProtocol` starts from tasks numbered
  from 1 and of known projects.
* What substitution makes of a string takes induction over its length. The library's
  induction theorems have a predicate as a parameter, which the provers cannot
  instantiate; here the induction is over a set, from the least element of a set of
  numbers (`WFMin`): `LeastNumber`, `NumberInduction`, `SequenceInduction`. From it, that the
  recursive function inside `FlattenSeq` exists (`CatsExists`, `FlattenAppend`), and that
  `String_replace` works token by token (`ReplaceConcat`). `replace` makes nine substitutions
  one after the other, each on the result of the one before; `replaceToken` says that for
  values without variables each token is replaced once.
* `CommandNamesItsFilesHolds`: `ThereAndBack` is that the console's conversion of a project path
  to `$(pdir)` and the daemon's conversion back amount to replacing the one path by the
  other, since no converted text has a `$(pdir)` of its own; `MoveReplaced`, that moving a
  substituted string is substituting moved values into the moved string. `OriginInv` ties
  every record of the table to the element and the source it was made of.
* `WildcardIsCompleteHolds`: `PatternParts` and `SuffixOfPath` show that comparing the ends of
  whole paths, as the code does, finds the files whose names end as the wildcard does.
  `CountInv` counts along `loadConfig`: a matching file is in the table as often as the element
  is among the places passed. Each pass adds it once, whatever the order of the listing.
* `FilesStayApartHolds`: in a name with `$(sourcefilename)`, the task with the shorter file name
  has no longer text for any token, and another one for this token (`OneTokenDiffers`). So
  the two outputs differ, although texts of different lengths stand side by side. Sources
  differ in the file's name, which moving a project leaves alone; a source and an
  output differ in their last token.

What these three assume of the strings is at the end of `BuildSet`. `WellFormed`: option values,
paths and file names contain no variable, and a source or output does not refer to a
variable made from it (a `$(pdir)` in the value of `SDIR` would stay as it is, since `$(sdir)`
comes later in `replace`). `StarThenEnding`: a wildcard is a directory, a star and an ending (see
`BareBuildSets` above). For `FilesStayApart` also `FileNames`, a name has no separator and is not
the path of a project, and `OtherEnding`, the outputs of a wildcard do not end as its sources
do, without which an output could be the source of the next task.

`ProjectsProofs`, for every length of a day, number of threads and configuration:
type correctness, `WindowIsTheWayHolds`, `CoresAreNearestHolds` and
`CoresChangeAtEdgesHolds`. The first is inductive; the others are arithmetic about a
state, or a step, of the right types.

`AppObjectProofs`, for any objects and exit codes: `ImplementsProcessLifeHolds`. A process that
exits with 259 is reported to run, and its life goes on.

`DaemonMainProofs`, for every length of the queue: type correctness and
`NothingLeftBehindHolds`, from an invariant that ties the window thread to main's
place (`ThreadsInStep`) and the icon to the window thread's (`IconInLoop`).

Only model-checked:

* the liveness properties, `AllTasksGetDone`, `ConsoleReturns`, `DaemonsComeToRest`,
  `WindowComes`, `NoDaemonWithoutWindow` and `ExitEndsDaemon`: liveness under fairness is out
  of the prover's reach;
* `TasksWithinCores`, `RunningIsActual`, `ExitOneMeansUnfinished` and `SessionEndsFinished`,
  which fail.

## Not modelled, and why

Of the repository's 177 thousand lines all but about two thousand are vendored
headers of protobuf and abseil (`src/protocol/include`); they are not the program's own
logic, and what the code uses of them (encoding a packet and decoding it to the
same packet) shows in the queues. smallUtils and tinyxml2 are empty submodules. Of
the program's own lines the models leave out: command lines, log set-up and log
texts, the terminal, the icon's picture and hint (`changeNotifyIconHint` is never
called), `protocol.proto` (not used by the code), and the `IsInitialized` tests of
packets, which hold for every packet the two programs make.

Left out because the answer is in smallUtils: a daemon that disappears without its
connection being noticed; whether packets a session left unread reach the next one
through the shared `m_clientNode`; `WAIT=0`, which never starts `workTimer`; whether the
message about a failed task, which has fewer arguments than conversions
(`tcp_protobufclient.cpp:75`), crashes the daemon. A crash there looks to the console like
a connection cut after a result, which the runs with unreliable daemons cover.

## Plan

1. Done: the protocol, its four threads, their composition, the abstract board,
   conservation of tasks and the refinement proved.
2. Done: `Projects`, `BuildSet`, `AppObject` with `ProcessLife`, `TaskFiles`, `DaemonMain`, with
   theorems (for `BuildSet` see 3).
3. Done: theorems for every safety invariant and action property that a passing run
   checks, the strings of `BuildSet` included, and the farm's refinement of `ProcessLife`.
4. Done: what holds of the files for several sessions per daemon.
5. Left: liveness, which TLC checks on small instances only. Whether a variable inside the
   value of an option is a use the authors want is not said anywhere in the repository;
   `WellFormed` leaves it out.
