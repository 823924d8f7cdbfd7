----------------------------- MODULE TaskFiles -----------------------------
(***************************************************************************)
(* The files of a build: BuildFarm with the source and output files the    *)
(* packets carry, the files they become on a daemon's disk, and what the   *)
(* build processes read and write.  Every step of the farm also has its    *)
(* effect on files; no other step of the farm is added or left out.        *)
(*                                                                         *)
(* What a file holds is told apart as far as a build goes: the text of the *)
(* right task's source, or the output compiled from it, is the task's      *)
(* number; Broken is an empty or incomplete text, and what is compiled     *)
(* from one.                                                               *)
(***************************************************************************)
EXTENDS BuildFarm

CONSTANTS
  File,        \* names of files on a daemon, after the conversion of $(pdir)
  SourceFile,  \* SourceFile[t]: Task::m_sourceFile
  OutputFile,  \* OutputFile[t]: Task::m_outputFile
  LoadFails    \* which su::fs::load may fail: "source" at the console, "output" at a daemon

ASSUME FilesAssumption ==
  /\ SourceFile \in [Tasks -> File]
  /\ OutputFile \in [Tasks -> File]
  /\ LoadFails \subseteq {"source", "output"}

VARIABLES
  disk,        \* disk[d][f]: file f of daemon d
  inputdata,   \* inputdata[n][t]: the source in the packet of task t to client n
  input,       \* input[n][t]: the source the process of t in session n has read
  outputdata,  \* outputdata[n][t]: the output in the result packet of task t from n
  outputOf     \* outputOf[t]: the output file of task t at the console

fileVars == <<disk, inputdata, input, outputdata, outputOf>>

NoFile == -1
Broken == 0
Content == Tasks \cup {NoFile, Broken}

FileTypeOK ==
  /\ disk \in [Daemons -> [File -> Content]]
  /\ inputdata \in [Node -> [Tasks -> Content]]
  /\ input \in [Node -> [Tasks -> Content]]
  /\ outputdata \in [Node -> [Tasks -> Content]]
  /\ outputOf \in [Tasks -> Content]

FileInit ==
  /\ disk = [d \in Daemons |-> [f \in File |-> NoFile]]
  /\ inputdata = [n \in Node |-> [t \in Tasks |-> NoFile]]
  /\ input = [n \in Node |-> [t \in Tasks |-> NoFile]]
  /\ outputdata = [n \in Node |-> [t \in Tasks |-> NoFile]]
  /\ outputOf = [t \in Tasks |-> NoFile]

-----------------------------------------------------------------------------
(***************************************************************************)
(* The console.  sendTasksToSlave loads the source of the task it sends    *)
(* and sends an empty text if it cannot; applyResultFromSlave saves the    *)
(* output of a task that succeeded.                                        *)
(***************************************************************************)
LoadResults(which) == {TRUE} \cup IF which \in LoadFails THEN {FALSE} ELSE {}

\* The tasks a step of the server gives to n, and those whose output it saves.
Given(n) == {t \in Tasks : m_node[t] # n /\ m_node'[t] = n}
Stored   == {t \in Tasks : output'[t] /\ ~output[t]}

FilesServer(n) ==
  /\ Server(n)
  /\ \E loaded \in LoadResults("source") :
       inputdata' = [inputdata EXCEPT ![n] = [t \in Tasks |->
         IF t \notin Given(n) THEN inputdata[n][t] ELSE IF loaded THEN t ELSE Broken]]
  /\ outputOf' = [t \in Tasks |-> IF t \in Stored THEN outputdata[n][t] ELSE outputOf[t]]
  /\ UNCHANGED <<disk, input, outputdata>>

-----------------------------------------------------------------------------
(***************************************************************************)
(* The daemon.  runTaskProcess saves the source before it starts the       *)
(* process; when it cannot, part of the file may be there.  doWork loads   *)
(* the output, sends an empty text if it cannot, and deletes both files    *)
(* unless the failed task has AbortOnError.                                *)
(***************************************************************************)
SaveSource(n) ==
  LET id == Head(toSlave[n]).id
  IN  \/ /\ id \in Tasks /\ id \in m_tasks'[n]
         /\ disk' = [disk EXCEPT ![Host(n)][SourceFile[id]] = inputdata[n][id]]
      \/ /\ id \in Tasks /\ id \notin m_tasks'[n]
         /\ \/ UNCHANGED disk
            \/ /\ ProjectOf[id] \in Config[Host(n)]
               /\ disk' = [disk EXCEPT ![Host(n)][SourceFile[id]] = Broken]
      \/ /\ id = NoId
         /\ UNCHANGED disk

FilesReceive(n) ==
  /\ Client_onRecvFromNode(n)
  /\ SaveSource(n)
  /\ UNCHANGED <<inputdata, input, outputdata, outputOf>>

\* The text of a file that is not there is empty.
TextOf(content) == IF content = NoFile THEN Broken ELSE content

\* What is left of daemon d's files when those of task t are deleted.  Mutant:
\* the output is forgotten.
Cleared_SourceOnly(d, t) == [disk[d] EXCEPT ![SourceFile[t]] = NoFile]
Cleared(d, t) == [disk[d] EXCEPT ![SourceFile[t]] = NoFile, ![OutputFile[t]] = NoFile]

\* Mutant of OutputToSend: the output is loaded when its files are deleted already.
OutputToSend_Late(n, t) ==
  IF Failed(process[n][t]) /\ t \in AbortOnError THEN disk[Host(n)][OutputFile[t]] ELSE NoFile

\* Mutant: the output of the first task of the session.
OutputToSend_First(n, t) ==
  LET first == CHOOSE u \in m_tasks[n] : \A v \in m_tasks[n] : u <= v
  IN  disk[Host(n)][OutputFile[first]]

OutputToSend(n, t) == disk[Host(n)][OutputFile[t]]

FilesFinish(n, t) ==
  /\ Client_doWork(n, t)
  /\ \E loaded \in LoadResults("output") :
       outputdata' = [outputdata EXCEPT ![n][t] =
                        IF loaded THEN TextOf(OutputToSend(n, t)) ELSE Broken]
  /\ disk' = IF t \in m_tasks'[n] THEN disk
             ELSE [disk EXCEPT ![Host(n)] = Cleared(Host(n), t)]
  /\ UNCHANGED <<inputdata, input, outputOf>>

FilesSession(n) ==
  /\ Session(n)
  /\ \/ conn[n] = "connecting" /\ UNCHANGED fileVars
     \/ FilesReceive(n)
     \/ \E t \in Tasks : FilesFinish(n, t)

-----------------------------------------------------------------------------
(***************************************************************************)
(* The build process: it reads the source and opens the output, and writes *)
(* it before it ends with exit code 0.  A process that could not read its  *)
(* source does not end with 0.                                             *)
(***************************************************************************)
ProcessReads(n, t) ==
  /\ isRunning(n, t)
  /\ input[n][t] = NoFile
  /\ disk[Host(n)][SourceFile[t]] # NoFile
  /\ input' = [input EXCEPT ![n][t] = disk[Host(n)][SourceFile[t]]]
  /\ disk' = [disk EXCEPT ![Host(n)][OutputFile[t]] = Broken]
  /\ UNCHANGED <<inputdata, outputdata, outputOf, vars>>

FilesProcess(n, t) ==
  /\ Process(n, t)
  /\ IF process'[n][t] = ExitedWith(0)
     THEN /\ input[n][t] # NoFile
          /\ disk' = [disk EXCEPT ![Host(n)][OutputFile[t]] = input[n][t]]
     ELSE UNCHANGED disk
  /\ UNCHANGED <<inputdata, input, outputdata, outputOf>>

-----------------------------------------------------------------------------
FilesNext ==
  \/ Main /\ UNCHANGED fileVars
  \/ \E n \in Node : \/ FilesServer(n)
                     \/ FilesSession(n)
                     \/ Network(n) /\ UNCHANGED fileVars
  \/ \E n \in Node, t \in Tasks : ProcessReads(n, t) \/ FilesProcess(n, t)
  \/ \E d \in Daemons : Udp(d) /\ UNCHANGED fileVars
  \/ Terminated /\ UNCHANGED fileVars

FilesSpec == Init /\ FileInit /\ [][FilesNext]_<<vars, fileVars>>

-----------------------------------------------------------------------------
(***************************************************************************)
(* A task that counts as a success has its own, complete output at the     *)
(* console.  It takes a disk that can be read, files that no other task    *)
(* uses, and no process of an earlier session at work on the same files.   *)
(***************************************************************************)
SuccessIsOwnOutput ==
  \A t \in Tasks : IsSuccess(t) => outputOf[t] = t

(***************************************************************************)
(* What is left of this when the processes and files of lost sessions are  *)
(* still there when runTaskProcess gets the tasks again: the output of a   *)
(* success may be spoilt, but doWork has sent one, and it is not another   *)
(* task's.                                                                 *)
(***************************************************************************)
SuccessIsNoOthersOutput ==
  \A t \in Tasks : IsSuccess(t) => outputOf[t] \in {t, Broken}

(***************************************************************************)
(* While a session is connected, the files on its daemon are those of its  *)
(* tasks: a task in m_tasks has its source there until it is answered for, *)
(* and "Clear tmp files" has left nothing of any other task.               *)
(***************************************************************************)
FilesOfTasks ==
  \A n \in Node : conn[n] = "connected" =>
    \A t \in Tasks :
      /\ t \in m_tasks[n] => disk[Host(n)][SourceFile[t]] = inputdata[n][t]
      /\ t \notin m_tasks[n] =>
           disk[Host(n)][SourceFile[t]] = NoFile /\ disk[Host(n)][OutputFile[t]] = NoFile
=============================================================================
