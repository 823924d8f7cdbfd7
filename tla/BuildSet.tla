------------------------------ MODULE BuildSet ------------------------------
(***************************************************************************)
(* How the console makes its table of tasks from a build set, and what a   *)
(* daemon makes of the paths in a task.                                    *)
(*                                                                         *)
(* A string is a sequence of tokens: a variable such as $(pdir), a path    *)
(* separator, the star of a wildcard, the path of a project, or a piece of *)
(* other text.  The comparisons of the code ignore case, so tokens have    *)
(* none.  A file name is two tokens, the raw name and the extension, and   *)
(* the lengths the code compares are those of the token sequences.         *)
(***************************************************************************)
EXTENDS Integers, SequencesExt

CONSTANTS
  BuildSets,    \* the build sets to load: sequences of Project elements, [name, tasks]
  Options,      \* the options of the console, [SDir, ODir, WDir, SFile, OFile]
  Path,         \* Path[p]: m_path of project p at the console, a token; its domain: the known projects
  DaemonPath,   \* DaemonPath[p]: m_path at the daemon
  WorkPath,     \* WorkPath[p]: m_workPath at the daemon
  Directory     \* Directory[dir]: names of the files in a directory of the console

ASSUME BuildSetAssumption ==
  /\ DOMAIN DaemonPath = DOMAIN Path
  /\ DOMAIN WorkPath = DOMAIN Path
  /\ \A dir \in DOMAIN Directory : IsFiniteSet(Directory[dir])

VARIABLES
  buildSet,   \* the build set that is loaded
  pc,         \* "loading", or what loadConfig did: "true", "false", "exception"
  project,    \* the Project element loadConfig is at
  task,       \* the Task element it is at
  id,         \* loadConfig's counter
  tasks       \* the table: records [vars, message, element]

bsVars == <<buildSet, pc, project, task, id, tasks>>

BsInit ==
  /\ buildSet \in BuildSets
  /\ pc = "loading"
  /\ project = 1 /\ task = 1
  /\ id = 0
  /\ tasks = <<>>

-----------------------------------------------------------------------------
(***************************************************************************)
(* Strings.                                                                *)
(***************************************************************************)
String_replace(str, token, value) ==
  FlattenSeq([i \in DOMAIN str |-> IF str[i] = token THEN value ELSE <<str[i]>>])

\* TaskVariables::replace: a substitution works on the result of the one before.
replace(vars, str) ==
  LET s1 == String_replace(str, "$(pname)", vars.PName)
      s2 == String_replace(s1, "$(pdir)", vars.PDir)
      s3 == String_replace(s2, "$(sdir)", vars.SDir)
      s4 == String_replace(s3, "$(wdir)", vars.WDir)
      s5 == String_replace(s4, "$(sfile)", vars.SFile)
      s6 == String_replace(s5, "$(ofile)", vars.OFile)
      s7 == String_replace(s6, "$(sourcefile)", vars.SourceFile)
      s8 == String_replace(s7, "$(sourcefilename)", vars.SourceFileName)
  IN  String_replace(s8, "$(outputfile)", vars.OutputFile)

\* The last token of a file is its extension, as a whole: a mask that ends
\* inside an extension (*pp for cpp and hpp) has no counterpart here.
LastSlash(str)    == SelectLastInSeq(str, LAMBDA c : c = "\\")
RawFilename(path) == SubSeq(path, LastSlash(path) + 1, Len(path) - 1)

-----------------------------------------------------------------------------
(***************************************************************************)
(* taskGenerator, for one Task element of a project.                       *)
(***************************************************************************)
ProjectVars(name) ==
  [PName |-> <<name>>, PDir |-> <<Path[name]>>,
   SDir |-> Options.SDir, ODir |-> Options.ODir, WDir |-> Options.WDir,
   SFile |-> Options.SFile, OFile |-> Options.OFile,
   SourceFile |-> <<>>, SourceFileName |-> <<>>, OutputFile |-> <<>>]

IsWildcard(element) == Contains(element.SourceFile, "*")

Dir(str) == IF LastSlash(str) # 0 THEN SubSeq(str, 1, LastSlash(str) - 1) ELSE <<".", "\\">>

\* The mask is what follows the separator and one more character, the star.
\* Mutant of Mask: the star belongs to it.
Mask_WithStar(str) == IF LastSlash(str) # 0 THEN SubSeq(str, LastSlash(str) + 1, Len(str)) ELSE str

Mask(str) == IF LastSlash(str) # 0 THEN SubSeq(str, LastSlash(str) + 2, Len(str)) ELSE str

\* entry.path() of a file in directory dir.
Entry(dir, name) == IF Last(dir) = "\\" THEN dir \o name ELSE dir \o <<"\\">> \o name
Entries(dir)     == {Entry(dir, name) : name \in Directory[dir]}

\* directory_iterator throws for a directory that is not there, substr for a
\* path that is shorter than the mask.
Throws(element, vars) ==
  LET str == replace(vars, element.SourceFile)
  IN  /\ IsWildcard(element)
      /\ \/ Dir(str) \notin DOMAIN Directory
         \/ \E path \in Entries(Dir(str)) : Len(path) < Len(Mask(str))

\* The source files of an element; those of a wildcard are in an order the
\* operating system chooses.
Sources(element, vars) ==
  LET str == replace(vars, element.SourceFile)
  IN  IF IsWildcard(element)
      THEN SetToSeqs({path \in Entries(Dir(str)) : IsSuffix(Mask(str), path)})
      ELSE {<<element.SourceFile>>}

\* m_vars of a new task, which has the names of the element as they stand; then
\* step 1, the source file and its raw name, and step 2, the output file.
\* Mutant of OutputName: the output is not substituted.
NewVars(element, vars, source) ==
  [vars EXCEPT !.SourceFile = source, !.OutputFile = element.OutputFile]

WithSource(vars) ==
  LET file == replace(vars, vars.SourceFile)
  IN  [vars EXCEPT !.SourceFile = file, !.SourceFileName = RawFilename(file)]

OutputName_Raw(vars) == vars.OutputFile
OutputName(vars)     == replace(vars, vars.OutputFile)

TaskVars(element, vars, source) ==
  LET v == WithSource(NewVars(element, vars, source))
  IN  [v EXCEPT !.OutputFile = OutputName(v)]

\* Steps 3 and 4.  Mutant of CommandLine: its paths stay absolute.
Relative(vars, str) == String_replace(str, vars.PDir[1], <<"$(pdir)">>)

CommandLine_Absolute(vars, element) == replace(vars, element.Params)
CommandLine(vars, element) == Relative(vars, replace(vars, element.Params))

Message(n, vars, element) ==
  [id |-> n, project |-> vars.PName[1],
   sourcefile |-> Relative(vars, vars.SourceFile),
   outputfile |-> Relative(vars, vars.OutputFile),
   application |-> replace(vars, element.Application),
   commandline |-> CommandLine(vars, element),
   workingdir |-> Relative(vars, replace(vars, element.WorkingDir)),
   abortonerror |-> element.AbortOnError]

TaskInfo(n, vars, element) ==
  [vars |-> vars, message |-> Message(n, vars, element), element |-> element]

\* The number of the i-th task made for an element.  Mutant: each project counts anew.
TaskId_PerProject(i) == i + Len(SelectSeq(tasks, LAMBDA t : t.vars.PName[1] = buildSet[project].name))
TaskId(i)            == id + i

taskGenerator(element, vars, sources) ==
  [i \in DOMAIN sources |->
     TaskInfo(TaskId(i), TaskVars(element, vars, sources[i]), element)]

-----------------------------------------------------------------------------
(***************************************************************************)
(* loadConfig.                                                             *)
(***************************************************************************)
\* The file is not XML or has no BuildSet element.
LoadFails ==
  /\ pc = "loading" /\ project = 1 /\ task = 1 /\ id = 0
  /\ pc' = "false"
  /\ UNCHANGED <<buildSet, project, task, id, tasks>>

AtProject == pc = "loading" /\ project <= Len(buildSet)
Known     == buildSet[project].name \in DOMAIN Path

\* "Found the unknown project. All its tasks were skipped", or all Task elements
\* are done.
NextProject ==
  /\ AtProject
  /\ Known => task > Len(buildSet[project].tasks)
  /\ project' = project + 1
  /\ task' = 1
  /\ UNCHANGED <<buildSet, pc, id, tasks>>

NextTask ==
  /\ AtProject
  /\ Known /\ task <= Len(buildSet[project].tasks)
  /\ LET element == buildSet[project].tasks[task]
         vars    == ProjectVars(buildSet[project].name)
     IN  IF Throws(element, vars)
         THEN pc' = "exception" /\ UNCHANGED <<task, id, tasks>>
         ELSE /\ \E sources \in Sources(element, vars) :
                   /\ tasks' = tasks \o taskGenerator(element, vars, sources)
                   /\ id' = id + Len(sources)
              /\ task' = task + 1
              /\ UNCHANGED pc
  /\ UNCHANGED <<buildSet, project>>

Loaded ==
  /\ pc = "loading" /\ project > Len(buildSet)
  /\ pc' = IF tasks # <<>> THEN "true" ELSE "false"
  /\ UNCHANGED <<buildSet, project, task, id, tasks>>

BsNext == LoadFails \/ NextProject \/ NextTask \/ Loaded

BsSpec == BsInit /\ [][BsNext]_bsVars

-----------------------------------------------------------------------------
(***************************************************************************)
(* The daemon's runTaskProcess: the paths of a task on its own disk.       *)
(***************************************************************************)
AtDaemon(message) ==
  LET path == DaemonPath[message.project]
      work == WorkPath[message.project]
  IN  [workingdir  |-> String_replace(message.workingdir, "$(pdir)", path),
       application |-> String_replace(message.application, "$(pdir)", path),
       commandline |-> String_replace(message.commandline, "$(pdir)", work),
       sourcefile  |-> String_replace(message.sourcefile, "$(pdir)", work),
       outputfile  |-> String_replace(message.outputfile, "$(pdir)", work)]

-----------------------------------------------------------------------------
(***************************************************************************)
(* What the protocol takes for granted (FdbProtocol): the ids of the table *)
(* are 1, 2, 3 and so on, over all projects and wildcards, skipped ones    *)
(* included, and every task is of a project the console knows.             *)
(***************************************************************************)
IdsAreDense ==
  \A i \in DOMAIN tasks :
    tasks[i].message.id = i /\ tasks[i].message.project \in DOMAIN Path

(***************************************************************************)
(* The command a daemon runs names the files it has saved: it is what the  *)
(* Params of the build set say when the project is in the work directory   *)
(* and the source and output files are the daemon's.                       *)
(***************************************************************************)
Moved(t, str) ==
  String_replace(str, t.vars.PDir[1], WorkPath[t.message.project])

MovedVars(t) ==
  [PName |-> Moved(t, t.vars.PName), PDir |-> WorkPath[t.message.project],
   SDir |-> Moved(t, t.vars.SDir), WDir |-> Moved(t, t.vars.WDir),
   SFile |-> Moved(t, t.vars.SFile), OFile |-> Moved(t, t.vars.OFile),
   SourceFile |-> AtDaemon(t.message).sourcefile,
   SourceFileName |-> Moved(t, t.vars.SourceFileName),
   OutputFile |-> AtDaemon(t.message).outputfile]

CommandNamesItsFiles ==
  \A i \in DOMAIN tasks :
    AtDaemon(tasks[i].message).commandline =
      replace(MovedVars(tasks[i]), Moved(tasks[i], tasks[i].element.Params))

(***************************************************************************)
(* The files of a wildcard stay apart on a daemon's disk: two tasks of one *)
(* element with different sources share no temporary file there, and no    *)
(* task overwrites a source, when the output is named after the source.    *)
(***************************************************************************)
DaemonFiles(t) == {AtDaemon(t.message).sourcefile, AtDaemon(t.message).outputfile}

FilesStayApart ==
  \A i, j \in DOMAIN tasks :
    /\ tasks[i].message.project = tasks[j].message.project
    /\ tasks[i].element = tasks[j].element
    /\ tasks[i].vars.SourceFile # tasks[j].vars.SourceFile
    /\ Contains(tasks[i].element.OutputFile, "$(sourcefilename)")
    => DaemonFiles(tasks[i]) \cap DaemonFiles(tasks[j]) = {}

(***************************************************************************)
(* A wildcard stands for the files of its directory whose names end as it  *)
(* does: each is a task as often as the element is in the build set.       *)
(***************************************************************************)
Places(name, element) ==
  UNION {{<<q, k>> : k \in {i \in DOMAIN buildSet[q].tasks : buildSet[q].tasks[i] = element}} :
           q \in {q \in DOMAIN buildSet : buildSet[q].name = name}}

AfterStar(str) == SubSeq(str, SelectLastInSeq(str, LAMBDA c : c = "*") + 1, Len(str))

MatchingFiles(name, element) ==
  LET dir == Dir(replace(ProjectVars(name), element.SourceFile))
  IN  {Entry(dir, file) : file \in {f \in Directory[dir] : IsSuffix(AfterStar(element.SourceFile), f)}}

WildcardIsComplete ==
  pc = "true" =>
    \A p \in DOMAIN buildSet : buildSet[p].name \in DOMAIN Path =>
      \A element \in Range(buildSet[p].tasks) : IsWildcard(element) =>
        LET name == buildSet[p].name
        IN  \A file \in MatchingFiles(name, element) :
              Cardinality({i \in DOMAIN tasks :
                 /\ tasks[i].message.project = name /\ tasks[i].element = element
                 /\ tasks[i].vars.SourceFile = file})
                = Cardinality(Places(name, element))

-----------------------------------------------------------------------------
(***************************************************************************)
(* What the theorems assume of the strings.  Text is the set of tokens     *)
(* that are no variables; values are texts, and a source or output file    *)
(* does not refer to a variable that is made from it.                      *)
(***************************************************************************)
SourceVariables == {"$(pname)", "$(pdir)", "$(sdir)", "$(wdir)", "$(sfile)", "$(ofile)"}
OutputVariables == SourceVariables \cup {"$(sourcefile)", "$(sourcefilename)"}
Variables       == OutputVariables \cup {"$(outputfile)"}

Elements(Text) ==
  [SourceFile : Seq(Text \cup SourceVariables), OutputFile : Seq(Text \cup OutputVariables),
   Application : Seq(Text \cup Variables), Params : Seq(Text \cup Variables),
   WorkingDir : Seq(Text \cup Variables), AbortOnError : BOOLEAN]

WellFormed(Text) ==
  /\ Text \cap Variables = {} /\ {"\\", "."} \subseteq Text
  /\ BuildSets \subseteq Seq([name : Text, tasks : Seq(Elements(Text))])
  /\ Options \in [SDir : Seq(Text), ODir : Seq(Text), WDir : Seq(Text), SFile : Seq(Text), OFile : Seq(Text)]
  /\ \A p \in DOMAIN Path : Path[p] \in Text /\ WorkPath[p] \in Seq(Text)
  /\ \A dir \in DOMAIN Directory : Directory[dir] \subseteq Seq(Text)

AllElements == UNION {UNION {Range(bs[p].tasks) : p \in DOMAIN bs} : bs \in BuildSets}
Wildcards   == {element \in AllElements : IsWildcard(element)}

\* A file name has no separator and is not the path of a project.
FileNames ==
  \A dir \in DOMAIN Directory : \A file \in Directory[dir] : \A i \in DOMAIN file :
    file[i] # "\\" /\ \A p \in DOMAIN Path : file[i] # Path[p]

\* The star of a wildcard follows a separator, and an ending follows the star.
StarThenEnding(Text) ==
  \A element \in Wildcards :
    LET str == element.SourceFile
    IN  \E i \in 2 .. Len(str) - 1 :
          /\ str[i - 1] = "\\" /\ str[i] = "*"
          /\ \A j \in i + 1 .. Len(str) : str[j] \in Text \ {"\\", "*"}

\* The output files of a wildcard end in another way than its sources.
OtherEnding(Text) ==
  \A element \in Wildcards :
    /\ element.OutputFile # <<>>
    /\ Last(element.OutputFile) \in Text \ {Last(element.SourceFile)}
    /\ \A p \in DOMAIN Path : Last(element.OutputFile) # Path[p]
=============================================================================
