---------------------------- MODULE MCBuildSet ----------------------------
(***************************************************************************)
(* Build sets of up to two projects, one of them unknown, with one or two  *)
(* tasks: single files, wildcards over a directory of the project and of   *)
(* the option SDir, a directory that is not there, names shorter than the  *)
(* mask.                                                                   *)
(***************************************************************************)
EXTENDS BuildSet

Task(source, output, app, params) ==
  [SourceFile |-> source, OutputFile |-> output, Application |-> app,
   Params |-> params, WorkingDir |-> <<"$(pdir)">>, AbortOnError |-> TRUE]

Compile == <<"-c", "$(sourcefile)", "-o", "$(outputfile)">>
Object  == <<"$(pdir)", "\\", "obj", "\\", "$(sourcefilename)", ".obj">>
Cc      == <<"$(wdir)", "\\", "cc">>

Single(name) == Task(<<"$(pdir)", "\\", name, ".cpp">>, Object, Cc, Compile)
Wild   == Task(<<"$(pdir)", "\\", "*", ".cpp">>, Object, Cc, Compile)
Other  == Task(<<"$(sdir)", "\\", "*", ".cpp">>, Object, Cc,
               <<"-I", "$(pdir)", "-I", "$(sdir)">> \o Compile)
Option == Task(<<"$(sfile)">>, <<"$(ofile)">>, Cc, Compile)
Absent == Task(<<"$(pdir)", "\\", "none", "\\", "*", ".cpp">>, Object, Cc, Compile)
Long   == Task(<<".", "\\", "*", "_", "moc", "_", ".cpp">>, Object, Cc, Compile)
Gen    == Task(<<"$(pdir)", "\\", "*", "_gen", ".cpp">>, Object, Cc, Compile)
Bare   == Task(<<"*", ".cpp">>, Object, Cc, Compile)

SeqsOf(S, n) == UNION {[1 .. k -> S] : k \in 0 .. n}

ProjectElements(elements, n) ==
  [name : {"app", "lib", "unknown"}, tasks : SeqsOf(elements, n)]

AllBuildSets ==
  SeqsOf(ProjectElements({Single("a"), Wild, Option}, 1), 2)
    \cup SeqsOf(ProjectElements({Single("b"), Other, Absent, Long, Gen}, 2), 1)

\* A wildcard without a directory: WildcardIsComplete does not hold of these.
BareBuildSets == SeqsOf(ProjectElements({Single("a"), Bare}, 1), 2)

ConsoleOptions ==
  [SDir |-> <<"C:", "\\", "gen">>, ODir |-> <<"C:", "\\", "out">>, WDir |-> <<"C:", "\\", "bin">>,
   SFile |-> <<"C:", "\\", "gen", "\\", "x", ".cpp">>,
   OFile |-> <<"C:", "\\", "out", "\\", "x", ".obj">>]

ConsolePath == [app |-> "C:\\app", lib |-> "C:\\lib"]
PathOfDaemon == [app |-> <<"D:", "\\", "app">>, lib |-> <<"D:", "\\", "lib">>]
WorkOfDaemon == [app |-> <<"E:", "\\", "tmp", "\\", "app", "\\">>, lib |-> <<"E:", "\\", "tmp", "\\", "lib", "\\">>]

Files ==
  LET dirs == {<<"C:\\app">>, <<"C:\\lib">>, <<"C:", "\\", "gen">>, <<".">>, <<".", "\\">>}
  IN  [dir \in dirs |->
         IF Head(dir) = "." THEN {<<"c", ".cpp">>, <<"m">>}
         ELSE {<<"a", ".cpp">>, <<"b", "_gen", ".cpp">>, <<"a", ".h">>}]

\* The build sets that are checked are of the form the theorems are about.
Texts ==
  {"app", "lib", "unknown", "C:\\app", "C:\\lib", "C:", "D:", "E:", "\\", ".", "*", "gen", "out", "bin",
   "tmp", "obj", "none", "cc", "-c", "-o", "-I", "_", "moc", "_gen", "a", "b", "c", "m", "x", ".cpp", ".h",
   ".obj"}

ASSUME InstanceAssumption ==
  WellFormed(Texts) /\ FileNames /\ StarThenEnding(Texts) /\ OtherEnding(Texts)
=============================================================================
