------------------------------ MODULE Projects ------------------------------
(***************************************************************************)
(* The configuration file of a console or a daemon, and the number of      *)
(* tasks a daemon takes at the present time of day.  The file is read once *)
(* when the program starts; the clock runs on.                             *)
(*                                                                         *)
(* A time of day is a minute, a percentage a whole number.  An element of  *)
(* the file is Absent, Empty (without a text), Garbled (its text does not  *)
(* parse) or has a value.                                                  *)
(***************************************************************************)
EXTENDS Integers, Sequences

CONSTANTS
  MaxThreads,    \* su::ThreadPool::getMaxThreads()
  DayLength,     \* minutes of a day
  ProjectLists,  \* the sequences of Project elements, [name, path, workPath], a file may have
  TimeTexts,     \* the minutes a Begin or End element may name
  PercentTexts,  \* the numbers a Bath or Default element may say
  DefaultDir,    \* "C:\\Windows\\Temp"
  Absent, Empty, Garbled

ASSUME ProjectsAssumption ==
  /\ MaxThreads \in Nat
  /\ DayLength \in Nat \ {0}
  /\ TimeTexts \subseteq 0 .. (DayLength - 1)
  /\ PercentTexts \subseteq Int
  /\ {Absent, Empty, Garbled} \cap Int = {}
  /\ Absent # Empty /\ Absent # Garbled /\ Empty # Garbled

VARIABLES
  state,          \* "starting", then what loadFromFile did: "loaded", "failed" or "crashed"
  m_items,        \* the projects: a function from their names
  m_workBegin, m_workEnd,       \* the work-time window
  m_workBath, m_workDefault,    \* per cent of the threads to use in it and outside it
  now             \* the minute of the day

workVars == <<m_workBegin, m_workEnd, m_workBath, m_workDefault>>
vars     == <<state, m_items, workVars, now>>

Minute == 0 .. (DayLength - 1)

TypeOK ==
  /\ state \in {"starting", "loaded", "failed", "crashed"}
  /\ m_workBegin \in Minute /\ m_workEnd \in Minute
  /\ m_workBath \in 0 .. 100 /\ m_workDefault \in 0 .. 100
  /\ now \in Minute

Init ==
  /\ state = "starting"
  /\ m_items = [name \in {} |-> Absent]
  /\ m_workBegin = 0 /\ m_workEnd = 0
  /\ m_workBath = 100 /\ m_workDefault = 100
  /\ now \in Minute

-----------------------------------------------------------------------------
(***************************************************************************)
(* getWorkPercent and getFreeCore.                                         *)
(***************************************************************************)
\* Mutants of InWindow: the ends of the window do not belong to it; a window over
\* midnight is not thought of.
InWindow_Open(t) ==
  IF m_workBegin < m_workEnd THEN t > m_workBegin /\ t < m_workEnd
                             ELSE t > m_workBegin \/ t < m_workEnd
InWindow_SameDay(t) == t >= m_workBegin /\ t <= m_workEnd

InWindow(t) ==
  IF m_workBegin < m_workEnd THEN t >= m_workBegin /\ t <= m_workEnd
                             ELSE t >= m_workBegin \/ t <= m_workEnd

getWorkPercent == IF InWindow(now) THEN m_workBath ELSE m_workDefault

\* Three threads are reserved, but one task is always possible.
MaxTasks == IF MaxThreads - 3 < 1 THEN 1 ELSE MaxThreads - 3

\* Mutant of Rounded: the fraction is cut off.
Rounded_Down(hundredths) == hundredths \div 100

Rounded(hundredths) == (hundredths + 50) \div 100

getFreeCore == Rounded(MaxTasks * getWorkPercent)

-----------------------------------------------------------------------------
(***************************************************************************)
(* loadWorkTime reads the elements in their order; one that is absent      *)
(* keeps the default, a garbled percentage is 0 to atof.  A garbled time   *)
(* makes it return false, with the elements before it already set.  Of an  *)
(* empty element GetText returns a null pointer, which neither             *)
(* istringstream nor atof may be given: the program crashes there.         *)
(***************************************************************************)
Clamped(v) == IF v < 0 THEN 0 ELSE IF v > 100 THEN 100 ELSE v

\* Mutant of PercentOf: the number is taken as it is.
PercentOf_Unclamped(text, default) ==
  IF text = Absent THEN default ELSE IF text = Garbled THEN 0 ELSE text

PercentOf(text, default) ==
  IF text = Absent THEN default ELSE IF text = Garbled THEN 0 ELSE Clamped(text)

TimeOf(text, default) == IF text = Absent THEN default ELSE text

Texts(values) == values \cup {Absent, Empty, Garbled}

WorkTime ==
  [Begin : Texts(TimeTexts), End : Texts(TimeTexts),
   Bath : Texts(PercentTexts), Default : Texts(PercentTexts)]

loadWorkTime(xml) ==
  LET beginSet   == xml.Begin \notin {Empty, Garbled}
      endSet     == beginSet /\ xml.End \notin {Empty, Garbled}
      bathSet    == endSet /\ xml.Bath # Empty
      defaultSet == bathSet /\ xml.Default # Empty
      garbled    == xml.Begin = Garbled \/ (beginSet /\ xml.End = Garbled)
  IN  /\ m_workBegin' = IF beginSet THEN TimeOf(xml.Begin, m_workBegin) ELSE m_workBegin
      /\ m_workEnd' = IF endSet THEN TimeOf(xml.End, m_workEnd) ELSE m_workEnd
      /\ m_workBath' = IF bathSet THEN PercentOf(xml.Bath, m_workBath) ELSE m_workBath
      /\ m_workDefault' = IF defaultSet THEN PercentOf(xml.Default, m_workDefault)
                                        ELSE m_workDefault
      /\ state' = IF defaultSet THEN "loaded" ELSE IF garbled THEN "failed" ELSE "crashed"

\* A project named twice is the last of its entries; one without a WorkDir uses
\* the system's directory for temporary files, as all such projects do.
Item(element) ==
  [path |-> element.path,
   workPath |-> IF element.workPath = Absent THEN DefaultDir ELSE element.workPath]

Items(list) ==
  [name \in {list[i].name : i \in DOMAIN list} |->
     LET last == CHOOSE i \in DOMAIN list :
                   list[i].name = name /\ \A j \in DOMAIN list : list[j].name = name => j <= i
     IN  Item(list[last])]

loadFromFile ==
  /\ state = "starting"
  /\ \E list \in ProjectLists, xml \in WorkTime :
       m_items' = Items(list) /\ loadWorkTime(xml)
  /\ UNCHANGED now

\* The file is not XML or has no Config element.
LoadFails ==
  /\ state = "starting"
  /\ state' = "failed"
  /\ UNCHANGED <<m_items, workVars, now>>

getProject(name) == IF name \in DOMAIN m_items THEN m_items[name] ELSE Absent

Tick ==
  /\ now' = IF now = DayLength - 1 THEN 0 ELSE now + 1
  /\ UNCHANGED <<state, m_items, workVars>>

Next == loadFromFile \/ LoadFails \/ Tick

Spec == Init /\ [][Next]_vars

\* The clock does not stop.
FairSpec == Spec /\ WF_vars(Tick)

-----------------------------------------------------------------------------
(***************************************************************************)
(* Reference: the window is what a hand of the clock passes on its way     *)
(* from Begin to End, both included, also over midnight; a window whose    *)
(* ends coincide is the whole day.                                         *)
(***************************************************************************)
WayLength ==
  IF m_workBegin = m_workEnd THEN DayLength - 1
  ELSE IF m_workBegin < m_workEnd THEN m_workEnd - m_workBegin
  ELSE m_workEnd - m_workBegin + DayLength

Passed(t) == \E k \in 0 .. WayLength : m_workBegin + k = t \/ m_workBegin + k = t + DayLength

\* getWorkPercent returns Bath exactly on the way from Begin to End.
WindowIsTheWay ==
  getWorkPercent = IF Passed(now) THEN m_workBath ELSE m_workDefault

(***************************************************************************)
(* getFreeCore is the share of MaxTasks nearest to the percentage, halves  *)
(* rounded up; so it is 0, and the daemon ignores every request, for less  *)
(* than half a task, and all of MaxTasks from within half a task of 100%.  *)
(***************************************************************************)
CoresAreNearest ==
  LET share == MaxTasks * getWorkPercent
  IN  /\ getFreeCore \in 0 .. MaxTasks
      /\ 100 * getFreeCore - share <= 50
      /\ share - 100 * getFreeCore < 50
      /\ getFreeCore = 0 <=> share < 50

\* While the configuration stands, what getFreeCore returns changes only when
\* the clock comes to Begin or leaves End.
CoresChangeAtEdges ==
  [][state = "loaded" /\ getFreeCore' # getFreeCore => now' = m_workBegin \/ now = m_workEnd]_vars

\* The percentages that give at least one task.
Enough == {percent \in 0 .. 100 : Rounded(MaxTasks * percent) # 0}

\* A daemon whose window gives it at least one task takes requests again and
\* again: no window is empty.
WindowComes ==
  (state = "loaded" /\ m_workBath \in Enough) ~> (getWorkPercent \in Enough)
=============================================================================
