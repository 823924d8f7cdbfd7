--------------------------- MODULE ProjectsProofs ---------------------------
(***************************************************************************)
(* Proofs about Projects, for every length of the day, every number of     *)
(* threads and every configuration file.                                   *)
(***************************************************************************)
EXTENDS Projects, TLAPS

USE ProjectsAssumption

\* loadWorkTime sets times of the day and percentages, whatever the file says.
LEMMA LoadedInRange ==
  ASSUME TypeOK, NEW xml \in WorkTime, loadWorkTime(xml)
  PROVE  /\ m_workBegin' \in Minute /\ m_workEnd' \in Minute
         /\ m_workBath' \in 0 .. 100 /\ m_workDefault' \in 0 .. 100
         /\ state' \in {"loaded", "failed", "crashed"}
<1>1. \A text \in TimeTexts \cup {Absent}, t \in Minute : TimeOf(text, t) \in Minute
  BY DEF TimeOf, Minute
<1>2. \A text \in PercentTexts \cup {Absent, Garbled}, p \in 0 .. 100 :
        PercentOf(text, p) \in 0 .. 100
  BY DEF PercentOf, Clamped
<1> QED BY <1>1, <1>2 DEF TypeOK, loadWorkTime, WorkTime, Texts

\* The configuration and the clock keep their types: in particular no percentage
\* leaves 0..100 and no time the day.
THEOREM TypeCorrect == Spec => []TypeOK
<1>1. Init => TypeOK
  BY DEF Init, TypeOK, Minute
<1>2. TypeOK /\ [Next]_vars => TypeOK'
  <2> SUFFICES ASSUME TypeOK, [Next]_vars PROVE TypeOK'
    OBVIOUS
  <2>1. CASE loadFromFile
    <3>1. PICK xml \in WorkTime : loadWorkTime(xml)
      BY <2>1 DEF loadFromFile
    <3> QED BY <2>1, <3>1, LoadedInRange DEF loadFromFile, TypeOK
  <2>2. CASE LoadFails
    BY <2>2 DEF LoadFails, TypeOK, workVars
  <2>3. CASE Tick
    BY <2>3 DEF Tick, TypeOK, workVars, Minute
  <2>4. CASE UNCHANGED vars
    BY <2>4 DEF vars, workVars, TypeOK
  <2> QED BY <2>1, <2>2, <2>3, <2>4 DEF Next
<1> QED BY <1>1, <1>2, PTL DEF Spec

-----------------------------------------------------------------------------
\* The test of getWorkPercent is the walk from Begin to End.
LEMMA WindowMeaning == TypeOK => \A t \in Minute : InWindow(t) <=> Passed(t)
<1> SUFFICES ASSUME TypeOK, NEW t \in Minute PROVE InWindow(t) <=> Passed(t)
  OBVIOUS
<1> USE DEF TypeOK, Minute
<1>1. WayLength \in 0 .. (DayLength - 1)
  BY DEF WayLength
<1>2. ASSUME InWindow(t) PROVE Passed(t)
  <2>1. CASE t >= m_workBegin
    <3>1. t - m_workBegin \in 0 .. WayLength
      BY <1>2, <2>1 DEF InWindow, WayLength
    <3>2. m_workBegin + (t - m_workBegin) = t
      OBVIOUS
    <3> QED BY <3>1, <3>2 DEF Passed
  <2>2. CASE t < m_workBegin
    <3>1. t - m_workBegin + DayLength \in 0 .. WayLength
      BY <1>2, <2>2 DEF InWindow, WayLength
    <3>2. m_workBegin + (t - m_workBegin + DayLength) = t + DayLength
      OBVIOUS
    <3> QED BY <3>1, <3>2 DEF Passed
  <2> QED BY <2>1, <2>2
<1>3. ASSUME Passed(t) PROVE InWindow(t)
  BY <1>1, <1>3 DEF Passed, InWindow, WayLength
<1> QED BY <1>2, <1>3

(***************************************************************************)
(* For every window, over midnight or not, getWorkPercent returns Bath     *)
(* exactly on the clock's way from Begin to End.                           *)
(***************************************************************************)
THEOREM WindowIsTheWayHolds == Spec => []WindowIsTheWay
<1>1. TypeOK => WindowIsTheWay
  BY WindowMeaning DEF TypeOK, WindowIsTheWay, getWorkPercent
<1> QED BY <1>1, TypeCorrect, PTL

\* What Rounded returns for a share of n tasks.
LEMMA RoundedIsNearest ==
  ASSUME NEW n \in Nat \ {0}, NEW s \in Nat, s <= 100 * n
  PROVE  /\ Rounded(s) \in 0 .. n
         /\ 100 * Rounded(s) - s <= 50 /\ s - 100 * Rounded(s) < 50
         /\ Rounded(s) = 0 <=> s < 50
<1>1. /\ Rounded(s) \in Int
      /\ 100 * Rounded(s) <= s + 50 /\ s + 50 < 100 * Rounded(s) + 100
  BY DEF Rounded
<1> QED BY <1>1

LEMMA MaxTasksPositive == MaxTasks \in Nat \ {0}
  BY DEF MaxTasks

\* A share of a number of tasks by a percentage is at most that number.
LEMMA ShareBound ==
  ASSUME NEW n \in Nat, NEW p \in 0 .. 100
  PROVE  n * p \in Nat /\ n * p <= 100 * n
  OBVIOUS

(***************************************************************************)
(* getFreeCore never exceeds MaxTasks, is the nearest number to the        *)
(* percentage, and is 0 exactly below half a task.                         *)
(***************************************************************************)
THEOREM CoresAreNearestHolds == Spec => []CoresAreNearest
<1>1. TypeOK => CoresAreNearest
  <2> SUFFICES ASSUME TypeOK PROVE CoresAreNearest
    OBVIOUS
  <2>1. getWorkPercent \in 0 .. 100
    BY DEF TypeOK, getWorkPercent
  <2>2. /\ MaxTasks * getWorkPercent \in Nat
        /\ MaxTasks * getWorkPercent <= 100 * MaxTasks
    BY <2>1, ShareBound, MaxTasksPositive
  <2> QED BY <2>2, RoundedIsNearest, MaxTasksPositive DEF CoresAreNearest, getFreeCore
<1> QED BY <1>1, TypeCorrect, PTL

\* The number of tasks a daemon takes changes only at the ends of its window.
THEOREM CoresChangeAtEdgesHolds == Spec => CoresChangeAtEdges
<1> DEFINE Edge == state = "loaded" /\ getFreeCore' # getFreeCore
                     => now' = m_workBegin \/ now = m_workEnd
<1>1. TypeOK /\ [Next]_vars => [Edge]_vars
  <2> SUFFICES ASSUME TypeOK, Next, state = "loaded", getFreeCore' # getFreeCore
               PROVE  now' = m_workBegin \/ now = m_workEnd
    OBVIOUS
  <2>1. Tick
    BY DEF Next, loadFromFile, LoadFails
  <2>2. getWorkPercent' # getWorkPercent
    BY DEF getFreeCore
  <2>3. InWindow(now') # InWindow(now)
    BY <2>1, <2>2 DEF Tick, workVars, getWorkPercent, InWindow
  <2> QED BY <2>1, <2>3 DEF InWindow, Tick, TypeOK, Minute
<1> QED BY <1>1, TypeCorrect, PTL DEF Spec, CoresChangeAtEdges
=============================================================================
