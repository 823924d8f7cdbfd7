---------------------------- MODULE MCProjects ----------------------------
\* Constant values for model checking Projects.
EXTENDS Projects

\* Two projects, one without a WorkDir, and a list that names one of them twice.
Lists ==
  {<<>>,
   <<[name |-> "a", path |-> "pa", workPath |-> Absent],
     [name |-> "b", path |-> "pb", workPath |-> "wb"],
     [name |-> "a", path |-> "qa", workPath |-> "wa"]>>}

\* Percentages below, at and above the point where one of five tasks is rounded to
\* nothing, and numbers that are clamped.
Percents == {-5, 9, 10, 50, 120}
=============================================================================
