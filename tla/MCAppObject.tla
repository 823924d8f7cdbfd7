---------------------------- MODULE MCAppObject ----------------------------
\* Objects for model checking AppObject.
EXTENDS AppObject

CONSTANTS o1, o2, o3
=============================================================================
