------------------------------ MODULE MCJobLog ------------------------------
EXTENDS JobLog

CONSTANTS a, b, c      \* characters

\* A label that is too short, one that fills the array and one that is too
\* long for it.
MCLabels == {<<a>>, <<a, b, c>>}

\* The logs differ in nothing but their owners: one of them is enough to let
\* entries follow each other.
MCMaxEntries == [p \in Procs |-> IF p = InitProc THEN 1 ELSE 2]
=============================================================================
