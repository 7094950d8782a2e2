----------------------------- MODULE MCGraphRun -----------------------------
(* Graphs for TLC.                                                             *)
EXTENDS GraphRun, TLC

CONSTANTS a, b, c, d, s

\* s fans out to a and b, which join in c; c loops back to s or goes on to d.
LoopNodes == {s, a, b, c, d}
LoopEdges == (s :> <<a, b>>) @@ (a :> <<c>>) @@ (b :> <<c>>) @@ (c :> <<s, d>>) @@ (d :> <<End>>)
\* One retry for a, none for the others.
LoopAttempts == [n \in LoopNodes |-> IF n = a THEN 2 ELSE 1]

\* s fans out to a and b, which join in c.
JoinNodes == {s, a, b, c}
JoinEdges == (s :> <<a, b>>) @@ (a :> <<c>>) @@ (b :> <<c>>) @@ (c :> <<End>>)
OneAttempt == [n \in JoinNodes |-> 1]
=============================================================================
