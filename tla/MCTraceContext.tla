---------------------------- MODULE MCTraceContext ----------------------------
(* Instances of TraceContext for TLC. *)
EXTENDS TraceContext, TLC

CONSTANTS c1, p1, d, r1, r2

\* A caller has room for a method within a task within main, a pool thread for a method
\* within a task.
MCDepth == [t \in Threads |-> IF t \in Callers THEN 3 ELSE 2]

\* No action reads altered, and the properties of the run accept either value.
MCView == <<programVars, idVars, fullRate, reported, kept, begun, astray, bareTasks>>

\* The properties treat all requests alike.
MCSymmetry == Permutations(Requests)
===============================================================================
