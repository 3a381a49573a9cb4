--------------------------- MODULE MCSamplingControl ---------------------------
(* An instance of SamplingControl for TLC: two agents of two applications.    *)
EXTENDS SamplingControl

CONSTANTS a1, a2, shop, pay

MCAppOf == [a \in Agents |-> IF a = a1 THEN shop ELSE pay]

\* broadcastToApps is called for one of the applications.
MCTargets == {{shop}}
===============================================================================
