---------------------------- MODULE MCDiagnosisPool ----------------------------
(* Instances of DiagnosisPool for TLC. *)
EXTENDS DiagnosisPool

CONSTANTS t1, t2

\* A tick outlasts the expiry of either list, unless it is renewed.
MCExpiry == [l \in Lists |-> 1]
===============================================================================
