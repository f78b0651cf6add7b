---------------------------- MODULE MCProcTable ----------------------------
(* Instances of ProcTable for TLC. *)
EXTENDS ProcTable

\* Each process exits with a status of its own, so that no two can be confused.
OwnStatus(p) == {p}
=============================================================================
