---------------------------- MODULE MCSemaphore ----------------------------
(* Instances of Semaphore for TLC. *)
EXTENDS Semaphore

\* A lock, and a semaphore on which somebody waits for an event.
LockAndEvent == [s \in Sems |-> IF s = CHOOSE x \in Sems : TRUE THEN 1 ELSE 0]
=============================================================================
