---------------------------- MODULE MCSynchList ----------------------------
(* Instances of SynchList for TLC. *)
EXTENDS SynchList
=============================================================================
