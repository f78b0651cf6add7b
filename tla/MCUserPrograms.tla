--------------------------- MODULE MCUserPrograms ---------------------------
(* Instances of UserPrograms for TLC. *)
EXTENDS UserPrograms
=============================================================================
