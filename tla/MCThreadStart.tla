--------------------------- MODULE MCThreadStart ---------------------------
(* Instances of ThreadStart for TLC. *)
EXTENDS ThreadStart
=============================================================================
