---------------------------- MODULE MCScheduler ----------------------------
(* Instances of Scheduler for TLC. *)
EXTENDS Scheduler, TLC

\* Threads other than main are created alike.
Symmetry == Permutations(Threads \ {Main})
=============================================================================
