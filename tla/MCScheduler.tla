----------------------------- MODULE MCScheduler -----------------------------
(***************************************************************************)
(* Instances of Scheduler for TLC.                                         *)
(***************************************************************************)
EXTENDS Scheduler

Symmetry == Permutations(Thread) \cup Permutations(Transient)

=============================================================================
