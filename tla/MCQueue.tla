------------------------------- MODULE MCQueue -------------------------------
(***************************************************************************)
(* Instances of Queue for TLC.                                             *)
(***************************************************************************)
EXTENDS Queue, TLC

Symmetry == Permutations(Word)

=============================================================================
