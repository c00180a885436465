------------------------------- MODULE MCStore -------------------------------
(***************************************************************************)
(* Instances of Store for TLC.                                             *)
(***************************************************************************)
EXTENDS Store

Symmetry == Permutations(Obj \ {StartupMap})

=============================================================================
