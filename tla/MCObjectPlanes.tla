-------------------------- MODULE MCObjectPlanes --------------------------
(***************************************************************************)
(* Instances of ObjectPlanes for TLC.                                      *)
(***************************************************************************)
EXTENDS ObjectPlanes, TLC

Symmetry == Permutations(Name)
=============================================================================
