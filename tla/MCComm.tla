-------------------------------- MODULE MCComm --------------------------------
(***************************************************************************)
(* Instances of Comm for TLC.                                              *)
(***************************************************************************)
EXTENDS Comm, TLC

Symmetry == Permutations(Slot) \cup Permutations(Byte)
=============================================================================
