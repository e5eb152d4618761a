---------------------------- MODULE MCDataPlanes ----------------------------
(***************************************************************************)
(* DataPlanes with two dataspaces, one with two variables that both refer  *)
(* to an array in the swap file.                                           *)
(***************************************************************************)
EXTENDS DataPlanes

CONSTANTS A, B, v, w1, w2

MCOf(x) == IF x = v THEN A ELSE B
MCStored(x) == IF x = v THEN Nil ELSE 1
=============================================================================
