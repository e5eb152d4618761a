----------------------------- MODULE MCSnapshot -----------------------------
(***************************************************************************)
(* An instance of Snapshot.  Two contents are told apart for one object    *)
(* only: the other one may be in its way, and any object could be either.  *)
(***************************************************************************)
EXTENDS Snapshot, TLC

CONSTANTS Tracked, MaxSize, X, Y, Z

MCContentsOf == [o \in Objects |-> IF o = Tracked THEN {X, Y} ELSE {Z}]

\* The other object has one sector.
MCSizesOf == [o \in Objects |-> IF o = Tracked THEN 1 .. MaxSize ELSE {1}]

Symmetry == Permutations({X, Y}) \cup Permutations(Objects \ {Tracked})

\* Bound: vectors grow and shrink only as long as no snapshot is made.
ShortOnceSaved ==
    snapshot # NoFile \/ step # "run" => \A o \in Objects : Len(vec[o]) <= 1
=============================================================================
