------------------------------- MODULE MCFrames -------------------------------
(***************************************************************************)
(* Instances of Frames for TLC.                                            *)
(***************************************************************************)
EXTENDS Frames, FiniteSetsExt

MCLimits == {-1, 0, 7}

\* Bound: of these blocks, a few at a time.
Number(P(_)) == Quantify(DOMAIN blocks, LAMBDA i : P(blocks[i]))

Few ==
  /\ Number(LAMBDA b : b.kind = "rlimits") <= 2
  /\ Number(LAMBDA b : b.kind = "guard") <= 1
  /\ Number(LAMBDA b : b.kind \in {"critical", "called"} /\ b.then = "run") <= 1
  /\ \A i \in DOMAIN blocks \ {1} :
       blocks[i].kind = "call" /\ blocks[i - 1].kind = "call" => blocks[i].plane
=============================================================================
