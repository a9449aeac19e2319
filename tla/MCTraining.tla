----------------------------- MODULE MCTraining -----------------------------
(* A run of six steps over two epochs, saved at the fourth, validated and   *)
(* saved at the fifth, and validated again at its end, which the BERTurk    *)
(* trainer saves after it.                                                  *)
EXTENDS Training

R(p, m, w) == [pass |-> p, macro |-> m, worst |-> w]

\* The base model, one that does not improve on it enough, and one that passes.
MCReports == {R(0, 10, 0), R(0, 11, 3), R(1, 13, 2)}
=============================================================================
