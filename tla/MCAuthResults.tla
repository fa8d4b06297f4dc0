--------------------------- MODULE MCAuthResults ---------------------------
(* Model checking of AuthResults: the requests are alike, and so are models. *)
EXTENDS AuthResults, TLC

CONSTANTS m1, m2, w1, w2

MCModels == {m1, m2}
MCWorkers == {w1, w2}
MCSymmetry == Permutations(MCModels) \cup Permutations(MCWorkers)
=============================================================================
