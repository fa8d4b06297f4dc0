--------------------------- MODULE MCRelaySession ---------------------------
(* Model checking of RelaySession: requests are alike. *)
EXTENDS RelaySession, TLC

MCSymmetry == Permutations(Requests)
=============================================================================
