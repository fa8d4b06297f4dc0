---------------------------- MODULE MCAutoRefresh ----------------------------
(* Model checking of AutoRefresh. *)
EXTENDS AutoRefresh
=============================================================================
