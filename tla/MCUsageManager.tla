--------------------------- MODULE MCUsageManager ---------------------------
(* Model checking of UsageManager. *)
EXTENDS UsageManager
=============================================================================
