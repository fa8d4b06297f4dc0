-------------------------- MODULE MCUpstreamSession --------------------------
(* Model checking of UpstreamSession.  Connections and credentials are alike, so  *)
(* the first credential is taken to be 1 and connections to be dialled in order   *)
(* (SYMMETRY would not be sound for the liveness property).  One request at most  *)
(* is a warm-up: that comes before another request, or after one.                 *)
EXTENDS UpstreamSession

MCInOrder ==
  /\ auth[1] \in {NoAuth, 1}
  /\ \A c \in Conns \ {1} : dialled[c] # NoAuth => dialled[c - 1] # NoAuth
  /\ Cardinality(warm) <= 1
==============================================================================
