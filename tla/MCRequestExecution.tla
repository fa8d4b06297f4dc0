------------------------ MODULE MCRequestExecution ------------------------
(* Model checking of RequestExecution: one plain and one streaming request. *)
EXTENDS RequestExecution, TLC

CONSTANTS a1, a2, plain, stream, m

MCRetry == (a1 :> 1) @@ (a2 :> 0)
MCSettings == {[cooling |-> TRUE, compat |-> FALSE, credentials |-> 0, wait |-> 1],
               [cooling |-> TRUE, compat |-> TRUE, credentials |-> 1, wait |-> 1],
               [cooling |-> FALSE, compat |-> FALSE, credentials |-> 0, wait |-> 1]}
MCErrors == {"scoped", "quota", "limit", "transient"}
=============================================================================
