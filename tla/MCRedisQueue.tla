---------------------------- MODULE MCRedisQueue ----------------------------
(* Model checking of RedisQueue. *)
EXTENDS RedisQueue

MCRecords == 1 .. 4
MCCounts == {1, 2}
MCWindows == {1, 2}
MCPoppers == {"resp", "http"}
=============================================================================
