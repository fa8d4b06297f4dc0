------------------------- MODULE MCWatcherDispatch -------------------------
(* Model checking of WatcherDispatch: one credential of each kind. *)
EXTENDS WatcherDispatch, TLC

CONSTANTS file1, key1, socket1, content, start, reload, call

MCFirstKeys == key1 :> content
MCChanges == {[keys |-> key1 :> None, filter |-> {key1}, force |-> FALSE],
              [keys |-> key1 :> content, filter |-> {file1}, force |-> TRUE]}
=============================================================================
