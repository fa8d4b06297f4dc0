--------------------------- MODULE WatcherDelivery ---------------------------
(***************************************************************************)
(* What the watcher's dispatcher promises to whoever computes updates of a *)
(* credential: the service sees them in the order in which they were       *)
(* told, it may skip some, and it comes to see the newest.                 *)
(***************************************************************************)
EXTENDS Naturals

CONSTANT Ids

VARIABLES
  told,   \* told[i]: how many updates of i were handed to the dispatcher
  seen    \* seen[i]: which of them the service saw last

vars == <<told, seen>>

Init == told = [i \in Ids |-> 0] /\ seen = [i \in Ids |-> 0]

Tell(S) ==
  /\ S # {}
  /\ told' = [i \in Ids |-> IF i \in S THEN told[i] + 1 ELSE told[i]]
  /\ UNCHANGED seen

See(i) ==
  /\ \E n \in seen[i] + 1 .. told[i] : seen' = [seen EXCEPT ![i] = n]
  /\ UNCHANGED told

Next == (\E S \in SUBSET Ids : Tell(S)) \/ (\E i \in Ids : See(i))

Spec == Init /\ [][Next]_vars /\ \A i \in Ids : WF_vars(See(i))
=============================================================================
