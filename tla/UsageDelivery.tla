---------------------------- MODULE UsageDelivery ----------------------------
(***************************************************************************)
(* What the usage manager promises its callers: the records it accepted    *)
(* before it was closed are handed out one by one, in the order in which   *)
(* they were accepted, and none is left out.                               *)
(***************************************************************************)
EXTENDS Naturals, Sequences

CONSTANT Records

VARIABLES
  accepted,   \* the records accepted so far, in order
  handed,     \* how many of them were handed out
  open        \* records are still accepted

vars == <<accepted, handed, open>>

Init == accepted = <<>> /\ handed = 0 /\ open = TRUE

Accept(r) ==
  /\ open
  /\ accepted' = Append(accepted, r)
  /\ UNCHANGED <<handed, open>>

HandOut ==
  /\ handed < Len(accepted)
  /\ handed' = handed + 1
  /\ UNCHANGED <<accepted, open>>

Close == open /\ open' = FALSE /\ UNCHANGED <<accepted, handed>>

Next == (\E r \in Records : Accept(r)) \/ HandOut \/ Close

Spec == Init /\ [][Next]_vars /\ WF_vars(HandOut)
=============================================================================
