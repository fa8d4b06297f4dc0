------------------------------ MODULE UsageFifo ------------------------------
(***************************************************************************)
(* What the in-memory usage queue promises: records leave it from the      *)
(* front only, each at most once; one that is neither handed out nor       *)
(* wiped leaves only when it is older than the retention window.           *)
(***************************************************************************)
EXTENDS Integers, Sequences

CONSTANT Records

VARIABLES
  fifo,        \* the records kept, oldest first, with the time they came in
  out,         \* the records handed out so far
  now, retention

vars == <<fifo, out, now, retention>>

From(k) == SubSeq(fifo, k, Len(fifo))
Expired(item) == item.at < now - retention

Init == fifo = <<>> /\ out = <<>>

\* The k oldest records have expired and go, then r comes in ...
Accept(r, k) ==
  /\ \A i \in 1 .. k : Expired(fifo[i])
  /\ \E t \in 0 .. now : fifo' = Append(From(k + 1), [id |-> r, at |-> t])
  /\ out' = out

\* ... or the next n are handed out.
HandOut(n, k) ==
  /\ \A i \in 1 .. k : Expired(fifo[i])
  /\ k + n <= Len(fifo)
  /\ fifo' = From(k + n + 1)
  /\ out' = out \o [i \in 1 .. n |-> fifo[k + i].id]

Wipe == fifo' = <<>> /\ out' = out

Next ==
  \/ \E k \in 0 .. Len(fifo) :
       \/ \E r \in Records : Accept(r, k)
       \/ \E n \in 0 .. Len(fifo) : HandOut(n, k)
  \/ Wipe

Spec == Init /\ [][Next]_<<fifo, out>>
=============================================================================
