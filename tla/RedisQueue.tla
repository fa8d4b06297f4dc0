----------------------------- MODULE RedisQueue -----------------------------
(***************************************************************************)
(* The usage queue behind the RESP interface (internal/redisqueue): the    *)
(* usage dispatcher enqueues, RESP connections and the management handler  *)
(* pop, and configuration reloads switch the queue on and off and change   *)
(* the retention window.  The enabled flag is read, and the clock is read, *)
(* before the queue's mutex is taken: each of these is a step of its own.  *)
(***************************************************************************)
EXTENDS Integers, Sequences, SequencesExt

CONSTANTS
  Records,      \* what the dispatcher enqueues, 1 .. n, in this order
  Poppers,      \* goroutines that call PopOldest
  Counts,       \* the counts they ask for
  Windows,      \* retention windows the configuration may name
  CompactAt,    \* the head at which the slice is always compacted (1024)
  MaxTime       \* bound on the clock

ASSUME RedisAssumption ==
  /\ Records \subseteq Nat /\ Windows \subseteq Nat \ {0} /\ Counts \subseteq Nat \ {0}
  /\ CompactAt \in Nat \ {0} /\ MaxTime \in Nat

VARIABLES
  enabled, retention,
  items, head,       \* q.items and q.head; items[head + 1] is the oldest
  now,
  producer,          \* the call of Enqueue that is under way
  popper,            \* popper[p]: the call of PopOldest that is under way
  clearing,          \* SetEnabled(false) has stored the flag, not yet cleared
  next,              \* the next record of the dispatcher
  out                \* history: what was popped, in order

vars == <<enabled, retention, items, head, now, producer, popper, clearing, next, out>>

Idle == [at |-> "idle", stamp |-> 0]

Init ==
  /\ enabled \in BOOLEAN /\ retention \in Windows
  /\ items = <<>> /\ head = 0 /\ now = 0
  /\ producer = Idle
  /\ popper = [p \in Poppers |-> Idle]
  /\ clearing = FALSE
  /\ next = 1 /\ out = <<>>

Tick ==
  /\ now < MaxTime /\ now' = now + 1
  /\ UNCHANGED <<enabled, retention, items, head, producer, popper, clearing, next, out>>

(***************************************************************************)
(* The slice: a value [items, head].                                       *)
(***************************************************************************)
Empty == [items |-> <<>>, head |-> 0]
Live(q) == SubSeq(q.items, q.head + 1, Len(q.items))
Here == [items |-> items, head |-> head]

\* pruneLocked moves the head to the first record that is not before the cutoff.
Prune(q, t) ==
  IF q.head >= Len(q.items) THEN Empty
  ELSE LET kept == {i \in q.head + 1 .. Len(q.items) : q.items[i].at >= t - retention}
       IN  [q EXCEPT !.head = IF kept = {} THEN Len(q.items)
                              ELSE (CHOOSE i \in kept : \A j \in kept : i <= j) - 1]

Compact(q) ==
  CASE q.head = 0 -> q
    [] q.head > 0 /\ q.head >= Len(q.items) -> Empty
    [] q.head > 0 /\ q.head < Len(q.items) ->
         IF q.head < CompactAt /\ 2 * q.head < Len(q.items) THEN q
         ELSE [items |-> Live(q), head |-> 0]

Put(q) == items' = q.items /\ head' = q.head

(***************************************************************************)
(* Enqueue, called by the usage dispatcher only: one record at a time.     *)
(***************************************************************************)
\* The plugin drops the record when the queue or the statistics are off.
EnqueueCheck(statistics) ==
  /\ producer.at = "idle" /\ next \in Records
  /\ IF enabled /\ statistics
     THEN producer' = [Idle EXCEPT !.at = "clock"] /\ next' = next
     ELSE producer' = producer /\ next' = next + 1
  /\ UNCHANGED <<enabled, retention, items, head, now, popper, clearing, out>>

EnqueueClock ==
  /\ producer.at = "clock"
  /\ producer' = [at |-> "lock", stamp |-> now]
  /\ UNCHANGED <<enabled, retention, items, head, now, popper, clearing, next, out>>

Enqueue ==
  /\ producer.at = "lock"
  /\ LET q == Prune(Here, producer.stamp)
     IN  Put(Compact([q EXCEPT !.items = Append(@, [id |-> next, at |-> producer.stamp])]))
  /\ next' = next + 1 /\ producer' = Idle
  /\ UNCHANGED <<enabled, retention, now, popper, clearing, out>>

(***************************************************************************)
(* PopOldest(count).                                                       *)
(***************************************************************************)
PopCheck(p) ==
  /\ popper[p].at = "idle" /\ enabled
  /\ popper' = [popper EXCEPT ![p].at = "clock"]
  /\ UNCHANGED <<enabled, retention, items, head, now, producer, clearing, next, out>>

PopClock(p) ==
  /\ popper[p].at = "clock"
  /\ popper' = [popper EXCEPT ![p] = [at |-> "lock", stamp |-> now]]
  /\ UNCHANGED <<enabled, retention, items, head, now, producer, clearing, next, out>>

Popped(p, n) == LET q == Prune(Here, popper[p].stamp)
                    have == Live(q)
                IN  SubSeq(have, 1, IF n > Len(have) THEN Len(have) ELSE n)

\* Mutant: the head is left where the prune put it.
PopKeeping(p, n) ==
  /\ popper[p].at = "lock"
  /\ Put(Compact(Prune(Here, popper[p].stamp)))
  /\ out' = out \o [i \in 1 .. Len(Popped(p, n)) |-> Popped(p, n)[i].id]
  /\ popper' = [popper EXCEPT ![p] = Idle]
  /\ UNCHANGED <<enabled, retention, now, producer, clearing, next>>

\* Mutant: expired records are handed out.
PopUnpruned(p, n) ==
  LET have == Live(Here)
      k == IF n > Len(have) THEN Len(have) ELSE n
  IN  /\ popper[p].at = "lock"
      /\ Put(Compact([Here EXCEPT !.head = @ + k]))
      /\ out' = out \o [i \in 1 .. k |-> have[i].id]
      /\ popper' = [popper EXCEPT ![p] = Idle]
      /\ UNCHANGED <<enabled, retention, now, producer, clearing, next>>

Pop(p, n) ==
  /\ popper[p].at = "lock"
  /\ LET q == Prune(Here, popper[p].stamp)
     IN  Put(IF Live(q) = <<>> THEN Empty
             ELSE Compact([q EXCEPT !.head = @ + Len(Popped(p, n))]))
  /\ out' = out \o [i \in 1 .. Len(Popped(p, n)) |-> Popped(p, n)[i].id]
  /\ popper' = [popper EXCEPT ![p] = Idle]
  /\ UNCHANGED <<enabled, retention, now, producer, clearing, next>>

(***************************************************************************)
(* The configuration reload: SetEnabled stores the flag, then clears.      *)
(***************************************************************************)
SetEnabled(value) ==
  /\ ~clearing
  /\ enabled' = value /\ clearing' = ~value
  /\ UNCHANGED <<retention, items, head, now, producer, popper, next, out>>

\* Mutant: a disabled queue keeps its records.
ClearNothing ==
  /\ clearing /\ clearing' = FALSE
  /\ UNCHANGED <<enabled, retention, items, head, now, producer, popper, next, out>>

Clear ==
  /\ clearing /\ clearing' = FALSE
  /\ Put(Empty)
  /\ UNCHANGED <<enabled, retention, now, producer, popper, next, out>>

SetRetention(w) ==
  /\ retention' = w
  /\ UNCHANGED <<enabled, items, head, now, producer, popper, clearing, next, out>>

Next ==
  \/ Tick
  \/ \E statistics \in BOOLEAN : EnqueueCheck(statistics)
  \/ EnqueueClock \/ Enqueue
  \/ \E p \in Poppers :
       PopCheck(p) \/ PopClock(p) \/ (\E n \in Counts : Pop(p, n))
  \/ \E value \in BOOLEAN : SetEnabled(value)
  \/ Clear
  \/ \E w \in Windows : SetRetention(w)

Spec == Init /\ [][Next]_vars

(***************************************************************************)
(* Properties.                                                             *)
(***************************************************************************)
\* The queue is a first-in first-out queue with expiry, whatever the races of
\* poppers, reloads and compactions: nothing is popped twice, out of order, or
\* lost before its retention window is over.
Fifo == INSTANCE UsageFifo WITH fifo <- Live(Here)
IsFifo == Fifo!Spec

\* A call of PopOldest returns no record that had expired when it read the
\* clock.  The prune stops at the first record that is fresh, so this needs the
\* records to lie in the order of their times, which the single dispatcher gives.
PopFresh ==
  [][\A p \in Poppers : popper[p].at = "lock" /\ popper'[p].at = "idle" =>
       \A i \in Len(out) + 1 .. Len(out') : \A j \in 1 .. Len(items) :
         items[j].id = out'[i] => items[j].at >= popper[p].stamp - retention]_vars

\* A queue that was switched off holds at most the one record whose Enqueue had
\* read the flag before: what was queued is gone, and nothing piles up.
AtMostOneLeft ==
  ~enabled /\ ~clearing =>
    Len(Live(Here)) + (IF producer.at = "idle" THEN 0 ELSE 1) <= 1
=============================================================================
