----------------------------- MODULE UsageProofs -----------------------------
(***************************************************************************)
(* Proofs about the way of a usage record.  RedisQueue: for all records,   *)
(* poppers, windows and sizes of the slice, the queue is the first-in      *)
(* first-out queue of UsageFifo.  UsageManager, below, from which records  *)
(* come: for all publishers and plugins it hands out what it accepted, and *)
(* every plugin gets all of it in order.                                   *)
(***************************************************************************)
EXTENDS RedisQueue, UsageManager, SequenceTheorems, WellFoundedInduction, TLAPS

(***************************************************************************)
(* The queue.                                                              *)
(***************************************************************************)
Item == [id : Records, at : Nat]
Queue == [items : Seq(Item), head : Nat]
Call == [at : {"idle", "clock", "lock"}, stamp : Nat]

\* The head points into the slice.
Sound(q) == q \in Queue /\ q.head <= Len(q.items)

LEMMA LiveFacts ==
  ASSUME NEW q, Sound(q)
  PROVE  /\ Live(q) \in Seq(Item) /\ Len(Live(q)) = Len(q.items) - q.head
         /\ \A i \in 1 .. Len(Live(q)) : Live(q)[i] = q.items[q.head + i]
<1> DEFINE s == q.items
           h == q.head
<1>1. s \in Seq(Item) /\ h \in Nat /\ Len(s) \in Nat /\ h <= Len(s)
  BY DEF Sound, Queue
<1> HIDE DEF s, h
<1>2. \A i \in h + 1 .. Len(s) : s[i] \in Item
  BY <1>1, ElementOfSeq
<1>3. /\ SubSeq(s, h + 1, Len(s)) \in Seq(Item)
      /\ Len(SubSeq(s, h + 1, Len(s))) = IF h + 1 <= Len(s) THEN Len(s) - (h + 1) + 1 ELSE 0
      /\ \A i \in 1 .. Len(s) - (h + 1) + 1 : SubSeq(s, h + 1, Len(s))[i] = s[(h + 1) + i - 1]
  BY <1>1, <1>2, SubSeqProperties
<1>4. Live(q) = SubSeq(s, h + 1, Len(s))
  BY DEF Live, s, h
<1>5. Len(Live(q)) = Len(s) - h
  BY <1>1, <1>3, <1>4
<1>6. ASSUME NEW i \in 1 .. Len(Live(q)) PROVE Live(q)[i] = s[h + i]
  <2>1. i \in 1 .. Len(s) - (h + 1) + 1 /\ i \in Int
    BY <1>1, <1>5
  <2>2. Live(q)[i] = s[(h + 1) + i - 1] /\ (h + 1) + i - 1 = h + i
    BY <1>1, <1>3, <1>4, <2>1
  <2>3. QED
    BY <2>2
<1>7. QED
  BY <1>3, <1>4, <1>5, <1>6 DEF s, h

LEMMA QueueFacts ==
  ASSUME NEW q, Sound(q)
  PROVE  /\ q \in Queue /\ q.head \in Nat /\ Len(q.items) \in Nat /\ q.head <= Len(q.items)
         /\ q.items \in Seq(Item)
         /\ Live(q) \in Seq(Item) /\ Len(Live(q)) = Len(q.items) - q.head
         /\ \A i \in 1 .. Len(Live(q)) : Live(q)[i] = q.items[q.head + i]
<1>1. /\ q \in Queue /\ q.head \in Nat /\ Len(q.items) \in Nat /\ q.head <= Len(q.items)
      /\ q.items \in Seq(Item)
  BY DEF Sound, Queue
<1>2. QED
  BY <1>1, LiveFacts, Zenon

LEMMA ItemFacts ==
  ASSUME NEW s \in Seq(Item)
  PROVE  \A i \in 1 .. Len(s) : s[i] \in Item /\ s[i].id \in Nat /\ s[i].at \in Nat
<1>1. Records \subseteq Nat
  BY RedisAssumption, Zenon
<1>2. \A x \in Item : x.id \in Nat /\ x.at \in Nat
  BY <1>1 DEF Item
<1>3. \A i \in 1 .. Len(s) : s[i] \in Item
  BY ElementOfSeq
<1>4. QED
  BY <1>2, <1>3, Zenon

\* What a tail of a sequence holds.
LEMMA TailFacts ==
  ASSUME NEW l \in Seq(Item), NEW k \in Nat, k <= Len(l)
  PROVE  /\ Len(SubSeq(l, k + 1, Len(l))) = Len(l) - k
         /\ \A i \in 1 .. Len(l) - k : SubSeq(l, k + 1, Len(l))[i] = l[k + i]
<1>1. Len(l) \in Nat /\ \A i \in k + 1 .. Len(l) : l[i] \in Item
  BY ElementOfSeq
<1>2. /\ SubSeq(l, k + 1, Len(l)) \in Seq(Item)
      /\ Len(SubSeq(l, k + 1, Len(l))) = IF k + 1 <= Len(l) THEN Len(l) - (k + 1) + 1 ELSE 0
      /\ \A i \in 1 .. Len(l) - (k + 1) + 1 : SubSeq(l, k + 1, Len(l))[i] = l[(k + 1) + i - 1]
  BY <1>1, SubSeqProperties
<1>3. ASSUME NEW i \in 1 .. Len(l) - k PROVE SubSeq(l, k + 1, Len(l))[i] = l[k + i]
  <2>1. i \in 1 .. Len(l) - (k + 1) + 1 /\ (k + 1) + i - 1 = k + i
    BY <1>1
  <2>2. QED
    BY <2>1, <1>2
<1>4. QED
  BY <1>1, <1>2, <1>3

\* Two queues that agree on what they keep keep the same.
LEMMA SameLive ==
  ASSUME NEW q, Sound(q), NEW k \in Nat, k <= Len(Live(q)),
         NEW s \in Seq(Item), Len(s) = Len(Live(q)) - k,
         \A i \in 1 .. Len(s) : s[i] = Live(q)[k + i]
  PROVE  s = SubSeq(Live(q), k + 1, Len(Live(q)))
<1> DEFINE l == Live(q)
<1>1. l \in Seq(Item) /\ Len(l) \in Nat
  BY LiveFacts
<1> HIDE DEF l
<1>2. \A i \in k + 1 .. Len(l) : l[i] \in Item
  BY <1>1, ElementOfSeq
<1>3. /\ SubSeq(l, k + 1, Len(l)) \in Seq(Item)
      /\ Len(SubSeq(l, k + 1, Len(l))) = IF k + 1 <= Len(l) THEN Len(l) - (k + 1) + 1 ELSE 0
      /\ \A i \in 1 .. Len(l) - (k + 1) + 1 : SubSeq(l, k + 1, Len(l))[i] = l[(k + 1) + i - 1]
  BY <1>1, <1>2, SubSeqProperties
<1>4. Len(s) = Len(SubSeq(l, k + 1, Len(l))) /\ \A i \in 1 .. Len(s) : s[i] = SubSeq(l, k + 1, Len(l))[i]
  BY <1>1, <1>3 DEF l
<1>5. QED
  BY <1>3, <1>4, SeqEqual DEF l

LEMMA EmptyFacts == Sound(Empty) /\ Live(Empty) = <<>>
<1>1. Sound(Empty)
  BY DEF Sound, Empty, Queue
<1>2. Len(Live(Empty)) = 0 /\ Live(Empty) \in Seq(Item)
  BY <1>1, LiveFacts DEF Empty
<1>3. QED
  BY <1>1, <1>2, EmptySeq

LEMMA CompactFacts ==
  ASSUME NEW q, Sound(q)
  PROVE  Sound(Compact(q)) /\ Live(Compact(q)) = Live(q)
<1>1. /\ q \in Queue /\ q.head \in Nat /\ Len(q.items) \in Nat /\ q.head <= Len(q.items)
      /\ Live(q) \in Seq(Item) /\ Len(Live(q)) = Len(q.items) - q.head
  BY LiveFacts DEF Sound, Queue
<1>2. CASE Compact(q) = q
  BY <1>2
<1>3. CASE Compact(q) = Empty /\ q.head >= Len(q.items)
  BY <1>1, <1>3, EmptyFacts, EmptySeq
<1>4. CASE Compact(q) = [items |-> Live(q), head |-> 0]
  <2>1. Sound(Compact(q)) /\ Compact(q).items = Live(q) /\ Compact(q).head = 0
    BY <1>1, <1>4 DEF Sound, Queue
  <2>2. /\ Live(Compact(q)) \in Seq(Item) /\ Len(Live(Compact(q))) = Len(Live(q))
        /\ \A i \in 1 .. Len(Live(q)) : Live(Compact(q))[i] = Live(q)[i]
    BY <2>1, <1>1, LiveFacts
  <2>3. QED
    BY <2>1, <2>2, <1>1, SeqEqual
<1>5. QED
  BY <1>1, <1>2, <1>3, <1>4 DEF Compact

\* A set of naturals has a least element.
LEMMA Least ==
  ASSUME NEW T \in SUBSET Nat, T # {}
  PROVE  \E i \in T : \A j \in T : i <= j
<1> DEFINE R == {ss \in Nat \X Nat : ss[1] < ss[2]}
<1>1. OpToRel(<, Nat) = R
  BY Zenon DEF OpToRel
<1>2. \E i \in T : \A j \in T : ~ (<<j, i>> \in R)
  <2> HIDE DEF R
  <2>1. IsWellFoundedOn(R, Nat)
    BY <1>1, NatLessThanWellFounded
  <2>2. QED
    BY <2>1, WFMin
<1>3. PICK i \in T : \A j \in T : ~ (<<j, i>> \in R)
  BY <1>2
<1>4. ASSUME NEW j \in T PROVE i <= j
  <2>1. ~ (<<j, i>> \in R)
    BY <1>3
  <2>2. QED
    BY <2>1
<1>5. QED
  BY <1>4

\* A queue with another head, or with other items, is a queue.
LEMMA UpdateFacts ==
  ASSUME NEW q \in Queue, NEW h \in Nat, NEW s \in Seq(Item)
  PROVE  /\ [q EXCEPT !.head = h] \in Queue
         /\ [q EXCEPT !.head = h].items = q.items /\ [q EXCEPT !.head = h].head = h
         /\ [q EXCEPT !.items = s] \in Queue
         /\ [q EXCEPT !.items = s].items = s /\ [q EXCEPT !.items = s].head = q.head
<1>1. q = [items |-> q.items, head |-> q.head] /\ q.items \in Seq(Item) /\ q.head \in Nat
  BY DEF Queue
<1>2. [q EXCEPT !.head = h] = [items |-> q.items, head |-> h]
  BY <1>1
<1>3. [q EXCEPT !.items = s] = [items |-> s, head |-> q.head]
  BY <1>1
<1>4. QED
  BY <1>1, <1>2, <1>3 DEF Queue

\* The head moves on by n.
LEMMA ShiftFacts ==
  ASSUME NEW q, Sound(q), NEW n \in Nat, n <= Len(Live(q))
  PROVE  /\ Sound([q EXCEPT !.head = @ + n])
         /\ Live([q EXCEPT !.head = @ + n]) = SubSeq(Live(q), n + 1, Len(Live(q)))
<1>1. /\ q \in Queue /\ q.head \in Nat /\ Len(q.items) \in Nat /\ q.head <= Len(q.items)
      /\ q.items \in Seq(Item) /\ Len(Live(q)) = Len(q.items) - q.head
      /\ \A i \in 1 .. Len(Live(q)) : Live(q)[i] = q.items[q.head + i]
  BY QueueFacts, Zenon
<1> DEFINE u == [q EXCEPT !.head = @ + n]
<1>2. u \in Queue /\ u.items = q.items /\ u.head = q.head + n
  <2>1. q.head + n \in Nat
    BY <1>1
  <2>2. QED
    BY <1>1, <2>1, UpdateFacts, Zenon
<1> HIDE DEF u
<1>3. Sound(u)
  BY <1>1, <1>2 DEF Sound
<1>4. /\ Live(u) \in Seq(Item) /\ Len(Live(u)) = Len(Live(q)) - n
      /\ \A i \in 1 .. Len(Live(u)) : Live(u)[i] = q.items[(q.head + n) + i]
  <2>1. /\ Live(u) \in Seq(Item) /\ Len(Live(u)) = Len(u.items) - u.head
        /\ \A i \in 1 .. Len(Live(u)) : Live(u)[i] = u.items[u.head + i]
    BY <1>3, LiveFacts, Zenon
  <2>2. Len(q.items) - (q.head + n) = Len(Live(q)) - n
    BY <1>1
  <2>3. QED
    BY <2>1, <2>2, <1>2, Zenon
<1>5. ASSUME NEW i \in 1 .. Len(Live(u)) PROVE Live(u)[i] = Live(q)[n + i]
  <2>1. n + i \in 1 .. Len(Live(q)) /\ (q.head + n) + i = q.head + (n + i)
    BY <1>1, <1>4
  <2>2. QED
    BY <2>1, <1>1, <1>4
<1>6. Live(u) = SubSeq(Live(q), n + 1, Len(Live(q)))
  BY <1>4, <1>5, SameLive
<1>7. QED
  BY <1>3, <1>6 DEF u

\* An item comes in at the end.
LEMMA AppendFacts ==
  ASSUME NEW q, Sound(q), NEW x \in Item
  PROVE  /\ Sound([q EXCEPT !.items = Append(@, x)])
         /\ Live([q EXCEPT !.items = Append(@, x)]) = Append(Live(q), x)
<1>1. /\ q \in Queue /\ q.head \in Nat /\ Len(q.items) \in Nat /\ q.head <= Len(q.items)
      /\ q.items \in Seq(Item)
      /\ Live(q) \in Seq(Item) /\ Len(Live(q)) = Len(q.items) - q.head
      /\ \A i \in 1 .. Len(Live(q)) : Live(q)[i] = q.items[q.head + i]
  BY LiveFacts DEF Sound, Queue
<1>2. /\ Append(q.items, x) \in Seq(Item) /\ Len(Append(q.items, x)) = Len(q.items) + 1
      /\ \A i \in 1 .. Len(q.items) : Append(q.items, x)[i] = q.items[i]
      /\ Append(q.items, x)[Len(q.items) + 1] = x
  BY <1>1, AppendProperties
<1> DEFINE u == [q EXCEPT !.items = Append(@, x)]
<1>3. u \in Queue /\ u.items = Append(q.items, x) /\ u.head = q.head
  BY <1>1, <1>2, UpdateFacts, Zenon
<1> HIDE DEF u
<1>4. Sound(u)
  BY <1>1, <1>2, <1>3 DEF Sound
<1>5. /\ Live(u) \in Seq(Item) /\ Len(Live(u)) = Len(Live(q)) + 1
      /\ \A i \in 1 .. Len(Live(u)) : Live(u)[i] = Append(q.items, x)[q.head + i]
  <2>1. /\ Live(u) \in Seq(Item) /\ Len(Live(u)) = Len(u.items) - u.head
        /\ \A i \in 1 .. Len(Live(u)) : Live(u)[i] = u.items[u.head + i]
    BY <1>4, LiveFacts, Zenon
  <2>2. QED
    BY <2>1, <1>1, <1>2, <1>3
<1>6. /\ Append(Live(q), x) \in Seq(Item) /\ Len(Append(Live(q), x)) = Len(Live(q)) + 1
      /\ \A i \in 1 .. Len(Live(q)) : Append(Live(q), x)[i] = Live(q)[i]
      /\ Append(Live(q), x)[Len(Live(q)) + 1] = x
  BY <1>1, AppendProperties
<1>7. ASSUME NEW i \in 1 .. Len(Live(u)) PROVE Live(u)[i] = Append(Live(q), x)[i]
  <2>1. CASE i \in 1 .. Len(Live(q))
    <3>1. q.head + i \in 1 .. Len(q.items)
      BY <2>1, <1>1
    <3>2. QED
      BY <3>1, <2>1, <1>1, <1>2, <1>5, <1>6
  <2>2. CASE i = Len(Live(q)) + 1
    <3>1. q.head + i = Len(q.items) + 1
      BY <2>2, <1>1
    <3>2. QED
      BY <3>1, <2>2, <1>2, <1>5, <1>6
  <2>3. Len(Live(q)) \in Nat
    BY <1>1
  <2>4. QED
    BY <2>1, <2>2, <2>3, <1>5
<1>8. QED
  BY <1>4, <1>5, <1>6, <1>7, SeqEqual DEF u

\* pruneLocked takes away the k oldest, which have expired, and stops at one that has not.
LEMMA PruneFacts ==
  ASSUME NEW q, Sound(q), NEW t \in Nat, retention \in Nat
  PROVE  /\ Sound(Prune(q, t))
         /\ \E k \in 0 .. Len(Live(q)) :
              /\ Live(Prune(q, t)) = SubSeq(Live(q), k + 1, Len(Live(q)))
              /\ \A i \in 1 .. k : Live(q)[i].at < t - retention
              /\ k < Len(Live(q)) => Live(q)[k + 1].at >= t - retention
<1> DEFINE kept == {i \in q.head + 1 .. Len(q.items) : q.items[i].at >= t - retention}
<1>1. /\ q \in Queue /\ q.head \in Nat /\ Len(q.items) \in Nat /\ q.head <= Len(q.items)
      /\ Live(q) \in Seq(Item) /\ Len(Live(q)) = Len(q.items) - q.head
      /\ \A i \in 1 .. Len(Live(q)) : Live(q)[i] = q.items[q.head + i]
  BY LiveFacts DEF Sound, Queue
<1>2. CASE q.head >= Len(q.items)
  <2>1. Prune(q, t) = Empty /\ Len(Live(q)) = 0
    BY <1>1, <1>2 DEF Prune
  <2>2. SubSeq(Live(q), 1, 0) = <<>> /\ 0 \in 0 .. 0
    BY SubSeqEmpty
  <2>3. Live(Prune(q, t)) = SubSeq(Live(q), 0 + 1, Len(Live(q)))
    BY <2>1, <2>2, EmptyFacts
  <2>4. QED
    BY <2>1, <2>2, <2>3, EmptyFacts
<1>3. ASSUME ~(q.head >= Len(q.items)) PROVE \E k \in 0 .. Len(Live(q)) :
        /\ Prune(q, t) = [q EXCEPT !.head = @ + k]
        /\ \A i \in 1 .. k : Live(q)[i].at < t - retention
        /\ k < Len(Live(q)) => Live(q)[k + 1].at >= t - retention
  <2>1. Prune(q, t) = [q EXCEPT !.head = IF kept = {} THEN Len(q.items)
                                 ELSE (CHOOSE i \in kept : \A j \in kept : i <= j) - 1]
    BY <1>3 DEF Prune
  <2>2. ASSUME NEW i \in 1 .. Len(Live(q))
        PROVE  Live(q)[i].at \in Nat /\ (q.head + i \in kept <=> Live(q)[i].at >= t - retention)
    <3>1. q.head + i \in q.head + 1 .. Len(q.items) /\ Live(q)[i] = q.items[q.head + i]
      BY <1>1
    <3>2. Live(q)[i] \in Item
      BY <1>1, ElementOfSeq
    <3>3. QED
      BY <3>1, <3>2 DEF Item
  <2>3. CASE kept = {}
    <3>1. Prune(q, t) = [q EXCEPT !.head = @ + Len(Live(q))]
      BY <1>1, <2>1, <2>3
    <3>2. \A i \in 1 .. Len(Live(q)) : Live(q)[i].at < t - retention
      <4> HIDE DEF kept
      <4>1. QED
        BY <2>2, <2>3
    <3>3. QED
      BY <1>1, <3>1, <3>2
  <2>4. CASE kept # {}
    <3> DEFINE f == CHOOSE i \in kept : \A j \in kept : i <= j
               k == f - 1 - q.head
    <3>1. kept \in SUBSET Nat
      BY <1>1
    <3>2. f \in kept /\ \A j \in kept : f <= j
      <4> HIDE DEF kept
      <4>1. QED
        BY <2>4, <3>1, Least
    <3>3. f \in q.head + 1 .. Len(q.items)
      BY <3>2
    <3>4. Prune(q, t) = [q EXCEPT !.head = f - 1]
      BY <2>1, <2>4
    <3> HIDE DEF f, kept
    <3>5. k \in Nat /\ k < Len(Live(q)) /\ q.head + k = f - 1 /\ q.head + (k + 1) = f
      BY <1>1, <3>3
    <3> HIDE DEF k
    <3>6. Prune(q, t) = [q EXCEPT !.head = @ + k]
      BY <3>4, <3>5
    <3>7. ASSUME NEW i \in 1 .. k PROVE Live(q)[i].at < t - retention
      <4>1. i \in 1 .. Len(Live(q)) /\ ~(f <= q.head + i)
        BY <1>1, <3>3, <3>5
      <4>2. q.head + i \notin kept
        BY <4>1, <3>2
      <4>3. QED
        BY <4>1, <4>2, <2>2
    <3>8. Live(q)[k + 1].at >= t - retention
      <4>1. k + 1 \in 1 .. Len(Live(q))
        BY <1>1, <3>5
      <4>2. QED
        BY <4>1, <3>2, <3>5, <2>2
    <3>9. k \in 0 .. Len(Live(q))
      BY <3>5, <1>1
    <3>10. QED
      BY <3>6, <3>7, <3>8, <3>9, Zenon
  <2>5. QED
    BY <2>3, <2>4
<1>4. CASE ~(q.head >= Len(q.items))
  <2>1. PICK k \in 0 .. Len(Live(q)) :
          /\ Prune(q, t) = [q EXCEPT !.head = @ + k]
          /\ \A i \in 1 .. k : Live(q)[i].at < t - retention
          /\ k < Len(Live(q)) => Live(q)[k + 1].at >= t - retention
    BY <1>3, <1>4
  <2>2. k \in Nat /\ k <= Len(Live(q))
    BY <1>1
  <2>3. Sound(Prune(q, t)) /\ Live(Prune(q, t)) = SubSeq(Live(q), k + 1, Len(Live(q)))
    BY <2>1, <2>2, ShiftFacts, Zenon
  <2>4. QED
    BY <2>1, <2>3
<1>5. QED
  BY <1>2, <1>4

(***************************************************************************)
(* What one call does to the slice.                                        *)
(***************************************************************************)
\* Enqueue: the k oldest, which have expired, go and x comes in.
LEMMA EnqueueFacts ==
  ASSUME NEW q, Sound(q), NEW t \in Nat, retention \in Nat, NEW x \in Item,
         NEW u, u = Compact([Prune(q, t) EXCEPT !.items = Append(@, x)])
  PROVE  /\ Sound(u)
         /\ \E k \in 0 .. Len(Live(q)) :
              /\ Live(u) = Append(SubSeq(Live(q), k + 1, Len(Live(q))), x)
              /\ \A i \in 1 .. k : Live(q)[i].at < t - retention
<1> DEFINE p == Prune(q, t)
           w == [p EXCEPT !.items = Append(@, x)]
<1>1. Sound(p)
  BY PruneFacts, Zenon
<1>2. PICK k \in 0 .. Len(Live(q)) :
        /\ Live(p) = SubSeq(Live(q), k + 1, Len(Live(q)))
        /\ \A i \in 1 .. k : Live(q)[i].at < t - retention
  BY PruneFacts, Zenon
<1>3. Sound(w) /\ Live(w) = Append(Live(p), x)
  BY <1>1, AppendFacts, Zenon
<1>4. u = Compact(w)
  BY Zenon
<1>5. Sound(u) /\ Live(u) = Live(w)
  BY <1>3, <1>4, CompactFacts, Zenon
<1>6. QED
  BY <1>2, <1>3, <1>5, Zenon

\* What PopOldest(n) takes of a pruned queue, and what it leaves.
Taken(p, n) == IF n > Len(Live(p)) THEN Len(Live(p)) ELSE n
Left(p, n) == IF Live(p) = <<>> THEN Empty ELSE Compact([p EXCEPT !.head = @ + Taken(p, n)])

\* PopOldest: the k oldest, which have expired, go and the next m are taken.
LEMMA PopFacts ==
  ASSUME NEW q, Sound(q), NEW t \in Nat, retention \in Nat, NEW n \in Nat
  PROVE  LET p == Prune(q, t)
             m == Taken(p, n)
             u == Left(p, n)
         IN  /\ Sound(u) /\ Sound(p) /\ m \in Nat /\ m <= Len(Live(p)) /\ Live(p) \in Seq(Item)
             /\ \E k \in 0 .. Len(Live(q)) :
                  /\ Len(Live(p)) = Len(Live(q)) - k
                  /\ \A i \in 1 .. Len(Live(p)) : Live(p)[i] = Live(q)[k + i]
                  /\ Live(u) = SubSeq(Live(q), k + m + 1, Len(Live(q)))
                  /\ \A i \in 1 .. k : Live(q)[i].at < t - retention
                  /\ k < Len(Live(q)) => Live(q)[k + 1].at >= t - retention
<1>a. PICK p : p = Prune(q, t)
  OBVIOUS
<1>b. PICK m : m = Taken(p, n)
  OBVIOUS
<1>c. PICK u : u = Left(p, n)
  OBVIOUS
<1>1. Sound(p)
  BY <1>a, PruneFacts, Zenon
<1>2. PICK k \in 0 .. Len(Live(q)) :
        /\ Live(p) = SubSeq(Live(q), k + 1, Len(Live(q)))
        /\ \A i \in 1 .. k : Live(q)[i].at < t - retention
        /\ k < Len(Live(q)) => Live(q)[k + 1].at >= t - retention
  BY <1>a, PruneFacts, Zenon
<1>3. /\ Live(q) \in Seq(Item) /\ Len(Live(q)) \in Nat
      /\ Live(p) \in Seq(Item) /\ Len(Live(p)) \in Nat
  BY <1>1, QueueFacts, LenProperties, Zenon
<1>4. m \in Nat /\ m <= Len(Live(p))
  BY <1>3, <1>b DEF Taken
<1>5. Len(Live(p)) = Len(Live(q)) - k /\ \A i \in 1 .. Len(Live(p)) : Live(p)[i] = Live(q)[k + i]
  <2>1. k \in Nat /\ k <= Len(Live(q))
    BY <1>3
  <2>2. /\ Len(SubSeq(Live(q), k + 1, Len(Live(q)))) = Len(Live(q)) - k
        /\ \A i \in 1 .. Len(Live(q)) - k : SubSeq(Live(q), k + 1, Len(Live(q)))[i] = Live(q)[k + i]
    BY <1>3, <2>1, TailFacts, Zenon
  <2>3. Len(Live(p)) = Len(Live(q)) - k
    BY <2>2, <1>2, Zenon
  <2>4. ASSUME NEW i \in 1 .. Len(Live(p)) PROVE Live(p)[i] = Live(q)[k + i]
    <3>1. i \in 1 .. Len(Live(q)) - k
      BY <2>3
    <3>2. QED
      BY <3>1, <2>2, <1>2, Zenon
  <2>5. QED
    BY <2>3, <2>4, Zenon
<1>6. Sound(u) /\ Live(u) = SubSeq(Live(p), m + 1, Len(Live(p)))
  <2>1. CASE Live(p) = <<>>
    <3>1. Len(Live(p)) = 0 /\ m = 0
      BY <2>1, <1>3, <1>4
    <3>2. SubSeq(Live(p), 1, 0) = <<>>
      BY SubSeqEmpty
    <3>3. QED
      BY <2>1, <3>1, <3>2, <1>c, EmptyFacts DEF Left
  <2>2. CASE Live(p) # <<>>
    <3> DEFINE w == [p EXCEPT !.head = @ + m]
    <3>1. Sound(w) /\ Live(w) = SubSeq(Live(p), m + 1, Len(Live(p)))
      BY <1>1, <1>4, ShiftFacts, Zenon
    <3>2. u = Compact(w)
      BY <2>2, <1>b, <1>c, Zenon DEF Left
    <3>3. QED
      BY <3>1, <3>2, CompactFacts, Zenon
  <2>3. QED
    BY <2>1, <2>2
<1>7. /\ Live(u) \in Seq(Item) /\ Len(Live(u)) = Len(Live(p)) - m
      /\ \A i \in 1 .. Len(Live(u)) : Live(u)[i] = Live(p)[m + i]
  <2>1. Live(u) \in Seq(Item)
    BY <1>6, QueueFacts, Zenon
  <2>2. /\ Len(SubSeq(Live(p), m + 1, Len(Live(p)))) = Len(Live(p)) - m
        /\ \A i \in 1 .. Len(Live(p)) - m : SubSeq(Live(p), m + 1, Len(Live(p)))[i] = Live(p)[m + i]
    BY <1>3, <1>4, TailFacts, Zenon
  <2>3. Len(Live(u)) = Len(Live(p)) - m
    BY <2>2, <1>6, Zenon
  <2>4. ASSUME NEW i \in 1 .. Len(Live(u)) PROVE Live(u)[i] = Live(p)[m + i]
    <3>1. i \in 1 .. Len(Live(p)) - m
      BY <2>3
    <3>2. QED
      BY <3>1, <2>2, <1>6, Zenon
  <2>5. QED
    BY <2>1, <2>3, <2>4, Zenon
<1>8. Live(u) = SubSeq(Live(q), k + m + 1, Len(Live(q)))
  <2>1. k + m \in Nat /\ k + m <= Len(Live(q)) /\ Len(Live(u)) = Len(Live(q)) - (k + m)
    BY <1>3, <1>4, <1>5, <1>7
  <2>2. ASSUME NEW i \in 1 .. Len(Live(u)) PROVE Live(u)[i] = Live(q)[(k + m) + i]
    <3>1. m + i \in 1 .. Len(Live(p)) /\ k + (m + i) = (k + m) + i
      BY <1>3, <1>4, <1>7
    <3>2. QED
      BY <3>1, <1>5, <1>7
  <2>3. Live(u) = SubSeq(Live(q), (k + m) + 1, Len(Live(q)))
    <3>1. Live(u) \in Seq(Item)
      BY <1>7
    <3>2. QED
      BY <2>1, <2>2, <3>1, SameLive, Zenon
  <2>4. QED
    BY <2>3, <1>4
<1>9. QED
  BY <1>1, <1>2, <1>3, <1>4, <1>5, <1>6, <1>8, <1>a, <1>b, <1>c, Zenon

(***************************************************************************)
(* The order of the slice: the single dispatcher reads the clock for one   *)
(* record after another, so numbers grow and times do not fall.  All of it *)
(* is below n and not later than t.                                        *)
(***************************************************************************)
Ordered(s, n, t) ==
  \A i \in 1 .. Len(s) :
    /\ s[i].id < n /\ s[i].at <= t
    /\ \A j \in 1 .. i - 1 : s[j].id < s[i].id /\ s[j].at <= s[i].at

LEMMA OrderedLonger ==
  ASSUME NEW s \in Seq(Item), NEW n \in Nat, NEW t \in Nat, Ordered(s, n, t),
         NEW t2 \in Nat, t <= t2, NEW n2 \in Nat, n <= n2
  PROVE  Ordered(s, n2, t2)
<1>1. \A i \in 1 .. Len(s) : s[i].id \in Nat /\ s[i].at \in Nat
  BY ItemFacts, Zenon
<1>2. ASSUME NEW i \in 1 .. Len(s) PROVE s[i].id < n2 /\ s[i].at <= t2
  <2>1. s[i].id < n /\ s[i].at <= t
    BY DEF Ordered
  <2>2. QED
    BY <1>1, <2>1
<1>3. QED
  BY <1>2 DEF Ordered

LEMMA OrderedEmpty == \A n, t : Ordered(<<>>, n, t)
<1>1. 1 .. Len(<<>>) = {}
  OBVIOUS
<1>2. QED
  BY <1>1, Zenon DEF Ordered

\* A compaction keeps a tail of the slice.
LEMMA OrderedTail ==
  ASSUME NEW q, Sound(q), NEW n \in Nat, NEW t \in Nat, Ordered(q.items, n, t)
  PROVE  Ordered(Live(q), n, t)
<1>1. /\ q.head \in Nat /\ Len(q.items) \in Nat
      /\ Len(Live(q)) = Len(q.items) - q.head
      /\ \A i \in 1 .. Len(Live(q)) : Live(q)[i] = q.items[q.head + i]
  BY QueueFacts, Zenon
<1>2. ASSUME NEW i \in 1 .. Len(Live(q))
      PROVE  /\ Live(q)[i].id < n /\ Live(q)[i].at <= t
             /\ \A j \in 1 .. i - 1 : Live(q)[j].id < Live(q)[i].id /\ Live(q)[j].at <= Live(q)[i].at
  <2>1. q.head + i \in 1 .. Len(q.items) /\ Live(q)[i] = q.items[q.head + i]
    BY <1>1
  <2>2. Live(q)[i].id < n /\ Live(q)[i].at <= t
    BY <2>1 DEF Ordered
  <2>3. ASSUME NEW j \in 1 .. i - 1
        PROVE  Live(q)[j].id < Live(q)[i].id /\ Live(q)[j].at <= Live(q)[i].at
    <3>1. q.head + j \in 1 .. (q.head + i) - 1 /\ j \in 1 .. Len(Live(q))
      BY <1>1
    <3>2. Live(q)[j] = q.items[q.head + j]
      BY <1>1, <3>1
    <3>3. QED
      BY <2>1, <3>1, <3>2 DEF Ordered
  <2>4. QED
    BY <2>2, <2>3
<1>3. QED
  BY <1>2 DEF Ordered

LEMMA OrderedCompact ==
  ASSUME NEW q, Sound(q), NEW n \in Nat, NEW t \in Nat, Ordered(q.items, n, t)
  PROVE  Ordered(Compact(q).items, n, t)
<1>1. q.head \in Nat /\ Len(q.items) \in Nat
  BY QueueFacts, Zenon
<1>2. CASE Compact(q) = q
  BY <1>2
<1>3. CASE Compact(q) = Empty
  BY <1>3, OrderedEmpty DEF Empty
<1>4. CASE Compact(q) = [items |-> Live(q), head |-> 0]
  BY <1>4, OrderedTail
<1>5. QED
  BY <1>1, <1>2, <1>3, <1>4 DEF Compact

\* pruneLocked moves the head; of the records it leaves alone it touches none.
LEMMA PruneItems ==
  ASSUME NEW q, Sound(q), NEW t
  PROVE  Prune(q, t).items = q.items \/ Prune(q, t) = Empty
<1>1. q = [items |-> q.items, head |-> q.head]
  BY DEF Sound, Queue
<1>2. ASSUME NEW h PROVE [q EXCEPT !.head = h].items = q.items
  BY <1>1
<1>3. QED
  BY <1>2, Zenon DEF Prune

LEMMA OrderedPrune ==
  ASSUME NEW q, Sound(q), NEW n \in Nat, NEW t \in Nat, Ordered(q.items, n, t), NEW at
  PROVE  Ordered(Prune(q, at).items, n, t)
<1>1. CASE Prune(q, at).items = q.items
  BY <1>1
<1>2. CASE Prune(q, at) = Empty
  BY <1>2, OrderedEmpty DEF Empty
<1>3. QED
  BY <1>1, <1>2, PruneItems, Zenon

LEMMA OrderedAppend ==
  ASSUME NEW s \in Seq(Item), NEW n \in Nat, NEW t \in Nat, Ordered(s, n, t),
         NEW x \in Item, x.id = n, x.at = t
  PROVE  Ordered(Append(s, x), n + 1, t)
<1>1. /\ Len(s) \in Nat /\ Append(s, x) \in Seq(Item) /\ Len(Append(s, x)) = Len(s) + 1
      /\ \A i \in 1 .. Len(s) : Append(s, x)[i] = s[i]
      /\ Append(s, x)[Len(s) + 1] = x
  BY AppendProperties
<1>2. \A i \in 1 .. Len(s) : s[i].id \in Nat /\ s[i].at \in Nat
  BY ItemFacts, Zenon
<1>3. ASSUME NEW i \in 1 .. Len(s) + 1
      PROVE  /\ Append(s, x)[i].id < n + 1 /\ Append(s, x)[i].at <= t
             /\ \A j \in 1 .. i - 1 : /\ Append(s, x)[j].id < Append(s, x)[i].id
                                      /\ Append(s, x)[j].at <= Append(s, x)[i].at
  <2>1. CASE i \in 1 .. Len(s)
    <3>1. Append(s, x)[i] = s[i] /\ \A j \in 1 .. i - 1 : j \in 1 .. Len(s) /\ Append(s, x)[j] = s[j]
      BY <1>1, <2>1
    <3>2. s[i].id < n /\ s[i].at <= t
      BY <2>1 DEF Ordered
    <3>3. \A j \in 1 .. i - 1 : s[j].id < s[i].id /\ s[j].at <= s[i].at
      BY <2>1 DEF Ordered
    <3>4. s[i].id < n + 1
      BY <1>2, <2>1, <3>2
    <3>5. QED
      BY <3>1, <3>2, <3>3, <3>4, Zenon
  <2>2. CASE i = Len(s) + 1
    <3>1. Append(s, x)[i] = x /\ i - 1 = Len(s)
      BY <1>1, <2>2
    <3>2. ASSUME NEW j \in 1 .. i - 1
          PROVE  Append(s, x)[j].id < x.id /\ Append(s, x)[j].at <= x.at
      <4>1. j \in 1 .. Len(s) /\ Append(s, x)[j] = s[j]
        BY <1>1, <3>1
      <4>2. s[j].id < n /\ s[j].at <= t
        BY <4>1 DEF Ordered
      <4>3. QED
        BY <4>1, <4>2
    <3>3. x.id < n + 1 /\ x.at <= t
      OBVIOUS
    <3>4. QED
      BY <3>1, <3>2, <3>3, Zenon
  <2>3. QED
    BY <1>1, <2>1, <2>2
<1>4. QED
  BY <1>1, <1>3 DEF Ordered

(***************************************************************************)
(* The inductive invariant.                                                *)
(***************************************************************************)
\* The latest time a record of the slice can bear.
Latest == IF producer.at = "lock" THEN producer.stamp ELSE now

Typed ==
  /\ Sound(Here) /\ out \in Seq(Records)
  /\ now \in Nat /\ next \in Nat /\ retention \in Windows
  /\ producer \in Call /\ popper \in [Poppers -> Call]

\* A call that is under way has read the clock before now, and its record is
\* the next one.
Stamped ==
  /\ producer.at # "idle" => next \in Records
  /\ producer.stamp <= now
  /\ \A p \in Poppers : popper[p].stamp <= now

RInv == Typed /\ Stamped /\ Ordered(items, next, Latest)

LEMMA RInvInit == Init => RInv
<1> SUFFICES ASSUME Init PROVE RInv
  OBVIOUS
<1>1. Here = Empty /\ items = <<>>
  BY DEF Init, Here, Empty
<1>2. Idle \in Call /\ Idle.stamp = 0 /\ Idle.at = "idle"
  BY DEF Idle, Call
<1>3. Typed
  <2>1. Sound(Here)
    BY <1>1, EmptyFacts, Zenon
  <2>2. QED
    BY <1>2, <2>1 DEF Init, Typed
<1>4. Stamped
  BY <1>2 DEF Init, Stamped
<1>5. QED
  BY <1>1, <1>3, <1>4, OrderedEmpty, Zenon DEF RInv

\* What Put writes is the queue of the next state.
LEMMA PutFacts ==
  ASSUME NEW u, Sound(u), Put(u)
  PROVE  Here' = u /\ items' = u.items /\ Sound(Here)' /\ Live(Here)' = Live(u)
<1>1. Here' = u /\ items' = u.items
  BY DEF Put, Here, Sound, Queue
<1>2. Sound(Here') /\ Live(Here') = Live(u)
  BY <1>1, Zenon
<1>3. QED
  BY <1>1, <1>2 DEF Sound, Live

\* A step that leaves the slice alone leaves what it keeps alone.
LEMMA SliceSame ==
  ASSUME items' = items, head' = head
  PROVE  Here' = Here /\ (Sound(Here) => Sound(Here)') /\ Live(Here)' = Live(Here)
<1>1. Here' = Here
  BY DEF Here
<1>2. QED
  BY <1>1 DEF Sound, Live

LEMMA StateFacts ==
  ASSUME RInv
  PROVE  /\ Sound(Here) /\ retention \in Nat /\ now \in Nat /\ next \in Nat
         /\ items \in Seq(Item) /\ Live(Here) \in Seq(Item) /\ Len(Live(Here)) \in Nat
         /\ producer.stamp \in Nat /\ producer.stamp <= now
         /\ \A p \in Poppers : popper[p] \in Call /\ popper[p].stamp \in Nat /\ popper[p].stamp <= now
         /\ Latest \in Nat /\ Latest <= now
<1>1. Sound(Here) /\ retention \in Nat
  BY RedisAssumption DEF RInv, Typed
<1>2. items \in Seq(Item) /\ Live(Here) \in Seq(Item) /\ Len(Live(Here)) \in Nat
  <2>1. Here.items = items
    BY DEF Here
  <2>2. QED
    BY <1>1, <2>1, QueueFacts, LenProperties, Zenon
<1>3. now \in Nat /\ next \in Nat /\ producer.stamp \in Nat /\ producer.stamp <= now
  BY DEF RInv, Typed, Stamped, Call
<1>4. \A p \in Poppers : popper[p] \in Call /\ popper[p].stamp \in Nat /\ popper[p].stamp <= now
  BY DEF RInv, Typed, Stamped, Call
<1>5. Latest \in Nat /\ Latest <= now
  BY <1>3 DEF Latest
<1>6. QED
  BY <1>1, <1>2, <1>3, <1>4, <1>5, Zenon

\* Every step writes the queue, or leaves it alone; a call that ends or starts
\* keeps its type.
LEMMA CallFacts ==
  ASSUME RInv
  PROVE  /\ Idle \in Call /\ Idle.stamp = 0 /\ Idle.at = "idle"
         /\ [at |-> "lock", stamp |-> now] \in Call
         /\ [Idle EXCEPT !.at = "clock"] = [at |-> "clock", stamp |-> 0]
         /\ [at |-> "clock", stamp |-> 0] \in Call
BY StateFacts DEF Idle, Call

(***************************************************************************)
(* Enqueue and Pop as steps of the state.                                  *)
(***************************************************************************)
LEMMA EnqueueStep ==
  ASSUME RInv, Enqueue
  PROVE  /\ Sound(Here)' /\ Ordered(items', next', now)
         /\ next \in Records /\ producer.stamp \in 0 .. now
         /\ \E k \in 0 .. Len(Live(Here)) :
              /\ Live(Here)' = Append(SubSeq(Live(Here), k + 1, Len(Live(Here))),
                                      [id |-> next, at |-> producer.stamp])
              /\ \A i \in 1 .. k : Live(Here)[i].at < now - retention
<1> DEFINE t == producer.stamp
           x == [id |-> next, at |-> t]
           q == Prune(Here, t)
           w == [q EXCEPT !.items = Append(@, x)]
           u == Compact(w)
<1>1. next \in Records /\ t \in Nat /\ t <= now /\ x \in Item /\ producer.at = "lock"
  BY StateFacts DEF RInv, Stamped, Enqueue, Item
<1>2. Put(u) /\ next' = next + 1
  BY Zenon DEF Enqueue
<1>3. /\ Sound(Here) /\ retention \in Nat /\ now \in Nat /\ next \in Nat
      /\ Live(Here) \in Seq(Item) /\ Len(Live(Here)) \in Nat
  BY StateFacts, Zenon
<1>4. PICK k \in 0 .. Len(Live(Here)) :
        /\ Live(u) = Append(SubSeq(Live(Here), k + 1, Len(Live(Here))), x)
        /\ \A i \in 1 .. k : Live(Here)[i].at < t - retention
  BY <1>1, <1>3, EnqueueFacts, Zenon
<1>5. Sound(u)
  BY <1>1, <1>3, EnqueueFacts, Zenon
<1>6. Live(Here)' = Live(u) /\ Sound(Here)' /\ items' = u.items
  BY <1>2, <1>5, PutFacts, Zenon
<1>7. ASSUME NEW i \in 1 .. k PROVE Live(Here)[i].at < now - retention
  <2>1. i \in 1 .. Len(Live(Here)) /\ Live(Here)[i].at < t - retention
    BY <1>3, <1>4
  <2>2. Live(Here)[i].at \in Nat
    BY <1>3, <2>1, ItemFacts, Zenon
  <2>3. QED
    BY <2>1, <2>2, <1>1, <1>3
<1>8. Ordered(items', next', now)
  <2>1. Ordered(Here.items, next, t)
    BY <1>1 DEF RInv, Latest, Here
  <2>2. Sound(q) /\ Ordered(q.items, next, t)
    BY <2>1, <1>1, <1>3, OrderedPrune, PruneFacts, Zenon
  <2>3. q \in Queue /\ q.items \in Seq(Item)
    BY <2>2, QueueFacts, Zenon
  <2>4. x.id = next /\ x.at = t
    OBVIOUS
  <2>5. Ordered(Append(q.items, x), next + 1, t)
    BY <1>1, <1>3, <2>2, <2>3, <2>4, OrderedAppend, Zenon
  <2>6. Append(q.items, x) \in Seq(Item)
    BY <1>1, <2>3, AppendProperties, Zenon
  <2>7. w.items = Append(q.items, x) /\ Sound(w)
    <3>1. w.items = Append(q.items, x)
      BY <1>3, <2>3, <2>6, UpdateFacts, Zenon
    <3>2. QED
      BY <3>1, <1>1, <2>2, AppendFacts, Zenon
  <2>8. next + 1 \in Nat /\ t <= now
    BY <1>1, <1>3
  <2>9. Ordered(u.items, next + 1, t)
    BY <1>1, <2>5, <2>7, <2>8, OrderedCompact, Zenon
  <2>10. u.items \in Seq(Item)
    BY <1>5, QueueFacts, Zenon
  <2>11. Ordered(u.items, next + 1, now)
    <3>1. next + 1 <= next + 1
      BY <2>8
    <3>2. QED
      BY <3>1, <1>1, <1>3, <2>8, <2>9, <2>10, OrderedLonger, Zenon
  <2>12. QED
    BY <2>11, <1>2, <1>6, Zenon
<1>9. t \in 0 .. now
  BY <1>1, <1>3
<1>10. QED
  BY <1>1, <1>4, <1>6, <1>7, <1>8, <1>9, Zenon

LEMMA PopStep ==
  ASSUME RInv, NEW p \in Poppers, NEW n \in Counts, Pop(p, n)
  PROVE  /\ Sound(Here)' /\ Ordered(items', next, Latest)
         /\ \E k \in 0 .. Len(Live(Here)), m \in Nat :
              /\ k + m <= Len(Live(Here))
              /\ Live(Here)' = SubSeq(Live(Here), k + m + 1, Len(Live(Here)))
              /\ out' = out \o [i \in 1 .. m |-> Live(Here)[k + i].id]
              /\ \A i \in 1 .. k : Live(Here)[i].at < now - retention
              /\ k < Len(Live(Here)) => Live(Here)[k + 1].at >= popper[p].stamp - retention
<1> DEFINE t == popper[p].stamp
           b == Popped(p, n)
<1>a. PICK q : q = Prune(Here, t)
  OBVIOUS
<1>b. PICK m : m = Taken(q, n)
  OBVIOUS
<1>c. PICK u : u = Left(q, n)
  OBVIOUS
<1> DEFINE w == [q EXCEPT !.head = @ + m]
<1>1. /\ Sound(Here) /\ retention \in Nat /\ now \in Nat /\ next \in Nat
      /\ Live(Here) \in Seq(Item) /\ Len(Live(Here)) \in Nat
      /\ t \in Nat /\ t <= now /\ Latest \in Nat
  BY StateFacts, Zenon
<1>2. n \in Nat
  BY RedisAssumption
<1>3. Sound(u) /\ Sound(q) /\ m \in Nat /\ m <= Len(Live(q)) /\ Live(q) \in Seq(Item)
  BY <1>1, <1>2, <1>a, <1>b, <1>c, PopFacts, Zenon
<1>4. PICK k \in 0 .. Len(Live(Here)) :
        /\ Len(Live(q)) = Len(Live(Here)) - k
        /\ \A i \in 1 .. Len(Live(q)) : Live(q)[i] = Live(Here)[k + i]
        /\ Live(u) = SubSeq(Live(Here), k + m + 1, Len(Live(Here)))
        /\ \A i \in 1 .. k : Live(Here)[i].at < t - retention
        /\ k < Len(Live(Here)) => Live(Here)[k + 1].at >= t - retention
  <2>1. LET v == Prune(Here, t)
        IN  \E k \in 0 .. Len(Live(Here)) :
              /\ Len(Live(v)) = Len(Live(Here)) - k
              /\ \A i \in 1 .. Len(Live(v)) : Live(v)[i] = Live(Here)[k + i]
              /\ Live(Left(v, n)) = SubSeq(Live(Here), k + Taken(v, n) + 1, Len(Live(Here)))
              /\ \A i \in 1 .. k : Live(Here)[i].at < t - retention
              /\ k < Len(Live(Here)) => Live(Here)[k + 1].at >= t - retention
    <3> HIDE DEF t
    <3>1. QED
      BY <1>1, <1>2, PopFacts, Zenon
  <2>2. QED
    BY <2>1, <1>a, <1>b, <1>c
<1>5. b = SubSeq(Live(q), 1, m) /\ Len(b) = m /\ \A i \in 1 .. m : b[i] = Live(q)[i]
  <2>1. b = SubSeq(Live(q), 1, m)
    BY <1>a, <1>b, Zenon DEF Popped, Taken
  <2>2. \A i \in 1 .. m : Live(q)[i] \in Item
    BY <1>3, ElementOfSeq
  <2> HIDE DEF b
  <2>3. /\ Len(SubSeq(Live(q), 1, m)) = IF 1 <= m THEN m - 1 + 1 ELSE 0
        /\ \A i \in 1 .. m - 1 + 1 : SubSeq(Live(q), 1, m)[i] = Live(q)[1 + i - 1]
    BY <1>3, <2>2, SubSeqProperties
  <2>4. m - 1 + 1 = m /\ \A i \in 1 .. m : 1 + i - 1 = i
    BY <1>3
  <2>5. Len(b) = m
    BY <2>1, <2>3, <1>3
  <2>6. ASSUME NEW i \in 1 .. m PROVE b[i] = Live(q)[i]
    BY <2>1, <2>3, <2>4, Zenon
  <2>7. QED
    BY <2>1, <2>5, <2>6, Zenon
<1>6. /\ Put(IF Live(q) = <<>> THEN Empty ELSE Compact([q EXCEPT !.head = @ + Len(b)]))
      /\ out' = out \o [i \in 1 .. Len(b) |-> b[i].id]
  BY <1>a, Zenon DEF Pop
<1>7. Put(u)
  BY <1>5, <1>6, <1>b, <1>c, Zenon DEF Left
<1>8. Live(Here)' = Live(u) /\ Sound(Here)' /\ items' = u.items
  BY <1>3, <1>7, PutFacts, Zenon
<1>9. out' = out \o [i \in 1 .. m |-> Live(Here)[k + i].id]
  <2>1. ASSUME NEW i \in 1 .. m PROVE b[i].id = Live(Here)[k + i].id
    <3>1. i \in 1 .. Len(Live(q))
      <4> HIDE DEF b
      <4>1. Len(Live(q)) \in Nat
        BY <1>3
      <4>2. QED
        BY <4>1, <1>3
    <3>2. QED
      BY <3>1, <1>4, <1>5, Zenon
  <2> HIDE DEF b
  <2>2. [i \in 1 .. m |-> b[i].id] = [i \in 1 .. m |-> Live(Here)[k + i].id]
    BY <2>1
  <2>3. QED
    BY <2>2, <1>5, <1>6
<1>10. ASSUME NEW i \in 1 .. k PROVE Live(Here)[i].at < now - retention
  <2> HIDE DEF b, t
  <2>1. i \in 1 .. Len(Live(Here)) /\ Live(Here)[i].at < t - retention
    BY <1>1, <1>4
  <2>2. Live(Here)[i].at \in Nat
    BY <1>1, <2>1, ItemFacts, Zenon
  <2>3. QED
    BY <2>1, <2>2, <1>1
<1>11. Ordered(items', next, Latest)
  <2>1. Ordered(Here.items, next, Latest)
    BY Zenon DEF RInv, Here
  <2>2. Ordered(q.items, next, Latest)
    BY <2>1, <1>1, <1>a, OrderedPrune, Zenon
  <2>3. CASE Live(q) = <<>>
    <3>1. u.items = <<>>
      BY <2>3, <1>c DEF Empty, Left
    <3>2. QED
      BY <3>1, <1>8, OrderedEmpty, Zenon
  <2>4. CASE Live(q) # <<>>
    <3>1. w.items = q.items
      <4>1. q \in Queue /\ q.head \in Nat /\ q.items \in Seq(Item)
        BY <1>3, QueueFacts, Zenon
      <4>2. q.head + m \in Nat
        BY <4>1, <1>3
      <4>3. QED
        BY <4>1, <4>2, UpdateFacts, Zenon
    <3>2. Sound(w)
      BY <1>3, ShiftFacts, Zenon
    <3>3. Ordered(Compact(w).items, next, Latest)
      BY <3>1, <3>2, <2>2, <1>1, OrderedCompact, Zenon
    <3>4. u = Compact(w)
      BY <2>4, <1>b, <1>c, Zenon DEF Left
    <3>5. QED
      BY <3>3, <3>4, <1>8, Zenon
  <2>5. QED
    BY <2>3, <2>4, Zenon
<1>12. k + m <= Len(Live(Here))
  BY <1>1, <1>3, <1>4
<1>13. QED
  BY <1>3, <1>4, <1>8, <1>9, <1>10, <1>11, <1>12, Zenon

LEMMA PopOut ==
  ASSUME RInv, NEW p \in Poppers, NEW n \in Counts, Pop(p, n)
  PROVE  out' \in Seq(Records)
<1>1. PICK k \in 0 .. Len(Live(Here)), m \in Nat :
        /\ k + m <= Len(Live(Here))
        /\ out' = out \o [i \in 1 .. m |-> Live(Here)[k + i].id]
  BY PopStep, Zenon
<1>2. Len(Live(Here)) \in Nat /\ Live(Here) \in Seq(Item) /\ out \in Seq(Records)
  BY StateFacts, Zenon DEF RInv, Typed
<1>3. ASSUME NEW i \in 1 .. m PROVE Live(Here)[k + i].id \in Records
  <2>1. k + i \in 1 .. Len(Live(Here))
    BY <1>1, <1>2
  <2>2. Live(Here)[k + i] \in Item
    BY <1>2, <2>1, ItemFacts, Zenon
  <2>3. QED
    BY <2>2 DEF Item
<1>4. [i \in 1 .. m |-> Live(Here)[k + i].id] \in Seq(Records)
  BY <1>3, <1>1
<1>5. QED
  BY <1>1, <1>2, <1>4, ConcatProperties, Zenon

(***************************************************************************)
(* Every step keeps the invariant.                                         *)
(***************************************************************************)
\* A step that leaves the slice alone.
LEMMA QuietStep ==
  ASSUME RInv, items' = items, head' = head, out' = out,
         now' \in Nat, now <= now', next' \in Nat, next <= next',
         retention' \in Windows, producer' \in Call, popper' \in [Poppers -> Call],
         producer'.at # "idle" => next' \in Records,
         producer'.stamp <= now', \A p \in Poppers : popper'[p].stamp <= now',
         Latest <= Latest', Latest' \in Nat
  PROVE  RInv'
<1>1. Sound(Here)'
  BY SliceSame, Zenon DEF RInv, Typed
<1>2. Typed'
  BY <1>1 DEF Typed, RInv
<1>3. Stamped'
  BY DEF Stamped
<1>4. Ordered(items, next', Latest')
  <2>1. Ordered(items, next, Latest)
    BY Zenon DEF RInv
  <2>2. QED
    BY <2>1, StateFacts, OrderedLonger, Zenon
<1>5. Ordered(items', next', Latest')
  BY <1>4, Zenon
<1>6. QED
  BY <1>2, <1>3, <1>5, Zenon DEF RInv

LEMMA RInvStep == RInv /\ [Next]_vars => RInv'
<1> SUFFICES ASSUME RInv, [Next]_vars PROVE RInv'
  OBVIOUS
<1>s. /\ Sound(Here) /\ retention \in Windows /\ now \in Nat /\ next \in Nat
      /\ producer \in Call /\ popper \in [Poppers -> Call] /\ out \in Seq(Records)
      /\ producer.stamp \in Nat /\ producer.stamp <= now
      /\ producer.at # "idle" => next \in Records
      /\ \A p \in Poppers : popper[p] \in Call /\ popper[p].stamp \in Nat /\ popper[p].stamp <= now
      /\ Latest \in Nat /\ Latest <= now
  <2>1. /\ Sound(Here) /\ retention \in Windows /\ popper \in [Poppers -> Call] /\ out \in Seq(Records)
        /\ producer \in Call /\ (producer.at # "idle" => next \in Records)
    BY Zenon DEF RInv, Typed, Stamped
  <2>2. QED
    BY <2>1, StateFacts, Zenon
<1>c. /\ Idle \in Call /\ Idle.stamp = 0 /\ Idle.at = "idle"
      /\ [at |-> "lock", stamp |-> now] \in Call
      /\ [Idle EXCEPT !.at = "clock"] = [at |-> "clock", stamp |-> 0]
      /\ [at |-> "clock", stamp |-> 0] \in Call
  BY CallFacts, Zenon
<1>n. \A x \in Nat : x <= x
  OBVIOUS
<1>1. CASE Tick
  <2>1. /\ now' = now + 1 /\ now' \in Nat /\ now <= now'
        /\ \A x \in Nat : x <= now => x <= now'
    BY <1>1, <1>s DEF Tick
  <2>2. UNCHANGED <<items, head, out, next, retention, producer, popper>>
    BY <1>1 DEF Tick
  <2>3. Latest' \in Nat /\ Latest <= Latest'
    BY <2>1, <2>2, <1>s DEF Latest
  <2>4. QED
    BY <2>1, <2>2, <2>3, <1>s, <1>n, QuietStep, Zenon
<1>2. ASSUME NEW statistics \in BOOLEAN, EnqueueCheck(statistics) PROVE RInv'
  <2>1. UNCHANGED <<items, head, out, now, retention, popper>> /\ next \in Records
    BY <1>2 DEF EnqueueCheck
  <2>2. CASE producer' = producer /\ next' = next + 1
    <3>1. producer.at = "idle"
      BY <1>2 DEF EnqueueCheck
    <3>2. next' \in Nat /\ next <= next'
      BY <2>2, <1>s
    <3>3. Latest' = Latest
      BY <2>1, <2>2 DEF Latest
    <3>4. QED
      BY <2>1, <2>2, <3>1, <3>2, <3>3, <1>s, <1>n, QuietStep, Zenon
  <2>3. CASE producer' = [Idle EXCEPT !.at = "clock"] /\ next' = next
    <3>1. producer' = [at |-> "clock", stamp |-> 0] /\ producer'.stamp = 0
      BY <2>3, <1>c
    <3>2. 0 <= now'
      BY <2>1, <1>s
    <3>3. Latest' = now
      BY <2>1, <3>1 DEF Latest
    <3>4. QED
      BY <2>1, <2>3, <3>1, <3>2, <3>3, <1>c, <1>s, <1>n, QuietStep, Zenon
  <2>4. QED
    BY <1>2, <2>2, <2>3, Zenon DEF EnqueueCheck
<1>3. CASE EnqueueClock
  <2>1. /\ UNCHANGED <<items, head, out, now, retention, popper, next>>
        /\ producer.at = "clock" /\ producer' = [at |-> "lock", stamp |-> now]
    BY <1>3 DEF EnqueueClock
  <2>2. producer.at # "idle" /\ producer'.stamp = now
    BY <2>1
  <2>3. Latest' = now
    BY <2>1 DEF Latest
  <2>4. QED
    BY <2>1, <2>2, <2>3, <1>c, <1>s, <1>n, QuietStep, Zenon
<1>4. CASE Enqueue
  <2>1. /\ UNCHANGED <<out, now, retention, popper>>
        /\ producer' = Idle /\ next' = next + 1
    BY <1>4, Zenon DEF Enqueue
  <2>2. Sound(Here)' /\ Ordered(items', next', now)
    BY <1>4, EnqueueStep, Zenon
  <2>3. next' \in Nat /\ producer'.stamp <= now' /\ producer'.at = "idle"
    BY <2>1, <1>c, <1>s
  <2>4. Typed'
    BY <2>1, <2>2, <2>3, <1>c, <1>s, Zenon DEF Typed
  <2>5. Stamped'
    BY <2>1, <2>3, <1>s, Zenon DEF Stamped
  <2>6. Latest' = now
    BY <2>1, <2>3 DEF Latest
  <2>7. QED
    BY <2>2, <2>4, <2>5, <2>6, Zenon DEF RInv
<1>5. ASSUME NEW p \in Poppers, PopCheck(p) \/ PopClock(p) PROVE RInv'
  <2>1. /\ UNCHANGED <<items, head, out, now, retention, next, producer>>
        /\ \/ popper' = [popper EXCEPT ![p].at = "clock"]
           \/ popper' = [popper EXCEPT ![p] = [at |-> "lock", stamp |-> now]]
    BY <1>5, Zenon DEF PopCheck, PopClock
  <2>2. popper' \in [Poppers -> Call] /\ \A r \in Poppers : popper'[r].stamp <= now
    <3>1. CASE popper' = [popper EXCEPT ![p].at = "clock"]
      BY <3>1, <1>s DEF Call
    <3>2. CASE popper' = [popper EXCEPT ![p] = [at |-> "lock", stamp |-> now]]
      BY <3>2, <1>s, <1>c
    <3>3. QED
      BY <2>1, <3>1, <3>2
  <2>3. Latest' = Latest
    BY <2>1 DEF Latest
  <2>4. QED
    BY <2>1, <2>2, <2>3, <1>s, <1>n, QuietStep, Zenon
<1>6. ASSUME NEW p \in Poppers, NEW n \in Counts, Pop(p, n) PROVE RInv'
  <2>1. /\ UNCHANGED <<retention, now, producer, next>>
        /\ popper' = [popper EXCEPT ![p] = Idle]
    BY <1>6, Zenon DEF Pop
  <2>2. popper' \in [Poppers -> Call] /\ \A r \in Poppers : popper'[r].stamp <= now'
    <3>1. popper' \in [Poppers -> Call]
      BY <2>1, <1>s, <1>c
    <3>2. ASSUME NEW r \in Poppers PROVE popper'[r].stamp <= now'
      BY <2>1, <1>s, <1>c
    <3>3. QED
      BY <3>1, <3>2
  <2>3. Sound(Here)' /\ Ordered(items', next, Latest) /\ out' \in Seq(Records)
    BY <1>6, PopStep, PopOut, Zenon
  <2>4. Latest' = Latest
    BY <2>1 DEF Latest
  <2>5. Typed' /\ Stamped'
    BY <2>1, <2>2, <2>3, <1>s, Zenon DEF Typed, Stamped
  <2>6. QED
    BY <2>1, <2>3, <2>4, <2>5, Zenon DEF RInv
<1>7. ASSUME NEW value \in BOOLEAN, SetEnabled(value) PROVE RInv'
  <2>1. UNCHANGED <<items, head, out, now, retention, next, producer, popper>>
    BY <1>7 DEF SetEnabled
  <2>2. Latest' = Latest
    BY <2>1 DEF Latest
  <2>3. QED
    BY <2>1, <2>2, <1>s, <1>n, QuietStep, Zenon
<1>8. CASE Clear
  <2>1. Put(Empty) /\ UNCHANGED <<retention, now, producer, popper, next, out>>
    BY <1>8, Zenon DEF Clear
  <2>2. Sound(Here)' /\ items' = <<>>
    BY <2>1, PutFacts, EmptyFacts DEF Empty
  <2>3. Latest' = Latest
    BY <2>1 DEF Latest
  <2>4. Ordered(items', next', Latest')
    BY <2>2, OrderedEmpty, Zenon
  <2>5. Typed' /\ Stamped'
    BY <2>1, <2>2, <1>s, Zenon DEF Typed, Stamped
  <2>6. QED
    BY <2>4, <2>5, Zenon DEF RInv
<1>9. ASSUME NEW v \in Windows, SetRetention(v) PROVE RInv'
  <2>1. UNCHANGED <<items, head, out, now, next, producer, popper>> /\ retention' = v
    BY <1>9 DEF SetRetention
  <2>2. Latest' = Latest
    BY <2>1 DEF Latest
  <2>3. QED
    BY <2>1, <2>2, <1>s, <1>n, QuietStep, <1>9, Zenon
<1>10. CASE UNCHANGED vars
  <2>1. UNCHANGED <<items, head, out, now, next, producer, popper, retention>>
    BY <1>10 DEF vars
  <2>2. Latest' = Latest
    BY <2>1 DEF Latest
  <2>3. QED
    BY <2>1, <2>2, <1>s, <1>n, QuietStep, Zenon
<1>11. QED
  BY <1>1, <1>2, <1>3, <1>4, <1>5, <1>6, <1>7, <1>8, <1>9, <1>10, Zenon DEF Next

LEMMA RInvAlways == Spec => []RInv
<1>1. Init => RInv
  BY RInvInit
<1>2. RInv /\ [Next]_vars => RInv'
  BY RInvStep
<1>3. QED
  BY <1>1, <1>2, PTL DEF Spec

(***************************************************************************)
(* The queue is the first-in first-out queue with expiry of UsageFifo.     *)
(***************************************************************************)
\* Every step is a step of the abstract queue, or leaves it alone.
LEMMA FifoStep == RInv /\ [Next]_vars => [Fifo!Next]_<<Live(Here), out>>
<1> SUFFICES ASSUME RInv, [Next]_vars
             PROVE  Fifo!Next \/ (Live(Here)' = Live(Here) /\ out' = out)
  BY Zenon
<1>s. /\ Live(Here) \in Seq(Item) /\ Len(Live(Here)) \in Nat
  BY StateFacts, Zenon
<1>1. CASE Enqueue
  <2>1. PICK k \in 0 .. Len(Live(Here)) :
          /\ Live(Here)' = Append(SubSeq(Live(Here), k + 1, Len(Live(Here))),
                                  [id |-> next, at |-> producer.stamp])
          /\ \A i \in 1 .. k : Live(Here)[i].at < now - retention
    BY <1>1, EnqueueStep, Zenon
  <2>2. next \in Records /\ producer.stamp \in 0 .. now
    BY <1>1, EnqueueStep, Zenon
  <2>3. out' = out
    BY <1>1, Zenon DEF Enqueue
  <2>4. Fifo!Accept(next, k)
    BY <2>1, <2>2, <2>3, Zenon DEF Fifo!Accept, Fifo!Expired, Fifo!From
  <2>5. QED
    BY <2>2, <2>4, Zenon DEF Fifo!Next
<1>2. ASSUME NEW p \in Poppers, NEW n \in Counts, Pop(p, n) PROVE Fifo!Next
  <2>1. PICK k \in 0 .. Len(Live(Here)), m \in Nat :
          /\ k + m <= Len(Live(Here))
          /\ Live(Here)' = SubSeq(Live(Here), k + m + 1, Len(Live(Here)))
          /\ out' = out \o [i \in 1 .. m |-> Live(Here)[k + i].id]
          /\ \A i \in 1 .. k : Live(Here)[i].at < now - retention
    BY <1>2, PopStep, Zenon
  <2>2. m \in 0 .. Len(Live(Here))
    BY <2>1, <1>s
  <2>3. Fifo!HandOut(m, k)
    BY <2>1, Zenon DEF Fifo!HandOut, Fifo!Expired, Fifo!From
  <2>4. QED
    BY <2>2, <2>3, Zenon DEF Fifo!Next
<1>3. CASE Clear
  <2>1. Put(Empty) /\ out' = out
    BY <1>3, Zenon DEF Clear
  <2>2. Live(Here)' = <<>>
    BY <2>1, PutFacts, EmptyFacts, Zenon
  <2>3. QED
    BY <2>1, <2>2, Zenon DEF Fifo!Next, Fifo!Wipe
<1>4. CASE items' = items /\ head' = head /\ out' = out
  BY <1>4, SliceSame, Zenon
<1>5. QED
  BY <1>1, <1>2, <1>3, <1>4, Zenon
     DEF Next, Tick, EnqueueCheck, EnqueueClock, PopCheck, PopClock, SetEnabled, SetRetention, vars

\* Whatever the races of poppers, reloads and compactions, records leave the
\* queue from the front, each at most once, and none before it has expired
\* unless it is handed out or the queue is switched off (Enqueue, PopOldest,
\* pruneLocked, maybeCompactLocked and SetEnabled of internal/redisqueue).
THEOREM RefinesFifo == Spec => IsFifo
<1>1. Init => Fifo!Init
  <2>1. Init => Here = Empty
    BY DEF Init, Here, Empty
  <2>2. Init => Live(Here) = <<>>
    BY <2>1, EmptyFacts, Zenon
  <2>3. QED
    BY <2>2 DEF Init, Fifo!Init
<1>2. RInv /\ [Next]_vars => [Fifo!Next]_<<Live(Here), out>>
  BY FifoStep
<1>3. QED
  BY <1>1, <1>2, RInvAlways, PTL DEF Spec, IsFifo, Fifo!Spec

(***************************************************************************)
(* A queue that was switched off.                                          *)
(***************************************************************************)
LEMMA LeftStep == RInv /\ AtMostOneLeft /\ [Next]_vars => AtMostOneLeft'
<1> SUFFICES ASSUME RInv, AtMostOneLeft, [Next]_vars, ~enabled', ~clearing'
             PROVE  Len(Live(Here)') + (IF producer'.at = "idle" THEN 0 ELSE 1) <= 1
  BY Zenon DEF AtMostOneLeft
<1>s. Sound(Here) /\ Live(Here) \in Seq(Item) /\ Len(Live(Here)) \in Nat
  BY StateFacts, Zenon
<1>1. CASE Clear
  <2>1. Put(Empty)
    BY <1>1, Zenon DEF Clear
  <2>2. Live(Here)' = <<>>
    BY <2>1, PutFacts, EmptyFacts, Zenon
  <2>3. QED
    BY <2>2
<1>2. CASE ~enabled /\ ~clearing /\ producer' = producer /\ Live(Here)' = Live(Here)
  BY <1>2 DEF AtMostOneLeft
<1>3. CASE Enqueue
  <2>1. producer.at = "lock" /\ producer' = Idle /\ ~enabled /\ ~clearing
    BY <1>3, Zenon DEF Enqueue
  <2>2. Len(Live(Here)) = 0
    BY <2>1, <1>s DEF AtMostOneLeft
  <2>3. PICK k \in 0 .. Len(Live(Here)) :
          Live(Here)' = Append(SubSeq(Live(Here), k + 1, Len(Live(Here))),
                               [id |-> next, at |-> producer.stamp])
    BY <1>3, EnqueueStep, Zenon
  <2>4. k = 0 /\ Live(Here) = <<>>
    BY <2>2, <1>s, EmptySeq
  <2>5. Live(Here)' = Append(<<>>, [id |-> next, at |-> producer.stamp])
    <3>1. SubSeq(Live(Here), 1, 0) = <<>>
      BY SubSeqEmpty
    <3>2. SubSeq(Live(Here), k + 1, Len(Live(Here))) = <<>>
      BY <3>1, <2>2, <2>4
    <3>3. QED
      BY <3>2, <2>3, Zenon
  <2>6. Len(Live(Here)') = 1
    BY <2>5
  <2>7. producer'.at = "idle"
    BY <2>1, CallFacts, Zenon
  <2>8. QED
    BY <2>6, <2>7
<1>4. ASSUME NEW p \in Poppers, NEW n \in Counts, Pop(p, n)
      PROVE  Len(Live(Here)') + (IF producer'.at = "idle" THEN 0 ELSE 1) <= 1
  <2>1. producer' = producer /\ ~enabled /\ ~clearing
    BY <1>4, Zenon DEF Pop
  <2>2. PICK k \in 0 .. Len(Live(Here)), m \in Nat :
          /\ k + m <= Len(Live(Here))
          /\ Live(Here)' = SubSeq(Live(Here), k + m + 1, Len(Live(Here)))
    BY <1>4, PopStep, Zenon
  <2>3. (k + m) + 1 = k + m + 1 /\ k + m \in Nat
    BY <1>s
  <2>4. Len(Live(Here)') = Len(Live(Here)) - (k + m)
    BY <2>2, <2>3, <1>s, TailFacts, Zenon
  <2>5. QED
    BY <2>1, <2>3, <2>4, <1>s DEF AtMostOneLeft
<1>5. CASE EnqueueClock
  <2>1. ~enabled /\ ~clearing /\ producer.at = "clock" /\ producer'.at = "lock" /\ Live(Here)' = Live(Here)
    <3>1. items' = items /\ head' = head /\ ~enabled /\ ~clearing
      BY <1>5 DEF EnqueueClock
    <3>2. producer.at = "clock" /\ producer'.at = "lock"
      BY <1>5 DEF EnqueueClock
    <3>3. QED
      BY <3>1, <3>2, SliceSame, Zenon
  <2>2. QED
    BY <2>1, <1>s DEF AtMostOneLeft
<1>6. CASE /\ ~enabled /\ ~clearing /\ producer' = producer
           /\ items' = items /\ head' = head
  BY <1>6, <1>2, SliceSame, Zenon
<1>7. CASE \E statistics \in BOOLEAN : EnqueueCheck(statistics)
  <2>1. PICK statistics \in BOOLEAN : EnqueueCheck(statistics)
    BY <1>7, Zenon
  <2>2. UNCHANGED <<items, head, enabled, clearing>>
    BY <2>1, Zenon DEF EnqueueCheck
  <2>3. ~enabled /\ ~clearing
    BY <2>2
  <2>4. producer' = producer
    BY <2>1, <2>3, Zenon DEF EnqueueCheck
  <2>5. QED
    BY <2>2, <2>3, <2>4, <1>6, Zenon
<1>8. ASSUME NEW value \in BOOLEAN, SetEnabled(value) PROVE FALSE
  <2>1. enabled' = value /\ clearing' = ~value
    BY <1>8, Zenon DEF SetEnabled
  <2>2. CASE value = TRUE
    BY <2>1, <2>2
  <2>3. CASE value = FALSE
    BY <2>1, <2>3
  <2>4. QED
    BY <2>2, <2>3
<1>9. CASE \/ Tick \/ (\E p \in Poppers : PopCheck(p) \/ PopClock(p))
           \/ (\E w \in Windows : SetRetention(w)) \/ UNCHANGED vars
  <2>1. UNCHANGED <<enabled, clearing, producer, items, head>>
    BY <1>9 DEF Tick, PopCheck, PopClock, SetRetention, vars
  <2>2. QED
    BY <2>1, <1>6
<1>10. QED
  BY <1>1, <1>3, <1>4, <1>5, <1>7, <1>8, <1>9, Zenon DEF Next

\* A queue that was switched off keeps nothing of what was in it; at most the
\* one record whose Enqueue had read the flag before comes after (SetEnabled and
\* Enqueue of internal/redisqueue/queue.go).
THEOREM LeftAlways == Spec => []AtMostOneLeft
<1>1. Init => AtMostOneLeft
  <2>1. Init => Here = Empty /\ producer = Idle
    BY DEF Init, Here, Empty
  <2>2. Init => Live(Here) = <<>> /\ producer.at = "idle"
    BY <2>1, EmptyFacts DEF Idle
  <2>3. QED
    BY <2>2 DEF AtMostOneLeft
<1>2. RInv /\ AtMostOneLeft /\ [Next]_vars => AtMostOneLeft'
  BY LeftStep
<1>3. QED
  BY <1>1, <1>2, RInvAlways, PTL DEF Spec

(***************************************************************************)
(* What PopOldest hands out is fresh.                                      *)
(***************************************************************************)
LEMMA FreshPop ==
  ASSUME RInv, NEW p \in Poppers, NEW n \in Counts, Pop(p, n),
         NEW i \in Len(out) + 1 .. Len(out'), NEW j \in 1 .. Len(items), items[j].id = out'[i]
  PROVE  items[j].at >= popper[p].stamp - retention
<1>1. PICK k \in 0 .. Len(Live(Here)), m \in Nat :
        /\ k + m <= Len(Live(Here))
        /\ out' = out \o [h \in 1 .. m |-> Live(Here)[k + h].id]
        /\ k < Len(Live(Here)) => Live(Here)[k + 1].at >= popper[p].stamp - retention
  BY PopStep, Zenon
<1> DEFINE b == [h \in 1 .. m |-> Live(Here)[k + h].id]
<1>2. /\ Sound(Here) /\ items \in Seq(Item) /\ Live(Here) \in Seq(Item)
      /\ Len(Live(Here)) \in Nat /\ retention \in Nat /\ popper[p].stamp \in Nat
      /\ out \in Seq(Records)
  BY StateFacts, Zenon DEF RInv, Typed
<1>3. /\ head \in Nat /\ Len(items) \in Nat /\ Len(Live(Here)) = Len(items) - head
      /\ \A h \in 1 .. Len(Live(Here)) : Live(Here)[h] = items[head + h]
  <2>1. Here.items = items /\ Here.head = head
    BY DEF Here
  <2>2. /\ Here.head \in Nat /\ Len(Here.items) \in Nat /\ Len(Live(Here)) = Len(Here.items) - Here.head
        /\ \A h \in 1 .. Len(Live(Here)) : Live(Here)[h] = Here.items[Here.head + h]
    BY <1>2, QueueFacts, Zenon
  <2>3. QED
    BY <2>1, <2>2
<1>4. /\ Len(out) \in Nat /\ Len(b) = m
      /\ Len(out') = Len(out) + m
      /\ \A h \in 1 .. m : out'[Len(out) + h] = b[h]
  <2>1. ASSUME NEW h \in 1 .. m PROVE Live(Here)[k + h].id \in Records
    <3>1. k + h \in 1 .. Len(Live(Here))
      BY <1>1, <1>2
    <3>2. Live(Here)[k + h] \in Item
      BY <1>2, <3>1, ItemFacts, Zenon
    <3>3. QED
      BY <3>2 DEF Item
  <2>2. b \in Seq(Records) /\ Len(b) = m
    BY <2>1, <1>1
  <2> HIDE DEF b
  <2>3. /\ Len(out \o b) = Len(out) + Len(b)
        /\ \A h \in 1 .. Len(out) + Len(b) :
             (out \o b)[h] = IF h <= Len(out) THEN out[h] ELSE b[h - Len(out)]
    BY <1>2, <2>2, ConcatProperties
  <2>4. out' = out \o b /\ Len(out) \in Nat
    BY <1>1, <1>2 DEF b
  <2>5. ASSUME NEW h \in 1 .. m PROVE out'[Len(out) + h] = b[h]
    <3>1. /\ Len(out) + h \in 1 .. Len(out) + Len(b) /\ ~(Len(out) + h <= Len(out))
          /\ (Len(out) + h) - Len(out) = h
      BY <2>2, <2>4, <1>1
    <3>2. QED
      BY <3>1, <2>3, <2>4, Zenon
  <2>6. QED
    BY <2>2, <2>3, <2>4, <2>5
<1>5. PICK h \in 1 .. m : i = Len(out) + h
  <2>1. i - Len(out) \in 1 .. m /\ i = Len(out) + (i - Len(out))
    BY <1>4, <1>1
  <2>2. QED
    BY <2>1
<1>6. /\ k + h \in 1 .. Len(Live(Here)) /\ k + 1 \in 1 .. Len(Live(Here)) /\ k < Len(Live(Here))
      /\ head + (k + h) \in 1 .. Len(items) /\ head + (k + 1) \in 1 .. Len(items)
      /\ head + (k + 1) <= head + (k + h)
  BY <1>1, <1>2, <1>3
<1>7. out'[i] = items[head + (k + h)].id /\ Live(Here)[k + 1] = items[head + (k + 1)]
  <2>1. out'[i] = Live(Here)[k + h].id
    BY <1>4, <1>5
  <2>2. QED
    BY <2>1, <1>3, <1>6
<1> HIDE DEF b
<1>8. \A a \in 1 .. Len(items) : items[a].id \in Nat /\ items[a].at \in Nat
  BY <1>2, ItemFacts, Zenon
<1>9. \A a, c \in 1 .. Len(items) : a < c => items[a].id < items[c].id /\ items[a].at <= items[c].at
  <2>1. ASSUME NEW a \in 1 .. Len(items), NEW c \in 1 .. Len(items), a < c
        PROVE  items[a].id < items[c].id /\ items[a].at <= items[c].at
    <3>1. a \in 1 .. c - 1
      BY <2>1
    <3>2. QED
      BY <3>1 DEF RInv, Ordered
  <2>2. QED
    BY <2>1
<1>10. j = head + (k + h)
  <2> DEFINE e == head + (k + h)
  <2>1. e \in 1 .. Len(items) /\ items[j].id = items[e].id
    BY <1>6, <1>7
  <2> HIDE DEF e
  <2>2. ~(j < e)
    BY <2>1, <1>8, <1>9
  <2>3. ~(e < j)
    BY <2>1, <1>8, <1>9
  <2>4. j = e
    BY <2>1, <2>2, <2>3, <1>3
  <2>5. QED
    BY <2>4 DEF e
<1>11. items[head + (k + 1)].at <= items[j].at
  <2> DEFINE c == head + (k + 1)
  <2>1. c \in 1 .. Len(items) /\ c <= j
    BY <1>6, <1>10
  <2> HIDE DEF c
  <2>2. CASE c = j
    <3>1. items[j].at \in Nat
      BY <1>8
    <3>2. QED
      BY <2>2, <3>1 DEF c
  <2>3. CASE c < j
    BY <2>1, <2>3, <1>9 DEF c
  <2>4. QED
    BY <2>1, <2>2, <2>3, <1>3
<1>12. items[head + (k + 1)].at >= popper[p].stamp - retention
  BY <1>1, <1>6, <1>7
<1>13. QED
  <2> DEFINE c == head + (k + 1)
  <2>1. items[c].at \in Nat /\ items[j].at \in Nat /\ items[c].at <= items[j].at
    BY <1>6, <1>8, <1>11
  <2>2. items[c].at >= popper[p].stamp - retention
    BY <1>12
  <2> HIDE DEF c
  <2>3. QED
    BY <2>1, <2>2, <1>2

\* No call of PopOldest hands out a record that had expired when it read the
\* clock (PopOldest and pruneLocked of internal/redisqueue/queue.go).
THEOREM PoppedIsFresh == Spec => PopFresh
<1> DEFINE Fresh ==
      \A p \in Poppers : popper[p].at = "lock" /\ popper'[p].at = "idle" =>
        \A i \in Len(out) + 1 .. Len(out') : \A j \in 1 .. Len(items) :
          items[j].id = out'[i] => items[j].at >= popper[p].stamp - retention
<1>1. RInv /\ [Next]_vars => [Fresh]_vars
  <2> SUFFICES ASSUME RInv, Next, NEW p \in Poppers, popper[p].at = "lock", popper'[p].at = "idle",
                      NEW i \in Len(out) + 1 .. Len(out'), NEW j \in 1 .. Len(items), items[j].id = out'[i]
               PROVE  items[j].at >= popper[p].stamp - retention
    BY Zenon
  <2>t. popper \in [Poppers -> Call]
    BY Zenon DEF RInv, Typed
  <2>1. ASSUME NEW r \in Poppers, NEW n \in Counts, Pop(r, n)
        PROVE  items[j].at >= popper[p].stamp - retention
    <3>1. popper' = [popper EXCEPT ![r] = Idle]
      BY <2>1, Zenon DEF Pop
    <3>2. r = p
      BY <3>1, <2>t
    <3>3. QED
      BY <2>1, <3>2, FreshPop, Zenon
  <2>2. ASSUME NEW r \in Poppers, PopCheck(r) \/ PopClock(r) PROVE FALSE
    <3>1. \/ popper' = [popper EXCEPT ![r].at = "clock"]
          \/ popper' = [popper EXCEPT ![r] = [at |-> "lock", stamp |-> now]]
      BY <2>2, Zenon DEF PopCheck, PopClock
    <3>2. CASE popper' = [popper EXCEPT ![r].at = "clock"]
      BY <3>2, <2>t DEF Call
    <3>3. CASE popper' = [popper EXCEPT ![r] = [at |-> "lock", stamp |-> now]]
      BY <3>3, <2>t
    <3>4. QED
      BY <3>1, <3>2, <3>3
  <2>3. ASSUME popper' = popper PROVE FALSE
    BY <2>3
  <2>4. QED
    BY <2>1, <2>2, <2>3, Zenon
       DEF Next, Tick, EnqueueCheck, EnqueueClock, Enqueue, SetEnabled, Clear, SetRetention
<1>2. QED
  BY <1>1, RInvAlways, PTL DEF Spec, PopFresh

(***************************************************************************)
(* The manager, from which the records come.                               *)
(***************************************************************************)
Hand == [at : {"ready", "waiting", "snapshot", "invoke", "exited"},
         item : Published \cup {NoItem}, todo : Seq(Plugins)]

\* A list of plugins names each once.
Once(s) == \A i, j \in DOMAIN s : s[i] = s[j] => i = j
Among(s) == {s[i] : i \in DOMAIN s}

MTyped ==
  /\ queue \in Seq(Published) /\ accepted \in Seq(Published) /\ closed \in BOOLEAN
  /\ plugins \in Seq(Plugins) /\ Once(plugins) /\ dispatcher \in Hand
  /\ since \in [Plugins -> Nat] /\ got \in [Plugins -> Seq(Published)]
  /\ stopper = "idle" => ~closed

\* What is queued are the last records accepted; the one before them is in the
\* dispatcher's hands, if it has one.
QueueIsLast ==
  /\ Len(queue) + InHand <= Len(accepted)
  /\ \A k \in 1 .. Len(queue) : queue[k] = accepted[Handed + InHand + k]
  /\ dispatcher.at \in {"snapshot", "invoke"} => dispatcher.item = accepted[Handed + 1]

\* How many records a plugin was called with, or registered too late for.
Reached(p) ==
  IF dispatcher.at = "invoke" /\ p \notin Among(dispatcher.todo) THEN Handed + 1
  ELSE Handed

\* Those still to be called are registered; a registered plugin got everything
\* from its registration on, and one that is not got nothing.
Called ==
  /\ Once(dispatcher.todo) /\ Among(dispatcher.todo) \subseteq Among(plugins)
  /\ \A p \in Among(plugins) :
       /\ Len(got[p]) + since[p] = Reached(p)
       /\ \A k \in 1 .. Len(got[p]) : got[p][k] = accepted[since[p] + k]
  /\ \A p \in Plugins \ Among(plugins) : got[p] = <<>>

MInv == MTyped /\ QueueIsLast /\ Called

LEMMA HandedFacts ==
  ASSUME MTyped, QueueIsLast
  PROVE  /\ InHand \in {0, 1} /\ Handed \in Nat
         /\ Handed + InHand + Len(queue) = Len(accepted)
         /\ InHand = 1 <=> dispatcher.at \in {"snapshot", "invoke"}
         /\ Len(queue) \in Nat /\ Len(accepted) \in Nat
<1>1. InHand \in {0, 1} /\ (InHand = 1 <=> dispatcher.at \in {"snapshot", "invoke"})
  BY DEF InHand
<1>2. Len(queue) \in Nat /\ Len(accepted) \in Nat
  BY DEF MTyped
<1>3. Len(queue) + InHand <= Len(accepted)
  BY DEF QueueIsLast
<1>4. QED
  BY <1>1, <1>2, <1>3 DEF Handed

LEMMA EmptyList ==
  ASSUME NEW S
  PROVE  <<>> \in Seq(S) /\ Len(<<>>) = 0 /\ Once(<<>>) /\ Among(<<>>) = {}
BY DEF Once, Among

\* What is left when the first of a list is taken.
LEMMA FirstFacts ==
  ASSUME NEW S, NEW s \in Seq(S), s # <<>>
  PROVE  /\ Tail(s) \in Seq(S) /\ Len(Tail(s)) = Len(s) - 1 /\ Len(s) \in Nat \ {0}
         /\ Head(s) \in S /\ Head(s) = s[1] /\ Head(s) \in Among(s)
         /\ \A k \in 1 .. Len(s) - 1 : Tail(s)[k] = s[k + 1]
         /\ Among(Tail(s)) \subseteq Among(s)
         /\ Among(s) \subseteq Among(Tail(s)) \cup {Head(s)}
         /\ Once(s) => Once(Tail(s)) /\ Head(s) \notin Among(Tail(s))
<1>1. /\ Tail(s) \in Seq(S) /\ Len(Tail(s)) = Len(s) - 1 /\ Len(s) \in Nat \ {0}
      /\ Head(s) \in S /\ Head(s) = s[1]
      /\ DOMAIN s = 1 .. Len(s) /\ DOMAIN Tail(s) = 1 .. Len(s) - 1
      /\ \A k \in 1 .. Len(s) - 1 : Tail(s)[k] = s[k + 1]
  OBVIOUS
<1>2. \A k \in DOMAIN s : k = 1 \/ (k - 1 \in DOMAIN Tail(s) /\ s[k] = Tail(s)[k - 1])
  <2>1. ASSUME NEW k \in DOMAIN s, k # 1 PROVE k - 1 \in 1 .. Len(s) - 1 /\ (k - 1) + 1 = k
    BY <1>1, <2>1
  <2>2. QED
    BY <1>1, <2>1
<1>3. Among(s) \subseteq Among(Tail(s)) \cup {Head(s)}
  <2>1. ASSUME NEW k \in DOMAIN s PROVE s[k] \in Among(Tail(s)) \cup {Head(s)}
    <3>1. CASE k = 1
      BY <3>1, <1>1
    <3>2. CASE k - 1 \in DOMAIN Tail(s) /\ s[k] = Tail(s)[k - 1]
      BY <3>2 DEF Among
    <3>3. QED
      BY <3>1, <3>2, <1>2
  <2>2. QED
    BY <2>1 DEF Among
<1>4. \A k \in DOMAIN Tail(s) : k + 1 \in DOMAIN s /\ Tail(s)[k] = s[k + 1] /\ k + 1 # 1 /\ k \in Int
  BY <1>1
<1>5. Among(Tail(s)) \subseteq Among(s) /\ Head(s) \in Among(s)
  BY <1>1, <1>4 DEF Among
<1>6. ASSUME Once(s) PROVE Once(Tail(s)) /\ Head(s) \notin Among(Tail(s))
  BY <1>1, <1>4, <1>6 DEF Once, Among
<1>7. QED
  BY <1>1, <1>3, <1>5, <1>6

\* What a list holds when one more comes in at the end.
LEMMA LastFacts ==
  ASSUME NEW S, NEW s \in Seq(S), NEW e \in S
  PROVE  /\ Append(s, e) \in Seq(S) /\ Len(Append(s, e)) = Len(s) + 1 /\ Len(s) \in Nat
         /\ \A k \in 1 .. Len(s) : Append(s, e)[k] = s[k]
         /\ Append(s, e)[Len(s) + 1] = e
         /\ Among(Append(s, e)) = Among(s) \cup {e}
         /\ Once(s) /\ e \notin Among(s) => Once(Append(s, e))
<1>1. /\ Append(s, e) \in Seq(S) /\ Len(Append(s, e)) = Len(s) + 1 /\ Len(s) \in Nat
      /\ \A k \in 1 .. Len(s) : Append(s, e)[k] = s[k]
      /\ Append(s, e)[Len(s) + 1] = e
      /\ DOMAIN s = 1 .. Len(s) /\ DOMAIN Append(s, e) = 1 .. Len(s) + 1
  OBVIOUS
<1>2. DOMAIN Append(s, e) = DOMAIN s \cup {Len(s) + 1}
  BY <1>1
<1>3. Among(Append(s, e)) = Among(s) \cup {e}
  BY <1>1, <1>2 DEF Among
<1>4. ASSUME Once(s), e \notin Among(s) PROVE Once(Append(s, e))
  BY <1>1, <1>2, <1>4 DEF Once, Among
<1>5. QED
  BY <1>1, <1>3, <1>4

\* A list of equal elements is that segment.
LEMMA SegmentFacts ==
  ASSUME NEW S, NEW l \in Seq(S), NEW g \in Seq(S), NEW s \in Nat, NEW u \in Nat, u <= Len(l),
         Len(g) + s = u, \A k \in 1 .. Len(g) : g[k] = l[s + k]
  PROVE  g = SubSeq(l, s + 1, u)
<1>1. Len(g) \in Nat /\ Len(l) \in Nat /\ \A i \in s + 1 .. u : l[i] \in S
  BY ElementOfSeq
<1>2. /\ SubSeq(l, s + 1, u) \in Seq(S)
      /\ Len(SubSeq(l, s + 1, u)) = IF s + 1 <= u THEN u - (s + 1) + 1 ELSE 0
      /\ \A i \in 1 .. u - (s + 1) + 1 : SubSeq(l, s + 1, u)[i] = l[(s + 1) + i - 1]
  BY <1>1, SubSeqProperties
<1>3. Len(g) = Len(SubSeq(l, s + 1, u))
  BY <1>1, <1>2
<1>4. ASSUME NEW k \in 1 .. Len(g) PROVE g[k] = SubSeq(l, s + 1, u)[k]
  <2>1. k \in 1 .. u - (s + 1) + 1 /\ (s + 1) + k - 1 = s + k
    BY <1>1
  <2>2. QED
    BY <2>1, <1>2
<1>5. QED
  BY <1>2, <1>3, <1>4, SeqEqual

LEMMA MInit == ManagerInit => MInv
<1> SUFFICES ASSUME ManagerInit PROVE MInv
  OBVIOUS
<1>1. /\ queue = <<>> /\ accepted = <<>> /\ plugins = <<>> /\ dispatcher.at = "ready"
      /\ dispatcher.todo = <<>> /\ dispatcher \in Hand /\ ~closed /\ closed \in BOOLEAN
      /\ since = [p \in Plugins |-> 0] /\ got = [p \in Plugins |-> <<>>]
  BY EmptyList DEF ManagerInit, Ready, Run, Hand
<1>2. MTyped
  <2>1. since \in [Plugins -> Nat] /\ got \in [Plugins -> Seq(Published)]
    BY <1>1, EmptyList
  <2>2. /\ queue \in Seq(Published) /\ accepted \in Seq(Published) /\ plugins \in Seq(Plugins)
        /\ Once(plugins)
    BY <1>1, EmptyList
  <2>3. QED
    BY <1>1, <2>1, <2>2 DEF MTyped
<1>3. QueueIsLast
  BY <1>1, EmptyList DEF QueueIsLast, InHand
<1>4. Called
  BY <1>1, EmptyList DEF Called
<1>5. QED
  BY <1>2, <1>3, <1>4 DEF MInv

(***************************************************************************)
(* The steps.                                                              *)
(***************************************************************************)

\* Waiting, waking, exiting and everything that only touches flags.
LEMMA IdleStep ==
  ASSUME MInv, UNCHANGED <<queue, accepted, plugins, since, got>>,
         closed' \in BOOLEAN, stopper' = "idle" => ~closed',
         \/ dispatcher' = dispatcher
         \/ /\ dispatcher.at \notin {"snapshot", "invoke"}
            /\ dispatcher' \in Hand /\ dispatcher'.at \notin {"snapshot", "invoke"}
            /\ dispatcher'.todo = <<>>
  PROVE  MInv'
<1>1. MTyped'
  BY DEF MInv, MTyped
<1>2. InHand' = InHand /\ Handed' = Handed
  BY DEF InHand, Handed
<1>3. QueueIsLast'
  BY <1>2 DEF MInv, QueueIsLast
<1>4. \A p : Reached(p)' = Reached(p)
  BY <1>2 DEF Reached
<1>5. Once(dispatcher'.todo) /\ Among(dispatcher'.todo) \subseteq Among(plugins)
  BY EmptyList DEF MInv, Called
<1>6. Called'
  BY <1>4, <1>5 DEF MInv, Called
<1>7. QED
  BY <1>1, <1>3, <1>6 DEF MInv

LEMMA AppendStep ==
  ASSUME MInv, NEW r \in Published, PublishAppend(r)
  PROVE  MInv'
<1>1. CASE closed
  BY <1>1, IdleStep DEF PublishAppend, MInv, MTyped
<1>2. CASE ~closed
  <2>1. /\ queue' = Append(queue, r) /\ accepted' = Append(accepted, r)
        /\ UNCHANGED <<closed, started, plugins, dispatcher, stopper, since, got>>
    BY <1>2 DEF PublishAppend
  <2>2. queue \in Seq(Published) /\ accepted \in Seq(Published)
    BY DEF MInv, MTyped
  <2>3. /\ queue' \in Seq(Published) /\ Len(queue') = Len(queue) + 1 /\ Len(queue) \in Nat
        /\ \A k \in 1 .. Len(queue) : queue'[k] = queue[k]
        /\ queue'[Len(queue) + 1] = r
    BY <2>1, <2>2, LastFacts
  <2>4. /\ accepted' \in Seq(Published) /\ Len(accepted') = Len(accepted) + 1 /\ Len(accepted) \in Nat
        /\ \A k \in 1 .. Len(accepted) : accepted'[k] = accepted[k]
        /\ accepted'[Len(accepted) + 1] = r
    BY <2>1, <2>2, LastFacts
  <2>5. MTyped'
    BY <2>1, <2>3, <2>4 DEF MInv, MTyped
  <2>6. /\ InHand \in {0, 1} /\ Handed \in Nat
        /\ Handed + InHand + Len(queue) = Len(accepted)
        /\ InHand = 1 <=> dispatcher.at \in {"snapshot", "invoke"}
    BY HandedFacts DEF MInv
  <2>7. InHand' = InHand /\ Handed' = Handed
    BY <2>1, <2>3, <2>4, <2>6 DEF InHand, Handed
  <2>8. QueueIsLast'
    <3>1. Len(queue') + InHand' <= Len(accepted')
      BY <2>3, <2>4, <2>6, <2>7
    <3>2. ASSUME NEW k \in 1 .. Len(queue')
          PROVE  queue'[k] = accepted'[Handed' + InHand' + k]
      <4>1. CASE k \in 1 .. Len(queue)
        <5>1. Handed + InHand + k \in 1 .. Len(accepted)
          BY <4>1, <2>3, <2>4, <2>6
        <5>2. queue[k] = accepted[Handed + InHand + k]
          BY <4>1 DEF MInv, QueueIsLast
        <5>3. QED
          BY <4>1, <5>1, <5>2, <2>3, <2>4, <2>7
      <4>2. CASE k = Len(queue) + 1
        <5>1. Handed + InHand + k = Len(accepted) + 1
          BY <4>2, <2>3, <2>4, <2>6
        <5>2. QED
          BY <4>2, <5>1, <2>3, <2>4, <2>7
      <4>3. QED
        BY <4>1, <4>2, <2>3
    <3>3. ASSUME dispatcher'.at \in {"snapshot", "invoke"}
          PROVE  dispatcher'.item = accepted'[Handed' + 1]
      <4>1. dispatcher.at \in {"snapshot", "invoke"} /\ dispatcher.item = accepted[Handed + 1]
        BY <3>3, <2>1 DEF MInv, QueueIsLast
      <4>2. Handed + 1 \in 1 .. Len(accepted)
        BY <4>1, <2>3, <2>4, <2>6
      <4>3. QED
        BY <4>1, <4>2, <2>1, <2>4, <2>7
    <3>4. QED
      BY <3>1, <3>2, <3>3 DEF QueueIsLast
  <2>9. Called'
    <3>1. \A p : Reached(p)' = Reached(p)
      BY <2>1, <2>7 DEF Reached
    <3>2. ASSUME NEW p \in Among(plugins)
          PROVE  /\ Len(got'[p]) + since'[p] = Reached(p)'
                 /\ \A k \in 1 .. Len(got'[p]) : got'[p][k] = accepted'[since'[p] + k]
      <4>1. p \in Plugins /\ got[p] \in Seq(Published) /\ Len(got[p]) \in Nat /\ since[p] \in Nat
        BY DEF MInv, MTyped, Among
      <4>2. Len(got[p]) + since[p] = Reached(p) /\ \A k \in 1 .. Len(got[p]) : got[p][k] = accepted[since[p] + k]
        BY DEF MInv, Called
      <4>3. Reached(p) <= Len(accepted)
        BY <2>3, <2>4, <2>6 DEF Reached
      <4>4. \A k \in 1 .. Len(got[p]) : since[p] + k \in 1 .. Len(accepted)
        BY <4>1, <4>2, <4>3, <2>4
      <4>5. QED
        BY <2>1, <2>4, <3>1, <4>2, <4>4
    <3>3. QED
      BY <2>1, <3>2 DEF MInv, Called
  <2>10. QED
    BY <2>5, <2>8, <2>9 DEF MInv
<1>3. QED
  BY <1>1, <1>2

LEMMA RegisterStep ==
  ASSUME MInv, NEW p \in Plugins, Register(p)
  PROVE  MInv'
<1>1. /\ plugins' = Append(plugins, p)
      /\ since' = [since EXCEPT ![p] = IF dispatcher.at = "invoke" THEN Handed + 1
                                       ELSE Handed]
      /\ UNCHANGED <<queue, closed, started, publisher, dispatcher, stopper, accepted, got>>
  BY DEF Register
<1>2. plugins \in Seq(Plugins) /\ Once(plugins) /\ since \in [Plugins -> Nat]
      /\ got \in [Plugins -> Seq(Published)]
  BY DEF MInv, MTyped
<1>3. p \notin Among(plugins)
  BY <1>2 DEF Register, Contains, Among
<1>4. plugins' \in Seq(Plugins) /\ Once(plugins') /\ Among(plugins') = Among(plugins) \cup {p}
  BY <1>1, <1>2, <1>3, LastFacts
<1>5. /\ InHand \in {0, 1} /\ Handed \in Nat
      /\ Handed + InHand + Len(queue) = Len(accepted)
  BY HandedFacts DEF MInv
<1>6. MTyped'
  BY <1>1, <1>2, <1>4, <1>5 DEF MInv, MTyped
<1>7. InHand' = InHand /\ Handed' = Handed
  BY <1>1 DEF InHand, Handed
<1>8. QueueIsLast'
  BY <1>1, <1>7 DEF MInv, QueueIsLast
<1>9. \A q : Reached(q)' = Reached(q)
  BY <1>1, <1>7 DEF Reached
<1>10. got[p] = <<>> /\ p \notin Among(dispatcher.todo) /\ since'[p] = Reached(p)
  BY <1>1, <1>2, <1>3 DEF MInv, Called, Reached
<1>11. Reached(p) \in Nat /\ Len(<<>>) = 0
  BY <1>5 DEF Reached
<1>12. ASSUME NEW q \in Among(plugins)
       PROVE  /\ Len(got'[q]) + since'[q] = Reached(q)'
              /\ \A k \in 1 .. Len(got'[q]) : got'[q][k] = accepted'[since'[q] + k]
  <2>1. q # p /\ q \in Plugins
    BY <1>2, <1>3 DEF Among
  <2>2. QED
    BY <2>1, <1>1, <1>2, <1>9 DEF MInv, Called
<1>13. /\ Len(got'[p]) + since'[p] = Reached(p)'
       /\ \A k \in 1 .. Len(got'[p]) : got'[p][k] = accepted'[since'[p] + k]
  BY <1>1, <1>9, <1>10, <1>11
<1>14. Once(dispatcher'.todo) /\ Among(dispatcher'.todo) \subseteq Among(plugins')
  BY <1>1, <1>4 DEF MInv, Called
<1>15. \A q \in Plugins \ Among(plugins') : got'[q] = <<>>
  BY <1>1, <1>4 DEF MInv, Called
<1>16. Called'
  BY <1>4, <1>12, <1>13, <1>14, <1>15 DEF Called
<1>17. QED
  BY <1>6, <1>8, <1>16 DEF MInv

LEMMA TakeStep ==
  ASSUME MInv, Take
  PROVE  MInv'
<1>1. /\ dispatcher.at = "ready" /\ queue # <<>> /\ queue' = Tail(queue)
      /\ dispatcher' = [at |-> "snapshot", item |-> Head(queue), todo |-> <<>>]
      /\ UNCHANGED <<closed, plugins, stopper, accepted, since, got>>
  BY DEF Take, Run, history
<1>2. queue \in Seq(Published)
  BY DEF MInv, MTyped
<1>3. /\ queue' \in Seq(Published) /\ Len(queue') = Len(queue) - 1 /\ Len(queue) \in Nat \ {0}
      /\ Head(queue) \in Published /\ Head(queue) = queue[1]
      /\ \A k \in 1 .. Len(queue) - 1 : queue'[k] = queue[k + 1]
  BY <1>1, <1>2, FirstFacts
<1>4. /\ InHand \in {0, 1} /\ Handed \in Nat /\ Len(accepted) \in Nat
      /\ Handed + InHand + Len(queue) = Len(accepted)
  BY HandedFacts DEF MInv
<1>5. InHand = 0 /\ InHand' = 1
  BY <1>1 DEF InHand
<1>6. Handed' = Handed
  BY <1>1, <1>3, <1>4, <1>5 DEF Handed
<1>7. dispatcher' \in Hand
  BY <1>1, <1>3, EmptyList DEF Hand
<1>8. MTyped'
  BY <1>1, <1>3, <1>7 DEF MInv, MTyped
<1>9. QueueIsLast'
  <2>1. \A k \in 1 .. Len(queue) : queue[k] = accepted[Handed + k]
    BY <1>4, <1>5 DEF MInv, QueueIsLast
  <2>2. Len(queue') + InHand' <= Len(accepted')
    BY <1>1, <1>3, <1>4, <1>5
  <2>3. ASSUME NEW k \in 1 .. Len(queue')
        PROVE  queue'[k] = accepted'[Handed' + InHand' + k]
    <3>1. k + 1 \in 1 .. Len(queue) /\ Handed + 1 + k = Handed + (k + 1)
      BY <1>3, <1>4
    <3>2. queue[k + 1] = accepted[Handed + 1 + k]
      BY <2>1, <3>1
    <3>3. QED
      BY <3>2, <1>1, <1>3, <1>5, <1>6
  <2>4. dispatcher'.item = accepted'[Handed' + 1]
    BY <1>1, <1>3, <1>6, <2>1
  <2>5. QED
    BY <2>2, <2>3, <2>4 DEF QueueIsLast
<1>10. \A p : Reached(p)' = Reached(p)
  BY <1>1, <1>6 DEF Reached
<1>11. Called'
  BY <1>1, <1>10, EmptyList DEF MInv, Called
<1>12. QED
  BY <1>8, <1>9, <1>11 DEF MInv

LEMMA SnapshotStep ==
  ASSUME MInv, Snapshot
  PROVE  MInv'
<1>1. /\ dispatcher.at = "snapshot"
      /\ dispatcher' = [at |-> "invoke", item |-> dispatcher.item, todo |-> plugins]
      /\ UNCHANGED <<queue, closed, plugins, stopper, accepted, since, got>>
  BY DEF Snapshot, Run, history
<1>2. dispatcher' \in Hand
  BY <1>1 DEF MInv, MTyped, Hand
<1>3. MTyped'
  BY <1>1, <1>2 DEF MInv, MTyped
<1>4. InHand' = InHand /\ Handed' = Handed
  BY <1>1 DEF InHand, Handed
<1>5. QueueIsLast'
  BY <1>1, <1>4 DEF MInv, QueueIsLast
<1>6. \A p \in Among(plugins) : Reached(p)' = Reached(p)
  BY <1>1, <1>4 DEF Reached
<1>7. Called'
  BY <1>1, <1>6 DEF MInv, MTyped, Called
<1>8. QED
  BY <1>3, <1>5, <1>7 DEF MInv

LEMMA InvokeStep ==
  ASSUME MInv, Invoke
  PROVE  MInv'
<1>0. PICK p : p = Head(dispatcher.todo)
  OBVIOUS
<1>1. /\ dispatcher.at = "invoke" /\ dispatcher.todo # <<>>
      /\ got' = [got EXCEPT ![p] = Append(@, dispatcher.item)]
      /\ dispatcher' = [dispatcher EXCEPT !.todo = Tail(@)]
      /\ UNCHANGED <<queue, closed, plugins, stopper, accepted, since>>
  BY <1>0 DEF Invoke
<1>2. /\ dispatcher \in Hand /\ dispatcher.todo \in Seq(Plugins) /\ Once(dispatcher.todo)
      /\ Among(dispatcher.todo) \subseteq Among(plugins)
      /\ since \in [Plugins -> Nat] /\ got \in [Plugins -> Seq(Published)]
      /\ accepted \in Seq(Published)
  BY DEF MInv, MTyped, Called, Hand
<1>3. /\ Tail(dispatcher.todo) \in Seq(Plugins) /\ Once(Tail(dispatcher.todo))
      /\ p \in Plugins /\ p \in Among(dispatcher.todo) /\ p \notin Among(Tail(dispatcher.todo))
      /\ Among(Tail(dispatcher.todo)) \subseteq Among(dispatcher.todo)
      /\ Among(dispatcher.todo) \subseteq Among(Tail(dispatcher.todo)) \cup {p}
  BY <1>0, <1>1, <1>2, FirstFacts
<1>4. /\ InHand \in {0, 1} /\ Handed \in Nat /\ Len(accepted) \in Nat
      /\ Handed + InHand + Len(queue) = Len(accepted) /\ Len(queue) \in Nat
  BY HandedFacts DEF MInv
<1>5. /\ InHand = 1 /\ dispatcher.item = accepted[Handed + 1]
      /\ Handed + 1 \in 1 .. Len(accepted)
  BY <1>1, <1>4 DEF InHand, MInv, QueueIsLast
<1>6. dispatcher.item \in Published
  BY <1>2, <1>5, ElementOfSeq
<1>7. /\ Append(got[p], dispatcher.item) \in Seq(Published)
      /\ Len(Append(got[p], dispatcher.item)) = Len(got[p]) + 1 /\ Len(got[p]) \in Nat
      /\ \A k \in 1 .. Len(got[p]) : Append(got[p], dispatcher.item)[k] = got[p][k]
      /\ Append(got[p], dispatcher.item)[Len(got[p]) + 1] = dispatcher.item
  <2>1. got[p] \in Seq(Published)
    BY <1>2, <1>3
  <2>2. QED
    BY <2>1, <1>6, LastFacts
<1>8. dispatcher' \in Hand /\ dispatcher'.at = "invoke" /\ dispatcher'.item = dispatcher.item
      /\ dispatcher'.todo = Tail(dispatcher.todo)
  BY <1>1, <1>2, <1>3 DEF Hand
<1>9. got' \in [Plugins -> Seq(Published)] /\ got'[p] = Append(got[p], dispatcher.item)
      /\ \A q \in Plugins \ {p} : got'[q] = got[q]
  BY <1>1, <1>2, <1>3, <1>7
<1>10. MTyped'
  BY <1>1, <1>8, <1>9 DEF MInv, MTyped
<1>11. InHand' = InHand /\ Handed' = Handed
  BY <1>1, <1>8 DEF InHand, Handed
<1>12. QueueIsLast'
  BY <1>1, <1>5, <1>8, <1>11 DEF MInv, QueueIsLast
<1>13. Reached(p) = Handed /\ Reached(p)' = Handed + 1
  BY <1>1, <1>3, <1>8, <1>11 DEF Reached
<1>14. \A q \in Plugins \ {p} : Reached(q)' = Reached(q)
  BY <1>1, <1>3, <1>8, <1>11 DEF Reached
<1>15. p \in Among(plugins) /\ Among(plugins) \subseteq Plugins
  <2>1. plugins \in Seq(Plugins)
    BY DEF MInv, MTyped
  <2>2. Among(plugins) \subseteq Plugins
    BY <2>1 DEF Among
  <2>3. QED
    BY <1>2, <1>3, <2>2
<1>16. /\ Len(got[p]) + since[p] = Handed
       /\ \A k \in 1 .. Len(got[p]) : got[p][k] = accepted[since[p] + k]
  BY <1>13, <1>15 DEF MInv, Called
<1>17. since[p] \in Nat
  BY <1>2, <1>3
<1>18. Len(got'[p]) + since'[p] = Reached(p)'
  BY <1>1, <1>4, <1>7, <1>9, <1>13, <1>16, <1>17
<1>19. ASSUME NEW k \in 1 .. Len(got'[p]) PROVE got'[p][k] = accepted'[since'[p] + k]
  <2>1. CASE k \in 1 .. Len(got[p])
    BY <2>1, <1>1, <1>7, <1>9, <1>16
  <2>2. CASE k = Len(got[p]) + 1
    <3>1. since[p] + k = Handed + 1
      BY <2>2, <1>4, <1>7, <1>16, <1>17
    <3>2. QED
      BY <2>2, <3>1, <1>1, <1>5, <1>7, <1>9
  <2>3. QED
    BY <2>1, <2>2, <1>7, <1>9
<1>20. ASSUME NEW q \in Among(plugins), q # p
       PROVE  /\ Len(got'[q]) + since'[q] = Reached(q)'
              /\ \A k \in 1 .. Len(got'[q]) : got'[q][k] = accepted'[since'[q] + k]
  <2>1. q \in Plugins \ {p}
    BY <1>15, <1>20
  <2>2. QED
    BY <2>1, <1>1, <1>9, <1>14 DEF MInv, Called
<1>21. \A q \in Plugins \ Among(plugins) : got'[q] = <<>>
  BY <1>9, <1>15 DEF MInv, Called
<1>22. Called'
  <2>1. Once(dispatcher'.todo) /\ Among(dispatcher'.todo) \subseteq Among(plugins)
    BY <1>2, <1>3, <1>8
  <2>2. plugins' = plugins
    BY <1>1
  <2>3. \A q \in Among(plugins) :
          /\ Len(got'[q]) + since'[q] = Reached(q)'
          /\ \A k \in 1 .. Len(got'[q]) : got'[q][k] = accepted'[since'[q] + k]
    BY <1>18, <1>19, <1>20
  <2>4. QED
    BY <2>1, <2>2, <2>3, <1>21 DEF Called
<1>23. QED
  BY <1>10, <1>12, <1>22 DEF MInv

LEMMA FinishStep ==
  ASSUME MInv, Finish
  PROVE  MInv'
<1>1. /\ dispatcher.at = "invoke" /\ dispatcher.todo = <<>>
      /\ dispatcher' = Ready
      /\ UNCHANGED <<queue, closed, plugins, stopper, accepted, since, got>>
  BY DEF Finish, history
<1>2. dispatcher' \in Hand /\ dispatcher'.at = "ready" /\ dispatcher'.todo = <<>>
  BY <1>1, EmptyList DEF Hand, Ready, Run
<1>3. MTyped'
  BY <1>1, <1>2 DEF MInv, MTyped
<1>4. /\ Handed \in Nat /\ Len(accepted) \in Nat /\ Len(queue) \in Nat
      /\ Handed + InHand + Len(queue) = Len(accepted)
  BY HandedFacts DEF MInv
<1>5. InHand = 1 /\ InHand' = 0
  BY <1>1, <1>2 DEF InHand
<1>6. Handed' = Handed + 1
  BY <1>1, <1>4, <1>5 DEF Handed
<1>7. QueueIsLast'
  <2>1. Len(queue') + InHand' <= Len(accepted')
    BY <1>1, <1>4, <1>5
  <2>2. Handed' + InHand' = Handed + InHand
    BY <1>4, <1>5, <1>6
  <2>3. QED
    BY <1>1, <1>2, <2>1, <2>2 DEF MInv, QueueIsLast
<1>8. \A p : Reached(p)' = Reached(p)
  BY <1>1, <1>2, <1>6, EmptyList DEF Reached
<1>9. Called'
  BY <1>1, <1>2, <1>8, EmptyList DEF MInv, Called
<1>10. QED
  BY <1>3, <1>7, <1>9 DEF MInv

LEMMA MStep == MInv /\ [ManagerNext]_managerVars => MInv'
<1> SUFFICES ASSUME MInv, [ManagerNext]_managerVars PROVE MInv'
  OBVIOUS
<1>1. closed \in BOOLEAN /\ (stopper = "idle" => ~closed)
  BY DEF MInv, MTyped
<1>2. Ready \in Hand /\ Ready.at = "ready" /\ Ready.todo = <<>>
  BY EmptyList DEF Ready, Run, Hand
<1>3. ASSUME NEW at \in {"waiting", "exited"}
      PROVE  /\ Run(at, NoItem, <<>>) \in Hand
             /\ Run(at, NoItem, <<>>).at = at
             /\ Run(at, NoItem, <<>>).todo = <<>>
  BY EmptyList DEF Run, Hand
<1>4. CASE UNCHANGED managerVars
  BY <1>1, <1>4, IdleStep DEF managerVars, history
<1>5. ASSUME NEW r \in Published, PublisherStep(r) PROVE MInv'
  <2>1. CASE PublishStart(r)
    BY <1>1, <2>1, IdleStep DEF PublishStart, history
  <2>2. CASE PublishAppend(r)
    BY <2>2, AppendStep
  <2>3. CASE PublishSignal(r)
    BY <1>1, <1>2, <2>3, IdleStep DEF PublishSignal, Woken, history
  <2>4. QED
    BY <1>5, <2>1, <2>2, <2>3 DEF PublisherStep
<1>6. ASSUME NEW p \in Plugins, Register(p) PROVE MInv'
  BY <1>6, RegisterStep
<1>7. CASE Start
  BY <1>1, <1>7, IdleStep DEF Start, history
<1>8. CASE StopClose
  BY <1>8, IdleStep DEF StopClose, history
<1>9. CASE StopBroadcast
  BY <1>1, <1>2, <1>9, IdleStep DEF StopBroadcast, Woken, history
<1>10. CASE DispatcherStep
  <2>1. CASE Wait
    BY <1>1, <1>3, <2>1, IdleStep DEF Wait, history
  <2>2. CASE Exit
    BY <1>1, <1>3, <2>2, IdleStep DEF Exit, history
  <2>3. QED
    BY <1>10, <2>1, <2>2, TakeStep, SnapshotStep, InvokeStep, FinishStep DEF DispatcherStep
<1>11. QED
  BY <1>4, <1>5, <1>6, <1>7, <1>8, <1>9, <1>10 DEF ManagerNext

LEMMA MInvAlways == ManagerSpec => []MInv
<1>1. QED
  BY MInit, MStep, PTL DEF ManagerSpec

\* Every registered plugin is called with exactly the records that are handed
\* out from its registration on, in the order in which they were accepted, for
\* all plugins, publishers and interleavings of the two with a Stop.
THEOREM PluginsGetEveryRecord == ManagerSpec => []EveryRecordInOrder
<1>1. MInv => EveryRecordInOrder
  <2> SUFFICES ASSUME MInv, NEW p \in ToSet(plugins)
               PROVE  LET called == dispatcher.at = "invoke" /\ ~Contains(dispatcher.todo, p)
                      IN  got[p] = SubSeq(accepted, since[p] + 1,
                                          IF called THEN Handed + 1 ELSE Handed)
    BY DEF EveryRecordInOrder
  <2>1. p \in Among(plugins) /\ p \in Plugins
    BY DEF ToSet, Among, MInv, MTyped
  <2>2. /\ dispatcher.todo \in Seq(Plugins) /\ accepted \in Seq(Published)
        /\ got[p] \in Seq(Published) /\ since[p] \in Nat
    BY <2>1 DEF MInv, MTyped, Hand
  <2>3. Contains(dispatcher.todo, p) <=> p \in Among(dispatcher.todo)
    BY <2>2 DEF Contains, Among
  <2>4. Reached(p) \in Nat /\ Reached(p) <= Len(accepted)
    BY HandedFacts DEF MInv, Reached
  <2>5. Len(got[p]) + since[p] = Reached(p) /\ \A k \in 1 .. Len(got[p]) : got[p][k] = accepted[since[p] + k]
    BY <2>1 DEF MInv, Called
  <2>6. got[p] = SubSeq(accepted, since[p] + 1, Reached(p))
    BY <2>2, <2>4, <2>5, SegmentFacts
  <2>7. QED
    BY <2>3, <2>6 DEF Reached
<1>2. QED
  BY <1>1, MInvAlways, PTL

(***************************************************************************)
(* The manager hands out what it accepted, one by one.                     *)
(***************************************************************************)
LEMMA SameHanded ==
  ASSUME UNCHANGED <<queue, accepted>>, InHand' = InHand
  PROVE  Handed' = Handed
BY DEF Handed

LEMMA HandsOutStep ==
  ASSUME MInv, [ManagerNext]_managerVars
  PROVE  [Delivery!Next]_(Delivery!vars)
<1>1. /\ InHand \in {0, 1} /\ Handed \in Nat /\ Len(queue) \in Nat
      /\ Handed + InHand + Len(queue) = Len(accepted) /\ Len(accepted) \in Nat
      /\ queue \in Seq(Published) /\ accepted \in Seq(Published)
      /\ closed \in BOOLEAN /\ (stopper = "idle" => ~closed)
  BY HandedFacts DEF MInv, MTyped
<1>2. Ready.at = "ready"
  BY DEF Ready, Run
<1>3. \A at, item, todo : Run(at, item, todo).at = at
  BY DEF Run
<1>4. ASSUME UNCHANGED <<queue, accepted, closed>>, InHand' = InHand
      PROVE  UNCHANGED Delivery!vars
  BY <1>4, SameHanded DEF Delivery!vars
<1>5. CASE UNCHANGED managerVars
  BY <1>4, <1>5 DEF managerVars, history, InHand
<1>6. ASSUME NEW r \in Published, PublisherStep(r) PROVE [Delivery!Next]_(Delivery!vars)
  <2>1. CASE PublishStart(r)
    BY <1>4, <2>1 DEF PublishStart, history, InHand
  <2>2. CASE PublishAppend(r) /\ closed
    BY <1>4, <2>2 DEF PublishAppend, InHand
  <2>3. CASE PublishAppend(r) /\ ~closed
    <3>1. /\ queue' = Append(queue, r) /\ accepted' = Append(accepted, r)
          /\ UNCHANGED <<closed, dispatcher>>
      BY <2>3 DEF PublishAppend
    <3>2. Len(queue') = Len(queue) + 1 /\ Len(accepted') = Len(accepted) + 1
      BY <1>1, <3>1, LastFacts
    <3>3. Handed' = Handed
      BY <1>1, <3>1, <3>2 DEF Handed, InHand
    <3>4. Delivery!Accept(r)
      BY <2>3, <3>1, <3>3 DEF Delivery!Accept
    <3>5. QED
      BY <3>4 DEF Delivery!Next
  <2>4. CASE PublishSignal(r)
    BY <1>2, <1>4, <2>4 DEF PublishSignal, Woken, history, InHand
  <2>5. QED
    BY <1>6, <2>1, <2>2, <2>3, <2>4 DEF PublisherStep
<1>7. ASSUME NEW p \in Plugins, Register(p) PROVE [Delivery!Next]_(Delivery!vars)
  BY <1>4, <1>7 DEF Register, InHand
<1>8. CASE Start
  BY <1>4, <1>8 DEF Start, history, InHand
<1>9. CASE StopClose
  <2>1. /\ closed' = TRUE /\ ~closed /\ UNCHANGED <<queue, accepted, dispatcher>>
    BY <1>1, <1>9 DEF StopClose, history
  <2>2. Handed' = Handed
    BY <2>1, SameHanded DEF InHand
  <2>3. Delivery!Close
    BY <2>1, <2>2 DEF Delivery!Close
  <2>4. QED
    BY <2>3 DEF Delivery!Next
<1>10. CASE StopBroadcast
  BY <1>2, <1>4, <1>10 DEF StopBroadcast, Woken, history, InHand
<1>11. CASE Wait \/ Exit
  BY <1>3, <1>4, <1>11 DEF Wait, Exit, history, InHand
<1>12. CASE Take
  <2>1. /\ dispatcher.at = "ready" /\ dispatcher'.at = "snapshot" /\ queue # <<>>
        /\ queue' = Tail(queue) /\ UNCHANGED <<closed, accepted>>
    BY <1>3, <1>12 DEF Take, history
  <2>2. Len(queue') = Len(queue) - 1
    BY <1>1, <2>1, FirstFacts
  <2>3. InHand = 0 /\ InHand' = 1
    BY <2>1 DEF InHand
  <2>4. Handed' = Handed
    BY <1>1, <2>1, <2>2, <2>3 DEF Handed
  <2>5. QED
    BY <2>1, <2>4 DEF Delivery!vars
<1>13. CASE Snapshot
  BY <1>3, <1>4, <1>13 DEF Snapshot, history, InHand
<1>14. CASE Invoke
  <2>1. dispatcher' = [dispatcher EXCEPT !.todo = Tail(@)] /\ UNCHANGED <<queue, accepted, closed>>
    BY <1>14 DEF Invoke
  <2>2. dispatcher'.at = dispatcher.at
    BY <2>1 DEF MInv, MTyped, Hand
  <2>3. QED
    BY <1>4, <2>1, <2>2 DEF InHand
<1>15. CASE Finish
  <2>1. /\ dispatcher.at = "invoke" /\ dispatcher'.at = "ready"
        /\ UNCHANGED <<closed, queue, accepted>>
    BY <1>2, <1>15 DEF Finish, history
  <2>2. InHand = 1 /\ InHand' = 0
    BY <2>1 DEF InHand
  <2>3. Handed' = Handed + 1 /\ Handed < Len(accepted)
    BY <1>1, <2>1, <2>2 DEF Handed
  <2>4. Delivery!HandOut
    BY <2>1, <2>3 DEF Delivery!HandOut
  <2>5. QED
    BY <2>4 DEF Delivery!Next
<1>16. QED
  BY <1>5, <1>6, <1>7, <1>8, <1>9, <1>10, <1>11, <1>12, <1>13, <1>14, <1>15
     DEF ManagerNext, DispatcherStep

\* The safety part of UsageDelivery: every step of the manager accepts a record,
\* hands out the oldest one not handed out yet, closes, or is none of the
\* callers' business, for all publishers and plugins.
THEOREM ManagerHandsOut == ManagerSpec => Delivery!Init /\ [][Delivery!Next]_(Delivery!vars)
<1>1. ASSUME ManagerInit PROVE Delivery!Init
  <2>1. accepted = <<>> /\ queue = <<>> /\ dispatcher.at = "ready" /\ closed = FALSE
    BY <1>1 DEF ManagerInit, Ready, Run
  <2>2. InHand = 0 /\ Len(<<>>) = 0
    BY <2>1, EmptyList DEF InHand
  <2>3. Handed = 0
    BY <2>1, <2>2 DEF Handed
  <2>4. QED
    BY <2>1, <2>3 DEF Delivery!Init
<1>2. QED
  BY <1>1, MInvAlways, HandsOutStep, PTL DEF ManagerSpec
=============================================================================
