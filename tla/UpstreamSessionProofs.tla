----------------------- MODULE UpstreamSessionProofs -------------------------
(***************************************************************************)
(* Proofs about UpstreamSession: for any number of attempts, connections   *)
(* and credentials and any size of the channels, the safety properties of  *)
(* the session hold.  First the inductive invariant, with what its proof   *)
(* uses more than once: what the invariant says of one attempt, and which  *)
(* parts of it a step leaves alone that is an attempt's, or a reader's.    *)
(* Every action keeps the invariant, one lemma for each.                   *)
(***************************************************************************)
EXTENDS UpstreamSession, FiniteSetTheorems, TLAPS

\* Whose session it is never changes: what says so is always in view.
USE DEF Xai

Places == {"idle", "lock", "connect", "dial", "activate", "write", "reconnect", "redial",
           "rewrite", "stream", "ending", "done", "refused"}
Messages == [conn : Conns, of : Attempts, kind : Kinds]
Boxes == [items : Seq(Messages), closed : BOOLEAN]
Loops == [at : {"off", "read", "post", "fail", "leave"}, to : Attempts \cup {Nobody},
          of : Attempts \cup {Nobody}, kind : Kinds]

Typed ==
  /\ executor \in {"codex", "xai"} /\ handler \in {"serving", "left", "closed"}
  /\ stored \in BOOLEAN /\ closing \in BOOLEAN /\ overtaken \in BOOLEAN
  /\ current \in 0..MaxAttempts /\ at \in [Attempts -> Places]
  /\ auth \in [Attempts -> Auths \cup {NoAuth}] /\ mine \in [Attempts -> Conns \cup {NoConn}]
  /\ holder \in Attempts \cup {Nobody} /\ active \in Attempts \cup {Nobody}
  /\ conn \in Conns \cup {NoConn} /\ authID \in Auths \cup {NoAuth} /\ open \subseteq Conns
  /\ dialled \in [Conns -> Auths \cup {NoAuth}]
  /\ box \in [Attempts -> Boxes] /\ reader \in [Conns -> Loops]
  /\ wire \in [Conns -> Seq(Attempts)] /\ cut \subseteq Attempts
  /\ late \subseteq Attempts \X (Conns \cup {NoConn})
  /\ warm \subseteq Attempts /\ (warm # {} => Xai) /\ warmed \subseteq warm
  /\ unpinned \subseteq Conns

(***************************************************************************)
(* The inductive invariant.                                                *)
(***************************************************************************)
Early == {"idle", "lock", "connect", "dial", "activate"}
Linked == {"activate", "write", "rewrite", "stream"}
Heard == {"write", "reconnect", "redial", "rewrite", "stream"}
Sent == {"stream", "ending", "done"}

Used(c) == dialled[c] # NoAuth
Working(c) == reader[c].at \in {"read", "post"}
Holding(c) == reader[c].at \in {"post", "fail"}
Waiting(c) == ToSet(wire[c])
Items(a) == ToSet(box[a].items)

\* An attempt before a has been cut off, or was a warm-up that did not wait for the end.
Excused(a) == \E b \in cut \cup warmed : b < a

\* The session as a whole: its connection, and what is left when it is closed.
Session ==
  /\ open \subseteq {conn} /\ (current = 0 => conn = NoConn)
  /\ conn # NoConn => Used(conn) /\ dialled[conn] = authID
  /\ ~stored /\ ~closing /\ ~overtaken => conn = NoConn /\ \A a \in Attempts : ~Connects(a)
  /\ crash # "none" => \E c, d \in Conns : c # d /\ Used(c) /\ Used(d)
  /\ \A x \in late : x[2] \in Conns /\ Used(x[2]) /\ ~Working(x[2])
  /\ \A a \in strayed : Excused(a)

\* Between two attempts: the next one of Codex finds a connection of the last one's
\* credential, if that was answered, and otherwise none; or one that was kept already.
Between ==
  /\ ~Xai /\ current > 0 /\ Settled(current) /\ handler = "serving"
  /\ conn # NoConn /\ Working(conn)
  => \/ Excused(current + 1)
     \/ current \notin failed /\ (dialled[conn] = auth[current] \/ conn \in unpinned)

\* Whose turn it is.
Turn(a) ==
  /\ a > current => at[a] = "idle"
  /\ a = current => at[a] # "idle"
  /\ a < current => Settled(a)
  /\ at[a] \notin {"idle", "lock", "done"} => holder = a
  /\ a \in failed => Settled(a)

\* The attempt's connection.
Connection(a) ==
  /\ at[a] \in Linked => mine[a] \in Conns /\ Used(mine[a]) /\ conn \in {mine[a], NoConn}
  /\ at[a] \in {"dial", "reconnect", "redial", "refused"} => conn = NoConn

\* Its channel.
Channel(a) ==
  /\ active = a => ~box[a].closed /\ at[a] \in Heard \cup {"ending"}
  /\ at[a] \in Heard /\ ~box[a].closed => active = a
  /\ at[a] \in Early => ~box[a].closed /\ box[a].items = <<>>
  /\ \A c \in Conns : at[a] \in Early /\ Holding(c) => reader[c].to # a

\* Who will tell it.
Told(a) ==
  at[a] \in {"write", "rewrite", "stream"} /\ ~box[a].closed /\ <<a, mine[a]>> \notin late =>
    Working(mine[a]) \/ (reader[mine[a]].at = "fail" /\ reader[mine[a]].to = a)

\* Its credential.  xAI looks; what Codex finds may be of another one for three reasons.
Cover(c, a) == Xai \/ dialled[c] = auth[a] \/ ~Working(c) \/ Excused(a) \/ c \in unpinned
Credential(a) ==
  /\ at[a] # "idle" => auth[a] \in Auths
  /\ at[a] \in {"lock", "connect"} /\ conn # NoConn => Cover(conn, a)
  /\ at[a] = "activate" => Cover(mine[a], a)
  /\ ~Xai /\ at[a] \in {"write", "rewrite", "stream"} =>
       \/ dialled[mine[a]] = auth[a] \/ mine[a] \in unpinned
       \/ <<a, mine[a]>> \in late \/ Excused(a)
  /\ Xai /\ at[a] = "connect" /\ conn # NoConn => dialled[conn] = auth[a]
  /\ Xai /\ at[a] \in Linked => dialled[mine[a]] = auth[a]

\* What is in its channel, and what is still to come on its connection.
Answer(a) ==
  /\ \A m \in Items(a) :
       /\ Used(m.conn)
       /\ m.kind = "lost" => reader[m.conn].at \in {"leave", "off"}
       /\ m.kind # "lost" => at[m.of] \in Sent
       /\ m.kind \in {"end", "error"} => m.of \notin Waiting(m.conn)
       /\ m.conn = mine[a] /\ m.of # a => Excused(a)
  /\ at[a] \in Linked \cup Heard \cup {"ending"} =>
       \A w \in Attempts : mine[a] \in Conns /\ w \in Waiting(mine[a]) =>
         w = a \/ ~Working(mine[a]) \/ Excused(a)

\* The connection's reader.
Reader(c) ==
  /\ ~Used(c) => reader[c].at = "off" /\ wire[c] = <<>>
  /\ Holding(c) => /\ reader[c].to \in Attempts
                   /\ box[reader[c].to].closed => \E d \in Conns \ {c} : Used(d)
  /\ reader[c].at = "post" => LET h == reader[c] IN
       /\ h.of \in Attempts /\ h.kind # "lost" /\ at[h.of] \in Sent
       /\ h.kind \in {"end", "error"} => h.of \notin Waiting(c)
       /\ mine[h.to] = c /\ h.of # h.to => Excused(h.to)

\* The requests that the provider is to answer on it.
Requests(c) ==
  /\ \A i, j \in 1..Len(wire[c]) : wire[c][i] = wire[c][j] => i = j
  /\ \A w \in Waiting(c) :
       /\ mine[w] = c /\ at[w] \in Sent
       /\ \/ conn # c \/ ~Working(c) \/ Excused(w + 1)
          \/ w = current /\ (at[w] = "stream" \/ handler # "serving")

OfAttempt(a) == /\ Turn(a) /\ Connection(a) /\ Channel(a) /\ Told(a) /\ Credential(a) /\ Answer(a)
OfConnection(c) == Reader(c) /\ Requests(c)

Inv == /\ Typed /\ Session /\ Between
       /\ \A a \in Attempts : OfAttempt(a)
       /\ \A c \in Conns : OfConnection(c)

(***************************************************************************)
(* Sequences.                                                              *)
(***************************************************************************)
LEMMA AppendFacts ==
  ASSUME NEW S, NEW s \in Seq(S), NEW x \in S
  PROVE  Append(s, x) \in Seq(S) /\ ToSet(Append(s, x)) = ToSet(s) \cup {x}
<1>1. /\ Append(s, x) \in Seq(S) /\ Len(Append(s, x)) = Len(s) + 1 /\ Len(s) \in Nat
      /\ Append(s, x)[Len(s) + 1] = x
      /\ \A i \in 1..Len(s) : Append(s, x)[i] = s[i]
  OBVIOUS
<1>2. DOMAIN Append(s, x) = 1..(Len(s) + 1) /\ DOMAIN s = 1..Len(s)
  BY <1>1
<1>3. \A i \in 1..(Len(s) + 1) : i \in 1..Len(s) \/ i = Len(s) + 1
  BY <1>1
<1>4. QED
  BY <1>1, <1>2, <1>3 DEF ToSet

LEMMA TailFacts ==
  ASSUME NEW S, NEW s \in Seq(S), s # <<>>
  PROVE  /\ Tail(s) \in Seq(S) /\ Head(s) \in S
         /\ Head(s) \in ToSet(s) /\ ToSet(Tail(s)) \subseteq ToSet(s)
         /\ \A x \in ToSet(s) : x = Head(s) \/ x \in ToSet(Tail(s))
<1>1. /\ Tail(s) \in Seq(S) /\ Len(s) \in Nat /\ Len(s) >= 1 /\ Len(Tail(s)) = Len(s) - 1
      /\ Head(s) = s[1] /\ Head(s) \in S
      /\ \A i \in 1..Len(Tail(s)) : Tail(s)[i] = s[i + 1]
  OBVIOUS
<1>2. DOMAIN Tail(s) = 1..(Len(s) - 1) /\ DOMAIN s = 1..Len(s)
  BY <1>1
<1>3. \A i \in 1..(Len(s) - 1) : i + 1 \in 1..Len(s)
  BY <1>1
<1>4. \A i \in 1..Len(s) : i = 1 \/ (i - 1 \in 1..(Len(s) - 1) /\ Tail(s)[i - 1] = s[i])
  BY <1>1
<1>5. Head(s) \in ToSet(s)
  BY <1>1, <1>2 DEF ToSet
<1>6. ToSet(Tail(s)) \subseteq ToSet(s)
  BY <1>1, <1>2, <1>3 DEF ToSet
<1>7. ASSUME NEW x \in ToSet(s) PROVE x = Head(s) \/ x \in ToSet(Tail(s))
  <2>1. PICK i \in 1..Len(s) : x = s[i]
    BY <1>2 DEF ToSet
  <2>2. QED
    BY <2>1, <1>1, <1>2, <1>4 DEF ToSet
<1>8. QED
  BY <1>1, <1>5, <1>6, <1>7

LEMMA NothingInEmpty == ToSet(<<>>) = {}
BY DEF ToSet

(***************************************************************************)
(* What the invariant says of a single attempt, and what no step undoes.   *)
(***************************************************************************)
LEMMA TypeFacts ==
  ASSUME Typed
  PROVE  /\ Nobody \notin Attempts /\ NoConn \notin Conns /\ NoAuth \notin Auths
         /\ \A a \in Attempts :
              /\ a \in Nat /\ box[a].items \in Seq(Messages) /\ box[a].closed \in BOOLEAN
              /\ \A m \in Items(a) : m \in Messages
         /\ \A c \in Conns : wire[c] \in Seq(Attempts) /\ \A w \in Waiting(c) : w \in Attempts
         /\ \A m \in Messages : m.conn \in Conns /\ m.of \in Attempts /\ m.kind \in Kinds
<1>1. \A a \in Attempts : box[a].items \in Seq(Messages) /\ box[a].closed \in BOOLEAN
  BY DEF Typed, Boxes
<1>2. \A c \in Conns : wire[c] \in Seq(Attempts)
  BY DEF Typed
<1>3. ASSUME NEW a \in Attempts, NEW m \in Items(a) PROVE m \in Messages
  BY <1>1, <1>3 DEF Items, ToSet
<1>4. ASSUME NEW c \in Conns, NEW w \in Waiting(c) PROVE w \in Attempts
  BY <1>2, <1>4 DEF Waiting, ToSet
<1>5. \A a \in Attempts : a \in Nat
  BY DEF Attempts
<1>6. \A m \in Messages : m.conn \in Conns /\ m.of \in Attempts /\ m.kind \in Kinds
  BY DEF Messages
<1>7. Nobody \notin Attempts /\ NoConn \notin Conns /\ NoAuth \notin Auths
  BY UpstreamAssumption DEF Attempts, Nobody
<1>8. QED
  BY <1>1, <1>2, <1>3, <1>4, <1>5, <1>6, <1>7

\* An attempt past the lock is the last one, and the others are not begun or done.
LEMMA Alone ==
  ASSUME Inv, NEW a \in Attempts,
         at[a] \notin {"idle", "ending", "done", "refused"}, at[a] = "lock" => holder = Nobody
  PROVE  /\ a = current /\ a \notin failed /\ (at[a] # "lock" => holder = a)
         /\ \A b \in Attempts : b # a => at[b] \in {"idle", "done"}
<1>1. Typed /\ Turn(a) /\ a \in Nat /\ current \in Nat
  BY DEF Inv, OfAttempt, Typed, Attempts
<1>2. a = current /\ a \notin failed /\ (at[a] # "lock" => holder = a)
  BY <1>1 DEF Turn, Settled
<1>3. ASSUME NEW b \in Attempts, b # a PROVE at[b] \in {"idle", "done"}
  <2>1. Turn(b) /\ b \in Nat /\ (b > current \/ b < current)
    BY <1>1, <1>2, <1>3 DEF Inv, OfAttempt, Attempts
  <2>2. holder # b
    BY <1>2, <1>3, TypeFacts DEF Inv
  <2>3. QED
    BY <2>1, <2>2 DEF Turn, Settled
<1>4. QED
  BY <1>2, <1>3

\* What only grows.
Grows ==
  /\ executor' = executor
  /\ \A c \in Conns : Used(c) => dialled'[c] = dialled[c]
  /\ cut \subseteq cut' /\ late \subseteq late'
  /\ warmed \subseteq warmed' /\ unpinned \subseteq unpinned'
  /\ \A w \in Attempts : at[w] \in Sent => at'[w] \in Sent

\* The readers of the connections that there were stand still.
ReadersStay ==
  \A c \in Conns : reader'[c] = reader[c] \/ (~Used(c) /\ reader'[c].at = "read")

\* A step of the attempt that has the lock leaves the others as they are.
LEMMA OthersStay ==
  ASSUME Inv, Grows, ReadersStay, NEW a \in Attempts, NEW b \in Attempts, b # a,
         a = current, current' = current, at[b] \in {"idle", "done"}, at'[b] = at[b],
         auth'[b] = auth[b], mine'[b] = mine[b], box'[b] = box[b], b \in failed' => b \in failed,
         active' \in {active, a, Nobody},
         \A c \in Conns : \A w \in Waiting(c)' : w \in Waiting(c) \/ (w = a /\ at[a] \notin Sent)
  PROVE  OfAttempt(b)'
<1>1. Turn(b) /\ Channel(b) /\ Answer(b) /\ Credential(b) /\ b \in Nat /\ current \in Nat
      /\ b # Nobody
  BY TypeFacts DEF Inv, OfAttempt, Typed, Attempts
<1>2. at[b] \notin Heard \cup {"ending"} \cup Linked /\ active # b /\ active' # b
  BY <1>1 DEF Heard, Linked, Channel
<1>3. Turn(b)'
  BY <1>1 DEF Turn, Settled
<1>4. Connection(b)' /\ Told(b)' /\ Credential(b)'
  BY <1>1 DEF Connection, Told, Credential, Linked
<1>5. Channel(b)'
  BY <1>1, <1>2 DEF Channel, Holding, ReadersStay, Early
<1>6. ASSUME NEW m \in Items(b)'
      PROVE  /\ Used(m.conn)'
             /\ m.kind = "lost" => reader'[m.conn].at \in {"leave", "off"}
             /\ m.kind # "lost" => at'[m.of] \in Sent
             /\ m.kind \in {"end", "error"} => m.of \notin Waiting(m.conn)'
             /\ m.conn = mine'[b] /\ m.of # b => Excused(b)'
  <2>1. m \in Items(b) /\ m.conn \in Conns /\ m.of \in Attempts
    BY <1>6, TypeFacts DEF Items, Inv
  <2>2. Used(m.conn) /\ dialled'[m.conn] = dialled[m.conn] /\ reader'[m.conn] = reader[m.conn]
    BY <2>1, <1>1 DEF Answer, Grows, ReadersStay
  <2>3. m.kind # "lost" => at[m.of] \in Sent /\ at'[m.of] \in Sent
    BY <2>1, <1>1 DEF Answer, Grows
  <2>4. m.kind \in {"end", "error"} => m.of \notin Waiting(m.conn)'
    BY <2>1, <2>3, <1>1 DEF Answer
  <2>5. m.conn = mine'[b] /\ m.of # b => Excused(b)'
    BY <2>1, <1>1 DEF Answer, Excused, Grows
  <2>6. QED
    BY <2>1, <2>2, <2>3, <2>4, <2>5, <1>1 DEF Used, Answer
<1>7. Answer(b)'
  BY <1>2, <1>6 DEF Answer
<1>8. QED
  BY <1>3, <1>4, <1>5, <1>7 DEF OfAttempt

\* A step of an attempt that has not sent its request leaves the connections as they are.
LEMMA ConnectionsStay ==
  ASSUME Inv, Grows, ReadersStay, NEW c \in Conns, wire'[c] = wire[c],
         reader'[c] = reader[c] \/ (~Used(c) /\ Used(c)' /\ reader'[c].at = "read"),
         conn' \in {conn, NoConn} \/ (conn' \in Conns /\ ~Used(conn')),
         current' = current, handler' = handler,
         \A b \in Attempts : box'[b].closed => box[b].closed,
         \A w \in Waiting(c) : at[w] = "stream" =>
           at'[w] = "stream" \/ conn' # c \/ ~Working(c) \/ Excused(w + 1)' \/ handler # "serving",
         \A w \in Attempts : \/ mine'[w] = mine[w]
                             \/ at[w] \notin Sent
                                /\ (Holding(c) /\ reader[c].to = w => mine'[w] # c)
  PROVE  OfConnection(c)'
<1>1. Reader(c) /\ Requests(c)
  BY DEF Inv, OfConnection
<1>2. Used(c) => Used(c)' /\ reader'[c] = reader[c]
  BY DEF Grows, Used
<1>3. \A b \in Attempts : Excused(b) => Excused(b)'
  BY DEF Grows, Excused
<1>4. Reader(c)'
  <2>1. ~Used(c)' => reader'[c].at = "off" /\ wire'[c] = <<>>
    BY <1>1, <1>2 DEF Reader
  <2>2. ASSUME Holding(c)'
        PROVE  /\ reader'[c] = reader[c] /\ Holding(c) /\ reader[c].to \in Attempts
               /\ box'[reader[c].to].closed => \E d \in Conns \ {c} : Used(d)'
    <3>1. reader'[c] = reader[c] /\ Holding(c) /\ reader[c].to \in Attempts
      BY <1>1, <1>2, <2>2 DEF Holding, Reader
    <3>2. \A d \in Conns : Used(d) => Used(d)'
      BY DEF Grows, Used
    <3>3. QED
      BY <1>1, <3>1, <3>2 DEF Reader
  <2>3. ASSUME reader'[c].at = "post"
        PROVE  (LET h == reader[c] IN
                /\ h.of \in Attempts /\ h.kind # "lost" /\ at[h.of] \in Sent
                /\ h.kind \in {"end", "error"} => h.of \notin Waiting(c)
                /\ mine[h.to] = c /\ h.of # h.to => Excused(h.to))'
    <3>1. reader'[c] = reader[c] /\ Holding(c) /\ reader[c].to \in Attempts
      BY <1>1, <2>2, <2>3 DEF Holding
    <3>2. Waiting(c)' = Waiting(c)
      BY DEF Waiting
    <3>3. at'[reader[c].of] \in Sent
      BY <3>1, <1>1, <2>3 DEF Grows, Reader
    <3>4. mine'[reader[c].to] = c => mine[reader[c].to] = c
      BY <3>1
    <3>5. QED
      BY <3>1, <3>2, <3>3, <3>4, <1>1, <1>3, <2>3 DEF Reader
  <2>4. QED
    BY <2>1, <2>2, <2>3 DEF Reader
<1>5. Requests(c)'
  <2>1. ASSUME NEW w \in Waiting(c)
        PROVE  /\ mine'[w] = c /\ at'[w] \in Sent
               /\ \/ conn' # c \/ ~Working(c)' \/ Excused(w + 1)'
                  \/ w = current /\ (at'[w] = "stream" \/ handler # "serving")
    <3>1. w \in Attempts /\ Used(c) /\ reader'[c] = reader[c]
      <4>1. wire[c] # <<>>
        BY <2>1 DEF Waiting, ToSet
      <4>2. QED
        BY <2>1, <4>1, <1>1, <1>2, TypeFacts DEF Inv, Reader
    <3>2. mine'[w] = c /\ at'[w] \in Sent
      BY <2>1, <3>1, <1>1 DEF Requests, Grows
    <3>3. conn' = c => conn = c
      BY <3>1, TypeFacts DEF Inv
    <3>4. Excused(w + 1) => Excused(w + 1)'
      BY DEF Grows, Excused
    <3>5. QED
      BY <2>1, <3>1, <3>2, <3>3, <3>4, <1>1 DEF Requests, Working
  <2>2. QED
    BY <2>1, <1>1 DEF Requests, Waiting
<1>6. QED
  BY <1>4, <1>5 DEF OfConnection

\* The parts of Session about the past, when the readers stand still.
Past == /\ crash # "none" => \E c, d \in Conns : c # d /\ Used(c) /\ Used(d)
        /\ \A x \in late : x[2] \in Conns /\ Used(x[2]) /\ ~Working(x[2])
        /\ \A a \in strayed : Excused(a)

LEMMA PastStays ==
  ASSUME Inv, Grows, ReadersStay, crash' = crash, late' = late, strayed' = strayed
  PROVE  Past'
<1>1. Past
  BY DEF Past, Inv, Session
<1>2. \A c \in Conns : Used(c) => Used(c)' /\ reader'[c] = reader[c]
  BY DEF Grows, ReadersStay, Used
<1>3. \A x \in late' : x[2] \in Conns /\ Used(x[2])' /\ ~Working(x[2])'
  BY <1>1, <1>2 DEF Past, Working
<1>4. \A a \in strayed' : Excused(a)'
  BY <1>1 DEF Past, Excused, Grows
<1>5. crash' # "none" => \E c, d \in Conns : c # d /\ Used(c)' /\ Used(d)'
  BY <1>1, <1>2 DEF Past
<1>6. QED
  BY <1>3, <1>4, <1>5 DEF Past

\* A step of the attempt whose turn it is, on the connection that is there.
QuietStep(a) ==
  /\ UNCHANGED <<executor, handler, current, auth, warm, wire, reader, crash, dialled>>
  /\ conn' \in {conn, NoConn} /\ \E place \in Places : at' = [at EXCEPT ![a] = place]
  /\ mine' = mine \/ (at[a] = "connect" /\ mine' = [mine EXCEPT ![a] = conn])
  /\ failed' \subseteq failed \cup {a} /\ active' \in {active, a, Nobody}
  /\ \A b \in Attempts : box'[b].closed = box[b].closed /\ (b # a => box'[b] = box[b])
  /\ cut \subseteq cut' /\ late \subseteq late' /\ warmed \subseteq warmed' /\ unpinned' = unpinned
  /\ \A c \in Conns : \A w \in Waiting(c) : at[w] = "stream" =>
       at'[w] = "stream" \/ conn' # c \/ ~Working(c) \/ Excused(w + 1)' \/ handler # "serving"

\* For such a step it is enough to look at the session and at the attempt itself.
LEMMA QuietStepKeeps ==
  ASSUME Inv, NEW a \in Attempts, QuietStep(a),
         at[a] \notin {"idle", "ending", "done", "refused"}, at[a] = "lock" => holder = Nobody,
         Sent \cap {at[a]} # {} => at'[a] \in Sent,
         Typed', Session', Between', OfAttempt(a)'
  PROVE  Inv'
<1>1. a = current /\ \A b \in Attempts : b # a => at[b] \in {"idle", "done"}
  BY Alone
<1>2. Typed /\ Channel(a)
  BY DEF Inv, OfAttempt
<1>3. \A b \in Attempts : b # a => at'[b] = at[b] /\ mine'[b] = mine[b]
  BY <1>2 DEF QuietStep, Typed
<1>4. Grows /\ ReadersStay
  <2>1. \A w \in Attempts : at[w] \in Sent => at'[w] \in Sent
    BY <1>3
  <2>2. QED
    BY <2>1 DEF Grows, ReadersStay, QuietStep
<1>5. ASSUME NEW b \in Attempts, b # a PROVE OfAttempt(b)'
  <2>1. \A c \in Conns : Waiting(c)' = Waiting(c)
    BY DEF QuietStep, Waiting
  <2>2. /\ current' = current /\ auth' = auth /\ mine'[b] = mine[b] /\ box'[b] = box[b]
        /\ (b \in failed' => b \in failed)
        /\ active' \in {active, a, Nobody}
    BY <1>3, <1>5 DEF QuietStep
  <2>3. QED
    BY <1>1, <1>3, <1>4, <1>5, <2>1, <2>2, OthersStay
<1>6. ASSUME NEW c \in Conns PROVE OfConnection(c)'
  <2>1. \A w \in Attempts : \/ mine'[w] = mine[w]
                            \/ at[w] \notin Sent /\ (Holding(c) /\ reader[c].to = w => mine'[w] # c)
    <3>1. at[a] = "connect" => at[a] \notin Sent /\ (Holding(c) => reader[c].to # a)
      BY <1>2 DEF Channel, Early, Sent
    <3>2. QED
      BY <3>1, <1>3 DEF QuietStep
  <2>2. /\ wire'[c] = wire[c] /\ reader'[c] = reader[c] /\ conn' \in {conn, NoConn}
        /\ current' = current /\ handler' = handler
        /\ \A b \in Attempts : box'[b].closed => box[b].closed
        /\ \A w \in Waiting(c) : at[w] = "stream" =>
             at'[w] = "stream" \/ conn' # c \/ ~Working(c) \/ Excused(w + 1)' \/ handler # "serving"
    BY DEF QuietStep
  <2>3. QED
    BY <1>4, <1>6, <2>1, <2>2, ConnectionsStay
<1>7. QED
  BY <1>5, <1>6 DEF Inv

\* An attempt that has taken nothing, on a connection that brings nothing new.
LEMMA AnswerStays ==
  ASSUME Typed, NEW a \in Attempts, Answer(a), Grows, box'[a].items = box[a].items,
         mine'[a] = mine[a], wire' = wire, reader' = reader, dialled' = dialled,
         at'[a] \in Linked \cup Heard \cup {"ending"} => at[a] \in Linked \cup Heard \cup {"ending"}
  PROVE  Answer(a)'
<1>1. Excused(a) => Excused(a)'
  BY DEF Grows, Excused
<1>2. \A m \in Items(a) : m.of \in Attempts /\ (at[m.of] \in Sent => at'[m.of] \in Sent)
  BY TypeFacts DEF Grows
<1>3. QED
  BY <1>1, <1>2 DEF Answer, Items, Waiting, Used, Working

\* Its answer is over, whatever it was, and the session is fit for the next one.
LEMMA StreamEndsKeeps ==
  ASSUME Inv, NEW a \in Attempts, at[a] = "stream", QuietStep(a), at' = [at EXCEPT ![a] = "ending"],
         UNCHANGED <<mine, holder, active, late, closing, stored, overtaken, authID>>,
         open' \subseteq {conn'}, open' \subseteq open,
         box'[a].items \in Seq(Messages), Items(a)' \subseteq Items(a),
         box' \in [Attempts -> Boxes],
         failed' \subseteq failed \cup {a}, cut' \subseteq Attempts, warmed' \subseteq warm,
         warm' = warm,
         \A b \in strayed' : Excused(b)',
         ~Xai /\ conn' # NoConn /\ Working(mine[a]) /\ handler = "serving" =>
           a \notin failed' \/ Excused(a + 1)'
  PROVE  Inv'
<1>1. a = current /\ holder = a /\ a \notin failed
      /\ \A b \in Attempts : b # a => at[b] \in {"idle", "done"}
  BY Alone
<1>2. /\ Typed /\ Session /\ OfAttempt(a) /\ a # Nobody /\ conn \in {mine[a], NoConn}
      /\ Used(mine[a])
      /\ mine[a] \in Conns /\ NoConn \notin Conns
  BY TypeFacts DEF Inv, OfAttempt, Connection, Linked
<1>3. at'[a] = "ending" /\ \A b \in Attempts : b # a => at'[b] = at[b]
  BY <1>2 DEF Typed
<1>4. /\ UNCHANGED <<executor, handler, current, auth, warm, wire, reader, crash, dialled>>
      /\ conn' \in {conn, NoConn} /\ cut \subseteq cut' /\ warmed \subseteq warmed'
      /\ unpinned' = unpinned /\ box'[a].closed = box[a].closed
  BY DEF QuietStep
<1>5. Grows
  <2>1. \A w \in Attempts : at[w] \in Sent => at'[w] \in Sent
    BY <1>3 DEF Sent
  <2>2. QED
    BY <1>4, <2>1 DEF Grows
<1>6. Typed'
  <2>1. at' \in [Attempts -> Places]
    BY <1>2 DEF Typed, Places
  <2>2. QED
    BY <1>2, <1>4, <2>1 DEF Typed
<1>7. Session'
  <2>1. \A x \in late' : x[2] \in Conns /\ Used(x[2])' /\ ~Working(x[2])'
    BY <1>2, <1>4 DEF Session, Used, Working
  <2>2. ~stored' /\ ~closing' /\ ~overtaken' => conn' = NoConn /\ \A b \in Attempts : ~Connects(b)'
    BY <1>2, <1>3, <1>4 DEF Session, Connects
  <2>3. crash' # "none" => \E c, d \in Conns : c # d /\ Used(c)' /\ Used(d)'
    BY <1>2, <1>4 DEF Session, Used
  <2>4. /\ current' = 0 => conn' = NoConn
        /\ (conn' # NoConn => dialled'[conn'] # NoAuth /\ dialled'[conn'] = authID')
    BY <1>2, <1>4 DEF Session, Used
  <2>5. QED
    BY <2>1, <2>2, <2>3, <2>4 DEF Session, Used
<1>8. Between'
  <2>1. ASSUME ~Xai', conn' # NoConn, Working(conn)', handler' = "serving"
        PROVE  \/ Excused(current + 1)'
               \/ /\ current' \notin failed'
                  /\ dialled'[conn'] = auth'[current'] \/ conn' \in unpinned'
    <3>1. conn' = mine[a] /\ Working(mine[a])
      BY <1>2, <1>4, <2>1 DEF Working
    <3>2. <<a, mine[a]>> \notin late
      BY <1>2, <3>1 DEF Session
    <3>3. ~Xai /\ (dialled[mine[a]] = auth[a] \/ mine[a] \in unpinned \/ Excused(a))
      BY <1>2, <1>4, <2>1, <3>2 DEF OfAttempt, Credential, Xai
    <3>4. Excused(a) => Excused(a + 1)'
      BY <1>2, <1>4 DEF Excused, Typed, Attempts
    <3>5. a \notin failed' \/ Excused(a + 1)'
      BY <1>4, <2>1, <3>1, <3>3
    <3>6. (current + 1)' = a + 1
      BY <1>1, <1>4
    <3>7. Excused(a + 1)' => Excused(current + 1)'
      BY <3>6 DEF Excused
    <3>8. QED
      BY <1>1, <1>4, <3>1, <3>3, <3>4, <3>5, <3>7
  <2>2. QED
    BY <2>1 DEF Between
<1>9. OfAttempt(a)'
  <2>1. Turn(a)'
    BY <1>1, <1>3, <1>4 DEF Turn, Settled, Attempts
  <2>2. Connection(a)' /\ Told(a)' /\ Credential(a)'
    BY <1>2, <1>3, <1>4 DEF OfAttempt, Connection, Told, Credential, Linked
  <2>3. Channel(a)'
    BY <1>2, <1>3, <1>4 DEF OfAttempt, Channel, Early, Heard
  <2>4. Answer(a)'
    <3>1. \A m \in Items(a)' : /\ m \in Items(a) /\ m.of \in Attempts
                             /\ (at[m.of] \in Sent => at'[m.of] \in Sent)
      BY <1>2, <1>5, TypeFacts DEF Grows
    <3>2. Answer(a) /\ (Excused(a) => Excused(a)') /\ at[a] \in Linked
      BY <1>2, <1>4 DEF OfAttempt, Excused, Linked
    <3>3. QED
      BY <1>4, <3>1, <3>2 DEF Answer, Waiting, Used, Working
  <2>5. QED
    BY <2>1, <2>2, <2>3, <2>4 DEF OfAttempt
<1>10. QED
  BY <1>3, <1>6, <1>7, <1>8, <1>9, QuietStepKeeps DEF Sent

\* What a step that is not an attempt's leaves alone.
Apart == /\ UNCHANGED <<executor, handler, current, auth, warm, at, mine, failed, holder, authID,
                        dialled, cut, late, warmed, strayed, unpinned>>
         /\ conn' \in {conn, NoConn} /\ open' \subseteq open /\ (conn' = conn \/ open' = {})
         /\ \A c \in Conns : Working(c)' => Working(c)

LEMMA ApartKeeps ==
  ASSUME Inv, Apart
  PROVE  /\ Between' /\ \A b \in Attempts : Turn(b)' /\ Connection(b)' /\ Credential(b)'
         /\ open' \subseteq {conn'} /\ (current' = 0 => conn' = NoConn)
         /\ (conn # NoConn => Used(conn) /\ dialled[conn] = authID)'
         /\ (\A x \in late : x[2] \in Conns /\ Used(x[2]) /\ ~Working(x[2]))'
         /\ (\A a \in strayed : Excused(a))'
<1>1. Typed /\ Session /\ Between /\ NoConn \notin Conns
  BY TypeFacts DEF Inv
<1>2. conn \in Conns \cup {NoConn}
  BY <1>1 DEF Typed
<1>3. Between'
  BY <1>1, <1>2 DEF Apart, Between, Settled, Excused
<1>4. ASSUME NEW b \in Attempts PROVE Turn(b)' /\ Connection(b)' /\ Credential(b)'
  <2>1. Turn(b) /\ Connection(b) /\ Credential(b)
    BY DEF Inv, OfAttempt
  <2>2. Turn(b)' /\ Connection(b)'
    BY <2>1 DEF Apart, Turn, Connection, Settled, Used
  <2>3. \A c \in Conns : Cover(c, b) => Cover(c, b)'
    BY DEF Apart, Cover, Excused
  <2>4. at[b] = "activate" => mine[b] \in Conns
    BY <2>1 DEF Connection, Linked
  <2>5. at[b] \in {"lock", "connect"} /\ conn' # NoConn => Cover(conn, b)' /\ conn' = conn
    BY <1>2, <2>1, <2>3 DEF Apart, Credential, Cover
  <2>6. at[b] = "activate" => Cover(mine[b], b)'
    BY <2>1, <2>3, <2>4 DEF Apart, Credential, Cover
  <2>7. Credential(b)'
    BY <2>1, <2>5, <2>6 DEF Apart, Credential, Excused, Xai, Cover
  <2>8. QED
    BY <2>2, <2>7
<1>5. /\ open' \subseteq {conn'} /\ (current' = 0 => conn' = NoConn)
      /\ (conn # NoConn => Used(conn) /\ dialled[conn] = authID)'
  BY <1>1, <1>2 DEF Session, Apart, Used
<1>6. /\ (\A x \in late : x[2] \in Conns /\ Used(x[2]) /\ ~Working(x[2]))'
      /\ (\A a \in strayed : Excused(a))'
  BY <1>1 DEF Session, Apart, Used, Excused
<1>7. QED
  BY <1>3, <1>4, <1>5, <1>6

(***************************************************************************)
(* The beginning.                                                          *)
(***************************************************************************)
LEMMA InitRight == Init => Inv
<1> SUFFICES ASSUME Init PROVE Inv
  OBVIOUS
<1>1. Nobody \notin Attempts /\ 0 \in 0..MaxAttempts /\ current = 0
  BY UpstreamAssumption DEF Init, Attempts, Nobody
<1>2. /\ \A a \in Attempts : box[a].items = <<>> /\ ~box[a].closed /\ at[a] = "idle" /\ a > 0
      /\ \A c \in Conns : reader[c].at = "off" /\ wire[c] = <<>> /\ dialled[c] = NoAuth
  BY DEF Init, Reading, Attempts
<1>3. Typed
  <2>1. box \in [Attempts -> Boxes] /\ wire \in [Conns -> Seq(Attempts)]
    BY DEF Init, Boxes
  <2>2. reader \in [Conns -> Loops]
    BY DEF Init, Reading, Loops, Kinds
  <2>3. QED
    BY <1>1, <2>1, <2>2 DEF Init, Typed, Places, Attempts
<1>4. Session /\ Between
  BY <1>1, <1>2 DEF Init, Session, Between, Nobody
<1>5. ASSUME NEW a \in Attempts PROVE OfAttempt(a)
  <2>1. /\ at[a] = "idle" /\ box[a].items = <<>> /\ ~box[a].closed /\ a > 0 /\ a # current
        /\ active # a /\ failed = {} /\ \A c \in Conns : reader[c].at = "off"
    BY <1>1, <1>2, <1>5 DEF Init, Nobody, Attempts
  <2>2. Turn(a) /\ Connection(a) /\ Told(a) /\ Credential(a)
    BY <1>1, <2>1 DEF Turn, Connection, Told, Credential, Linked, Attempts
  <2>3. Channel(a) /\ Answer(a)
    BY <1>1, <2>1, NothingInEmpty DEF Channel, Answer, Early, Linked, Heard, Items, Holding
  <2>4. QED
    BY <2>2, <2>3 DEF OfAttempt
<1>6. ASSUME NEW c \in Conns PROVE OfConnection(c)
  BY <1>2, <1>6, NothingInEmpty DEF OfConnection, Reader, Requests, Used, Holding, Waiting
<1>7. QED
  BY <1>3, <1>4, <1>5, <1>6 DEF Inv

(***************************************************************************)
(* The handler, and whoever closes the session.                            *)
(***************************************************************************)
LEMMA OutsideKeeps ==
  ASSUME Inv, Leave \/ CloseExecutionSession \/ \E k \in Auths : RemoveCredential(k)
  PROVE  Inv'
<1>1. /\ UNCHANGED <<executor, current, auth, warm, provider, link, progress, channel, reader,
                     crash, history>>
      /\ handler' \in {"serving", "left", "closed"} /\ (handler' = "serving" => handler = "serving")
      /\ \/ UNCHANGED store
         \/ stored' = FALSE /\ closing' = TRUE
  BY DEF Inv, Typed, Leave, CloseExecutionSession, RemoveCredential, TakeOut, downstream
<1> USE DEF Inv, provider, link, progress, channel, history
<1>2. Typed'
  BY <1>1 DEF Typed, store
<1>3. Session' /\ Between'
  BY <1>1 DEF Session, Between, store, Used, Working, Connects, Excused, Settled
<1>4. ASSUME NEW a \in Attempts PROVE OfAttempt(a)'
  BY <1>1 DEF OfAttempt, Turn, Connection, Channel, Told, Credential, Cover, Answer, Used, Working,
     Excused, Xai, Items, Waiting, Holding, Settled
<1>5. ASSUME NEW c \in Conns PROVE OfConnection(c)'
  BY <1>1 DEF OfConnection, Reader, Requests, Used, Working, Excused, Waiting, Holding
<1>6. QED
  BY <1>2, <1>3, <1>4, <1>5

LEMMA BeginKeeps ==
  ASSUME Inv, NEW k \in Auths, NEW warmup \in BOOLEAN, Begin(k, warmup)
  PROVE  Inv'
<1>1. PICK n \in Attempts : n = current + 1
  BY UpstreamAssumption DEF Begin, Inv, Typed, Attempts
<1>2. /\ UNCHANGED <<executor, handler, stored, closing, wire, begun, conn, authID, open, dialled,
                     mine, failed, heard, holder, active, box, reader, crash, cut, late, warmed,
                     strayed, overtaken>>
      /\ handler = "serving" /\ stored /\ Idle
      /\ unpinned' = (IF Keeps(k) THEN unpinned \cup {conn} ELSE unpinned)
      /\ warm' = (IF warmup THEN warm \cup {n} ELSE warm) /\ (warmup => Xai)
      /\ current' = n /\ at' = [at EXCEPT ![n] = "lock"] /\ auth' = [auth EXCEPT ![n] = k]
  BY <1>1 DEF Begin, store, provider, link, channel, history
<1>3. /\ Typed /\ Session /\ Between /\ OfAttempt(n) /\ n \in Nat /\ current \in Nat /\ current < n
      /\ (current > 0 => current \in Attempts) /\ (\A b \in Attempts : b \in Nat)
      /\ at[n] = "idle" /\ n \notin failed /\ active # n
  <2>1. Typed /\ Session /\ Between /\ OfAttempt(n) /\ n \in Nat /\ current \in Nat /\ current < n
    BY <1>1 DEF Inv, Typed, Attempts
  <2>2. at[n] = "idle"
    BY <2>1 DEF OfAttempt, Turn
  <2>3. n \notin failed /\ active # n
    BY <2>1, <2>2 DEF OfAttempt, Turn, Channel, Settled, Heard
  <2>4. QED
    BY UpstreamAssumption, <1>1, <2>1, <2>2, <2>3 DEF Typed, Attempts
<1>4. /\ at'[n] = "lock" /\ auth'[n] = k
      /\ \A b \in Attempts : b # n => at'[b] = at[b] /\ auth'[b] = auth[b]
      /\ \A b \in Attempts : b # n =>
           at[b] \in {"idle", "ending", "done", "refused"} /\ (at[b] = "idle" => b > n)
  <2>1. ASSUME NEW b \in Attempts, b # n
        PROVE  at[b] \in {"idle", "ending", "done", "refused"} /\ (at[b] = "idle" => b > n)
    <3>1. Turn(b) /\ b \in Nat
      BY <1>3 DEF Inv, OfAttempt
    <3>2. b > n \/ b = current \/ b < current
      BY <1>1, <1>3, <2>1, <3>1
    <3>3. b = current => Settled(b)
      BY <1>2, <3>1, <1>3 DEF Idle, Attempts
    <3>4. b > n => b > current
      BY <1>3, <3>1
    <3>5. QED
      BY <3>1, <3>2, <3>3, <3>4 DEF Turn, Settled
  <2>2. QED
    BY <1>2, <1>3, <2>1 DEF Typed
<1>5. Grows /\ ReadersStay
  <2>1. \A w \in Attempts : at[w] \in Sent => at'[w] \in Sent
    BY <1>3, <1>4 DEF Sent
  <2>2. QED
    BY <1>2, <2>1 DEF Grows, ReadersStay
<1>6. Typed'
  <2>1. n \in 0..MaxAttempts /\ (conn # NoConn => conn \in Conns)
    BY <1>3 DEF Attempts, Typed
  <2>2. at' \in [Attempts -> Places] /\ auth' \in [Attempts -> Auths \cup {NoAuth}]
    BY <1>2, <1>3 DEF Typed, Places
  <2>3. unpinned' \subseteq Conns
    BY <1>2, <1>3, <2>1 DEF Typed, Keeps
  <2>4. warm' \subseteq Attempts /\ (warm' # {} => Xai) /\ warmed' \subseteq warm'
    BY <1>2, <1>3 DEF Typed
  <2>5. QED
    BY <1>2, <1>3, <2>1, <2>2, <2>3, <2>4 DEF Typed
<1>7. Session' /\ Between'
  <2>1. Past'
    BY <1>2, <1>5, PastStays
  <2>2. current' # 0 /\ ~Settled(current)'
    BY <1>2, <1>3, <1>4 DEF Settled
  <2>3. QED
    BY <1>2, <1>3, <2>1, <2>2 DEF Session, Past, Between, Used
<1>8. OfAttempt(n)'
  <2>1. Turn(n)' /\ Connection(n)' /\ Told(n)'
    BY <1>2, <1>3, <1>4 DEF Turn, Connection, Told, Linked
  <2>2. Channel(n)'
    <3>1. at[n] \in Early /\ Channel(n)
      BY <1>3 DEF OfAttempt, Early
    <3>2. QED
      BY <1>2, <1>3, <1>4, <3>1 DEF Channel, Early, Heard, Holding
  <2>3. Credential(n)'
    <3>1. ASSUME ~Xai, conn # NoConn, Working(conn), ~Excused(n)
          PROVE  dialled[conn] = k \/ conn \in unpinned'
      <4>1. current > 0
        BY <1>3, <3>1 DEF Session
      <4>2. Settled(current) /\ ~Excused(current + 1)
        BY <1>1, <1>2, <3>1, <4>1 DEF Idle
      <4>3. current \notin failed /\ (dialled[conn] = auth[current] \/ conn \in unpinned)
        BY <1>2, <1>3, <3>1, <4>1, <4>2 DEF Between
      <4>4. CASE auth[current] = k
        BY <1>2, <4>3, <4>4
      <4>5. CASE auth[current] # k
        BY <1>2, <3>1, <4>1, <4>3, <4>5 DEF Keeps
      <4>6. QED
        BY <4>4, <4>5
    <3>2. UNCHANGED <<executor, conn, reader, dialled, cut, warmed>>
      BY <1>2
    <3>3. conn # NoConn => Cover(conn, n)'
      BY <1>4, <3>1, <3>2 DEF Cover, Working, Excused
    <3>4. QED
      BY <1>4, <3>2, <3>3 DEF Credential, Linked
  <2>4. Answer(n)'
    <3>1. Items(n)' = {}
      BY <1>2, <1>3, NothingInEmpty DEF OfAttempt, Channel, Early, Items
    <3>2. QED
      BY <1>4, <3>1 DEF Answer, Linked, Heard
  <2>5. QED
    BY <2>1, <2>2, <2>3, <2>4 DEF OfAttempt
<1>9. ASSUME NEW b \in Attempts, b # n PROVE OfAttempt(b)'
  <2>1. /\ at'[b] = at[b] /\ auth'[b] = auth[b] /\ OfAttempt(b) /\ b \in Nat
        /\ at[b] \in {"idle", "ending", "done", "refused"} /\ (at[b] = "idle" => b > n)
    BY <1>3, <1>4, <1>9 DEF Inv
  <2>2. Turn(b)'
    BY <1>2, <1>3, <1>9, <2>1 DEF OfAttempt, Turn, Settled
  <2>3. Connection(b)' /\ Told(b)' /\ Credential(b)'
    BY <1>2, <2>1 DEF OfAttempt, Connection, Told, Credential, Linked
  <2>4. Channel(b)'
    BY <1>2, <2>1 DEF OfAttempt, Channel, Holding
  <2>5. Answer(b)'
    BY <1>2, <1>3, <1>5, <2>1, AnswerStays DEF OfAttempt
  <2>6. QED
    BY <2>2, <2>3, <2>4, <2>5 DEF OfAttempt
<1>10. ASSUME NEW c \in Conns PROVE OfConnection(c)'
  <2>1. OfConnection(c)
        /\ \A w \in Waiting(c) : w \in Attempts /\ w # n /\ at[w] \in Sent /\ Requests(c)
    BY <1>3, TypeFacts DEF Inv, OfConnection, Requests, Sent
  <2>2. Reader(c)'
    <3>1. reader[c].at = "post" => at'[reader[c].of] \in Sent
      BY <1>5, <2>1 DEF OfConnection, Reader, Grows
    <3>2. QED
      BY <1>2, <2>1, <3>1 DEF OfConnection, Reader, Used, Excused, Waiting, Holding
  <2>3. Requests(c)'
    <3>1. ASSUME NEW w \in Waiting(c)
          PROVE at'[w] = at[w] /\ (conn # c \/ ~Working(c) \/ Excused(w + 1))
      <4>1. w \in Attempts /\ w # n /\ at'[w] = at[w]
        BY <1>4, <2>1, <3>1
      <4>2. at[w] # "stream"
        BY <1>4, <4>1
      <4>3. QED
        BY <1>2, <2>1, <3>1, <4>1, <4>2 DEF Requests
    <3>2. QED
      BY <1>2, <2>1, <3>1 DEF OfConnection, Requests, Working, Excused, Waiting
  <2>4. QED
    BY <2>2, <2>3 DEF OfConnection
<1>11. QED
  BY <1>6, <1>7, <1>8, <1>9, <1>10 DEF Inv

(***************************************************************************)
(* ExecuteStream, until the request is sent.                               *)
(***************************************************************************)
LEMMA LockKeeps ==
  ASSUME Inv, NEW a \in Attempts, Lock(a)
  PROVE  Inv'
<1>1. /\ at[a] = "lock" /\ holder = Nobody /\ holder' = a /\ at' = [at EXCEPT ![a] = "connect"]
      /\ conn' \in {conn, NoConn} /\ open' \in {open, open \ {conn}}
      /\ (conn' = NoConn => open' = open \ {conn} \/ conn = NoConn)
      /\ (conn' # NoConn => conn' = conn /\ open' = open /\ (Xai => authID \in {NoAuth, auth[a]}))
      /\ UNCHANGED <<authID, dialled, mine, failed, heard, downstream, store, provider, channel,
                     reader, crash, history>>
  BY DEF Lock, Disconnect, link
<1>2. /\ a = current /\ \A b \in Attempts : b # a => at[b] \in {"idle", "done"}
      /\ a \notin failed
  BY <1>1, Alone
<1>3. /\ Typed /\ Session /\ OfAttempt(a) /\ at'[a] = "connect"
      /\ \A b \in Attempts : b # a => at'[b] = at[b]
      /\ a \in Attempts /\ a # Nobody /\ NoConn \notin Conns
  BY <1>1, TypeFacts DEF Inv, Typed
<1>4. Typed'
  BY <1>1, <1>3 DEF Typed, Places, downstream, store, provider, channel, history
<1>5. Session'
  <2>1. Past'
    BY <1>1, PastStays, <1>3 DEF Grows, ReadersStay, downstream, history, Sent
  <2>2. /\ open' \subseteq {conn'} /\ (current' = 0 => conn' = NoConn)
        /\ conn' # NoConn => dialled'[conn'] # NoAuth /\ dialled'[conn'] = authID'
    BY <1>1, <1>3 DEF Session, downstream, Used
  <2>3. stored' \/ closing' \/ overtaken'
    BY <1>1, <1>3 DEF Session, Connects, store, history
  <2>4. QED
    BY <2>1, <2>2, <2>3 DEF Session, Past, Used
<1>6. Between'
  BY <1>1, <1>2, <1>3 DEF Between, Settled, downstream
<1>7. OfAttempt(a)'
  <2>1. Turn(a)' /\ Connection(a)' /\ Told(a)'
    BY <1>1, <1>2, <1>3 DEF Turn, Connection, Told, Linked, downstream, OfAttempt
  <2>2. Channel(a)' /\ Answer(a)'
    BY <1>1, <1>2, <1>3, NothingInEmpty DEF Channel, Answer, Early, Heard, Linked, Items, Holding,
       OfAttempt, channel
  <2>3. Credential(a)'
    <3>1. ASSUME conn' # NoConn
          PROVE conn' = conn /\ Cover(conn, a) /\ (Xai => dialled[conn] = auth[a])
      BY <1>1, <1>3, <3>1 DEF OfAttempt, Credential, Session, Used
    <3>2. UNCHANGED <<dialled, auth, reader, cut, warmed, unpinned, executor>>
      BY <1>1 DEF downstream, history
    <3>3. conn' # NoConn => Cover(conn, a)' /\ (Xai' => dialled'[conn'] = auth'[a])
      BY <3>1, <3>2 DEF Cover, Working, Excused, Xai
    <3>4. QED
      BY <1>1, <1>3, <3>1, <3>2, <3>3 DEF OfAttempt, Credential, Linked
  <2>4. QED
    BY <2>1, <2>2, <2>3 DEF OfAttempt
<1>8. QuietStep(a)
  BY <1>1, <1>3 DEF QuietStep, Places, downstream, provider, channel, history
<1>9. QED
  BY <1>1, <1>3, <1>4, <1>5, <1>6, <1>7, <1>8, QuietStepKeeps DEF Sent

LEMMA ConnectKeeps ==
  ASSUME Inv, NEW a \in Attempts, Connect(a)
  PROVE  Inv'
<1>1. /\ at[a] \in {"connect", "reconnect"}
      /\ UNCHANGED <<failed, heard, holder, downstream, store, provider, link, channel, reader,
                     crash, history>>
  BY DEF Connect
<1>2. a = current /\ holder = a /\ a \notin failed
      /\ \A b \in Attempts : b # a => at[b] \in {"idle", "done"}
  BY <1>1, Alone
<1>3. /\ Typed /\ Session /\ OfAttempt(a) /\ a # Nobody /\ NoConn \notin Conns
      /\ (conn # NoConn => conn \in Conns /\ at[a] = "connect")
  BY <1>1, TypeFacts DEF Inv, Typed, OfAttempt, Connection
<1>4. \/ /\ conn = NoConn /\ mine' = mine
         /\ at' = [at EXCEPT ![a] = IF at[a] = "connect" THEN "dial" ELSE "redial"]
      \/ /\ conn # NoConn /\ at[a] = "connect" /\ mine' = [mine EXCEPT ![a] = conn]
         /\ at' = [at EXCEPT ![a] = "activate"]
  BY <1>1, <1>3 DEF Connect, Typed
<1>5. /\ \A b \in Attempts : b # a => at'[b] = at[b] /\ mine'[b] = mine[b]
      /\ \/ conn = NoConn /\ mine'[a] = mine[a]
            /\ (at'[a] = IF at[a] = "connect" THEN "dial" ELSE "redial")
         \/ conn # NoConn /\ at[a] = "connect" /\ mine'[a] = conn /\ at'[a] = "activate"
  BY <1>3, <1>4 DEF Typed
<1>6. Typed' /\ QuietStep(a)
  <2>1. \E place \in Places : at' = [at EXCEPT ![a] = place]
    BY <1>4 DEF Places
  <2>2. at' \in [Attempts -> Places] /\ mine' \in [Attempts -> Conns \cup {NoConn}]
        /\ (mine' = mine \/ (at[a] = "connect" /\ mine' = [mine EXCEPT ![a] = conn]))
    BY <1>3, <1>4, <2>1 DEF Typed
  <2>3. Typed'
    BY <1>1, <1>3, <2>2 DEF Typed, downstream, store, provider, link, channel, history
  <2>4. \A c \in Conns : \A w \in Waiting(c) : at[w] = "stream" => at'[w] = "stream"
    BY <1>1, <1>3, <1>5, TypeFacts
  <2>5. QED
    BY <1>1, <2>1, <2>2, <2>3, <2>4 DEF QuietStep, downstream, provider, channel, link, history
<1>7. Session'
  <2>1. Past'
    BY <1>1, <1>5, PastStays DEF Grows, ReadersStay, downstream, link, history, Sent
  <2>2. stored' \/ closing' \/ overtaken'
    BY <1>1, <1>3 DEF Session, Connects, store, history
  <2>3. QED
    BY <1>1, <1>3, <2>1, <2>2 DEF Session, Past, link, downstream, Used
<1>8. Between'
  BY <1>1, <1>2, <1>5 DEF Between, Settled, downstream
<1>9. OfAttempt(a)'
  <2>1. Turn(a)' /\ Told(a)' /\ at'[a] \in {"dial", "redial", "activate"}
    BY <1>1, <1>2, <1>3, <1>5 DEF Turn, Told, downstream, OfAttempt
  <2>2. Connection(a)'
    BY <1>1, <1>3, <1>5 DEF Connection, Linked, Session, Used, link
  <2>3. Channel(a)'
    BY <1>1, <1>3, <1>5 DEF Channel, Early, Heard, Holding, OfAttempt, channel
  <2>4. Credential(a)'
    <3>1. ASSUME at'[a] = "activate"
          PROVE mine'[a] = conn /\ Cover(conn, a) /\ (Xai => dialled[conn] = auth[a])
      BY <1>3, <1>5, <3>1 DEF OfAttempt, Credential
    <3>2. UNCHANGED <<dialled, auth, reader, cut, warmed, unpinned, executor>>
      BY <1>1 DEF downstream, history, link
    <3>3. at'[a] = "activate" => Cover(mine[a], a)' /\ (Xai' => dialled'[mine'[a]] = auth'[a])
      BY <3>1, <3>2 DEF Cover, Working, Excused, Xai
    <3>4. QED
      BY <1>1, <1>3, <2>1, <3>2, <3>3 DEF OfAttempt, Credential, Linked
  <2>5. Answer(a)'
    <3>1. CASE at[a] = "reconnect"
      <4>1. at'[a] = "redial" /\ mine'[a] = mine[a] /\ Answer(a)
        BY <1>3, <1>5, <3>1 DEF OfAttempt
      <4>2. \A w \in Attempts : at[w] \in Sent => at'[w] \in Sent
        BY <1>5, <3>1 DEF Sent
      <4>3. UNCHANGED <<box, reader, dialled, wire, cut, warmed, unpinned>>
        BY <1>1 DEF channel, link, provider, history
      <4>4. \A m \in Items(a) : m.of \in Attempts
        BY <1>3, TypeFacts
      <4>5. QED
        BY <3>1, <4>1, <4>2, <4>3, <4>4 DEF Answer, Items, Waiting, Used, Working, Excused, Heard
    <3>2. CASE at[a] = "connect"
      <4>1. Items(a)' = {}
        BY <1>1, <1>3, <3>2, NothingInEmpty DEF OfAttempt, Channel, Early, Items, channel
      <4>2. ASSUME conn \in Conns, NEW w \in Waiting(conn), w # a PROVE ~Working(conn) \/ Excused(a)
        <5>1. w \in Attempts /\ Requests(conn) /\ Turn(w)
          BY <1>3, <4>2, TypeFacts DEF Inv, OfAttempt, OfConnection
        <5>2. w < a /\ w \in Nat /\ a \in Nat
          BY <1>2, <4>2, <5>1 DEF Requests, Turn, Sent, Typed, Attempts
        <5>3. ~Working(conn) \/ Excused(w + 1)
          BY <1>2, <4>2, <5>1, <5>2 DEF Requests
        <5>4. Excused(w + 1) => Excused(a)
          BY <1>3, <5>2 DEF Excused, Typed, Attempts
        <5>5. QED
          BY <5>3, <5>4
      <4>3. UNCHANGED <<reader, wire, cut, warmed, unpinned>>
        BY <1>1 DEF provider, history
      <4>4. ASSUME at'[a] = "activate", NEW w \in Attempts, mine'[a] \in Conns,
                   w \in Waiting(mine[a])'
            PROVE  w = a \/ ~Working(mine[a])' \/ Excused(a)'
        BY <1>5, <3>2, <4>2, <4>3, <4>4 DEF Waiting, Working, Excused
      <4>5. at'[a] \in {"dial", "activate"}
        BY <1>5, <3>2
      <4>6. QED
        BY <4>1, <4>4, <4>5 DEF Answer, Linked, Heard
    <3>3. QED
      BY <1>1, <3>1, <3>2
  <2>6. QED
    BY <2>1, <2>2, <2>3, <2>4, <2>5 DEF OfAttempt
<1>10. QED
  BY <1>1, <1>6, <1>7, <1>8, <1>9, QuietStepKeeps DEF Sent

LEMMA DialEndsKeeps ==
  ASSUME Inv, NEW a \in Attempts, DialFails(a) \/ DialRefused(a)
  PROVE  Inv'
<1>1. /\ at[a] \in {"dial", "redial"}
      /\ \/ at' = [at EXCEPT ![a] = "done"] /\ holder' = Nobody /\ active' \in {active, Nobody}
            /\ active' # a
         \/ at[a] = "dial" /\ at' = [at EXCEPT ![a] = "refused"] /\ holder' = holder
            /\ active' = active
      /\ failed' \subseteq failed \cup {a}
      /\ UNCHANGED <<mine, heard, box, downstream, store, provider, link, reader, crash, history>>
  BY TypeFacts DEF DialFails, DialRefused, Finish, Clear, channel, Inv
<1>2. a = current /\ holder = a /\ a \notin failed
      /\ \A b \in Attempts : b # a => at[b] \in {"idle", "done"}
  BY <1>1, Alone
<1>3. /\ Typed /\ Session /\ OfAttempt(a) /\ a # Nobody /\ conn = NoConn /\ at[a] \notin Sent
      /\ (at[a] = "dial" => active # a)
  BY <1>1, TypeFacts DEF Inv, OfAttempt, Connection, Channel, Heard, Sent
<1>4. /\ \A b \in Attempts : b # a => at'[b] = at[b]
      /\ at'[a] \in {"done", "refused"} /\ (at'[a] = "refused" => holder' = a)
      /\ active' # a /\ active' \in {active, Nobody} /\ holder' \in {a, Nobody}
  BY <1>1, <1>2, <1>3 DEF Typed
<1>5. Grows /\ ReadersStay
  BY <1>1, <1>3, <1>4 DEF Grows, ReadersStay, downstream, link, history
<1>6. Typed' /\ QuietStep(a)
  <2>1. \E place \in Places : at' = [at EXCEPT ![a] = place]
    BY <1>1 DEF Places
  <2>2. at' \in [Attempts -> Places] /\ holder' \in Attempts \cup {Nobody}
        /\ active' \in Attempts \cup {Nobody}
    BY <1>3, <1>4, <2>1 DEF Typed
  <2>3. Typed'
    BY <1>1, <1>3, <2>2 DEF Typed, downstream, store, provider, link, history
  <2>4. \A c \in Conns : \A w \in Waiting(c) : at[w] = "stream" => at'[w] = "stream"
    BY <1>1, <1>3, <1>4, TypeFacts
  <2>5. QED
    BY <1>1, <1>4, <2>1, <2>3, <2>4 DEF QuietStep, downstream, provider, link, history
<1>7. Session' /\ Between'
  <2>1. Past'
    BY <1>1, <1>5, PastStays DEF history
  <2>2. stored' \/ closing' \/ overtaken'
    BY <1>1, <1>3 DEF Session, Connects, store, history
  <2>3. QED
    BY <1>1, <1>3, <2>1, <2>2 DEF Session, Past, link, downstream, Between
<1>8. OfAttempt(a)'
  <2>1. Connection(a)' /\ Told(a)' /\ Credential(a)'
    BY <1>1, <1>3, <1>4 DEF OfAttempt, Connection, Told, Credential, Linked, link, downstream
  <2>2. Turn(a)'
    BY <1>1, <1>2, <1>4 DEF Turn, Settled, downstream, Attempts
  <2>3. Channel(a)'
    BY <1>4 DEF Channel, Early, Heard
  <2>4. Answer(a)'
    BY <1>1, <1>3, <1>4, <1>5, AnswerStays DEF OfAttempt, Linked, Heard, provider, link
  <2>5. QED
    BY <2>1, <2>2, <2>3, <2>4 DEF OfAttempt
<1>9. QED
  BY <1>1, <1>3, <1>6, <1>7, <1>8, QuietStepKeeps DEF Sent

LEMMA SetActiveKeeps ==
  ASSUME Inv, NEW a \in Attempts, SetActive(a)
  PROVE  Inv'
<1>1. /\ at[a] = "activate" /\ at' = [at EXCEPT ![a] = "write"] /\ active' = a
      /\ late' = (IF Working(mine[a]) THEN late ELSE late \cup {<<a, mine[a]>>})
      /\ UNCHANGED <<mine, failed, heard, holder, box, downstream, store, provider, link, reader,
                     crash, cut, warmed, strayed, unpinned, overtaken>>
  BY DEF SetActive, Working
<1>2. a = current /\ holder = a /\ a \notin failed
      /\ \A b \in Attempts : b # a => at[b] \in {"idle", "done"}
  BY <1>1, Alone
<1>3. /\ Typed /\ Session /\ OfAttempt(a) /\ a # Nobody /\ at[a] \notin Sent
      /\ mine[a] \in Conns /\ Used(mine[a])
  BY <1>1, TypeFacts DEF Inv, OfAttempt, Connection, Linked, Sent
<1>4. at'[a] = "write" /\ \A b \in Attempts : b # a => at'[b] = at[b]
  BY <1>1, <1>3 DEF Typed
<1>5. Grows /\ ReadersStay
  BY <1>1, <1>3, <1>4 DEF Grows, ReadersStay, downstream, link
<1>6. Typed' /\ QuietStep(a)
  <2>1. at' \in [Attempts -> Places] /\ late' \subseteq Attempts \X (Conns \cup {NoConn})
    BY <1>1, <1>3 DEF Typed, Places
  <2>2. Typed'
    BY <1>1, <1>3, <2>1 DEF Typed, downstream, store, provider, link
  <2>3. \A c \in Conns : \A w \in Waiting(c) : at[w] = "stream" => at'[w] = "stream"
    BY <1>1, <1>3, <1>4, TypeFacts
  <2>4. QED
    BY <1>1, <2>2, <2>3 DEF QuietStep, downstream, provider, link, Places
<1>7. Session' /\ Between'
  <2>1. \A x \in late' : x \in late \/ (x = <<a, mine[a]>> /\ ~Working(mine[a]))
    <3>1. late' = late \/ (~Working(mine[a]) /\ late' = late \cup {<<a, mine[a]>>})
      BY <1>1
    <3>2. QED
      BY <3>1
  <2>2. \A x \in late' : x[2] \in Conns /\ Used(x[2])' /\ ~Working(x[2])'
    BY <1>1, <1>3, <2>1 DEF Session, Used, Working, link
  <2>3. stored' \/ closing' \/ overtaken'
    BY <1>1, <1>3 DEF Session, Connects, store
  <2>4. Between'
    BY <1>1, <1>2, <1>4 DEF Between, Settled, downstream
  <2>5. QED
    BY <1>1, <1>3, <2>2, <2>3, <2>4 DEF Session, link, downstream, Used, Excused
<1>8. OfAttempt(a)'
  <2>1. Turn(a)' /\ Connection(a)'
    BY <1>1, <1>2, <1>3, <1>4 DEF OfAttempt, Turn, Connection, Linked, downstream, link, Used
  <2>2. Channel(a)' /\ Told(a)'
    BY <1>1, <1>3, <1>4 DEF OfAttempt, Channel, Early, Heard, Told, Working
  <2>3. Credential(a)'
    <3>1. Cover(mine[a], a) /\ (Xai => dialled[mine[a]] = auth[a]) /\ auth[a] \in Auths
      BY <1>1, <1>3 DEF OfAttempt, Credential, Linked
    <3>2. /\ UNCHANGED <<dialled, auth, cut, warmed, unpinned, executor>>
          /\ Working(mine[a]) \/ <<a, mine[a]>> \in late'
      BY <1>1 DEF downstream, link
    <3>3. \/ Xai' \/ dialled'[mine'[a]] = auth'[a] \/ mine'[a] \in unpinned'
          \/ <<a, mine'[a]>> \in late' \/ Excused(a)'
      BY <1>1, <3>1, <3>2 DEF Cover, Excused
    <3>4. QED
      BY <1>1, <1>4, <3>1, <3>2, <3>3 DEF Credential, Xai
  <2>4. Answer(a)'
    BY <1>1, <1>3, <1>4, <1>5, AnswerStays DEF OfAttempt, Linked, Heard, provider, link
  <2>5. QED
    BY <2>1, <2>2, <2>3, <2>4 DEF OfAttempt
<1>9. QED
  BY <1>1, <1>3, <1>6, <1>7, <1>8, QuietStepKeeps DEF Sent

LEMMA InstallKeeps ==
  ASSUME Inv, NEW a \in Attempts, NEW c \in Conns, Install(a, c)
  PROVE  Inv'
<1>1. /\ at[a] \in {"dial", "redial"} /\ ~Used(c)
      /\ at' = [at EXCEPT ![a] = IF at[a] = "dial" THEN "activate" ELSE "rewrite"]
      /\ mine' = [mine EXCEPT ![a] = c] /\ conn' = c /\ authID' = auth[a]
      /\ reader' = [reader EXCEPT ![c] = Reading] /\ open' = open \cup {c}
      /\ dialled' = [dialled EXCEPT ![c] = auth[a]]
      /\ UNCHANGED <<failed, heard, holder, downstream, store, provider, channel, crash, history>>
  BY DEF Install, Inv, Typed, Used
<1>2. a = current /\ holder = a /\ a \notin failed
      /\ \A b \in Attempts : b # a => at[b] \in {"idle", "done"}
  BY <1>1, Alone
<1>3. /\ Typed /\ Session /\ OfAttempt(a) /\ OfConnection(c) /\ a # Nobody /\ c # NoConn
      /\ at[a] \notin Sent
      /\ conn = NoConn /\ open = {} /\ auth[a] \in Auths /\ auth[a] # NoAuth
      /\ reader[c].at = "off" /\ wire[c] = <<>>
  BY <1>1, TypeFacts DEF Inv, OfAttempt, OfConnection, Connection, Credential, Reader, Session,
     Typed, Sent
<1>4. /\ at'[a] = (IF at[a] = "dial" THEN "activate" ELSE "rewrite") /\ mine'[a] = c
      /\ dialled'[c] = auth[a]
      /\ \A b \in Attempts : b # a => at'[b] = at[b] /\ mine'[b] = mine[b]
      /\ reader'[c] = Reading
      /\ \A d \in Conns : d # c => reader'[d] = reader[d] /\ dialled'[d] = dialled[d]
  BY <1>1, <1>3 DEF Typed
<1>5. Grows /\ ReadersStay
  <2>1. \A w \in Attempts : at[w] \in Sent => at'[w] \in Sent
    BY <1>3, <1>4
  <2>2. reader'[c].at = "read"
    BY <1>4 DEF Reading
  <2>3. QED
    BY <1>1, <1>4, <2>1, <2>2 DEF Grows, ReadersStay, downstream, history
<1>6. Typed'
  <2>1. \E place \in Places : at' = [at EXCEPT ![a] = place]
    BY <1>1 DEF Places
  <2>2. Reading \in Loops
    BY DEF Reading, Loops, Kinds
  <2>3. /\ at' \in [Attempts -> Places] /\ mine' \in [Attempts -> Conns \cup {NoConn}]
        /\ reader' \in [Conns -> Loops] /\ dialled' \in [Conns -> Auths \cup {NoAuth}]
    BY <1>1, <1>3, <2>1, <2>2 DEF Typed
  <2>4. QED
    BY <1>1, <1>3, <2>3 DEF Typed, downstream, store, provider, channel, history
<1>7. Session' /\ Between'
  <2>1. Past'
    BY <1>1, <1>5, PastStays DEF history
  <2>2. stored' \/ closing' \/ overtaken'
    BY <1>1, <1>3 DEF Session, Connects, store, history
  <2>3. Used(conn)'
    BY <1>1, <1>3, <1>4 DEF Used
  <2>4. current' > 0 /\ ~Settled(current)'
    BY <1>1, <1>2, <1>4 DEF Settled, downstream, Attempts
  <2>5. QED
    BY <1>1, <1>2, <1>3, <1>4, <2>1, <2>2, <2>3, <2>4 DEF Session, Past, Between, downstream
<1>8. OfAttempt(a)'
  <2>1. at'[a] \in {"activate", "rewrite"} /\ Used(c)' /\ Working(c)'
    BY <1>3, <1>4 DEF Used, Working, Reading
  <2>2. Turn(a)'
    BY <1>1, <1>2, <2>1 DEF Turn, downstream, Attempts
  <2>3. Connection(a)' /\ Told(a)'
    BY <1>1, <1>4, <2>1 DEF Connection, Told, Linked, Used, Working
  <2>4. Channel(a)'
    <3>1. Channel(a) /\ \A d \in Conns : Holding(d)' => Holding(d) /\ reader'[d] = reader[d]
      BY <1>3, <1>4 DEF OfAttempt, Holding, Reading
    <3>2. QED
      BY <1>1, <1>4, <3>1 DEF Channel, Heard, Early, channel
  <2>5. Credential(a)'
    BY <1>1, <1>3, <1>4, <2>1 DEF Credential, Cover, Linked, downstream
  <2>6. Answer(a)'
    <3>1. Items(a)' = Items(a) /\ Answer(a)
      BY <1>1, <1>3 DEF OfAttempt, Items, channel
    <3>2. ASSUME NEW m \in Items(a)
          PROVE  /\ m.conn # c /\ m.conn \in Conns /\ Used(m.conn)'
                 /\ reader'[m.conn] = reader[m.conn]
                 /\ m.of \in Attempts /\ (at[m.of] \in Sent => at'[m.of] \in Sent)
      <4>1. Used(m.conn) /\ m.conn \in Conns /\ m.of \in Attempts
        BY <1>3, <3>1, <3>2, TypeFacts DEF Answer
      <4>2. QED
        BY <1>1, <1>4, <1>5, <4>1 DEF Used, Grows
    <3>3. wire' = wire /\ \A w \in Attempts : w \notin Waiting(c)
      BY <1>1, <1>3, NothingInEmpty DEF provider, Waiting
    <3>4. QED
      BY <1>4, <3>1, <3>2, <3>3 DEF Answer, Waiting
  <2>7. QED
    BY <2>2, <2>3, <2>4, <2>5, <2>6 DEF OfAttempt
<1>9. ASSUME NEW b \in Attempts, b # a PROVE OfAttempt(b)'
  <2>1. /\ \A d \in Conns : Waiting(d)' = Waiting(d)
        /\ current' = current /\ auth' = auth /\ box' = box /\ failed' = failed /\ active' = active
    BY <1>1 DEF Waiting, provider, downstream, channel
  <2>2. QED
    BY <1>2, <1>4, <1>5, <1>9, <2>1, OthersStay
<1>10. ASSUME NEW d \in Conns PROVE OfConnection(d)'
  <2>1. \/ reader'[d] = reader[d]
        \/ ~Used(d) /\ Used(d)' /\ reader'[d].at = "read"
    BY <1>1, <1>3, <1>4 DEF Used, Reading
  <2>2. \A w \in Attempts : \/ mine'[w] = mine[w]
                            \/ at[w] \notin Sent /\ (Holding(d) /\ reader[d].to = w => mine'[w] # d)
    BY <1>3, <1>4 DEF Holding
  <2>3. \A w \in Waiting(d) : at[w] = "stream" => at'[w] = "stream"
    BY <1>1, <1>3, <1>4, TypeFacts
  <2>4. wire'[d] = wire[d] /\ current' = current /\ handler' = handler /\ box' = box
    BY <1>1 DEF provider, downstream, channel
  <2>5. QED
    BY <1>1, <1>5, <1>10, <2>1, <2>2, <2>3, <2>4, ConnectionsStay
<1>11. QED
  BY <1>6, <1>7, <1>8, <1>9, <1>10 DEF Inv

LEMMA WriteFailsKeeps ==
  ASSUME Inv, NEW a \in Attempts, WriteFails(a)
  PROVE  Inv'
<1>1. /\ \/ at[a] = "write" /\ at' = [at EXCEPT ![a] = "reconnect"] /\ failed' = failed
            /\ holder' = holder /\ active' = active
         \/ /\ at[a] = "rewrite" /\ at' = [at EXCEPT ![a] = "done"] /\ holder' = Nobody
            /\ failed' = failed \cup {a}
            /\ active' \in {active, Nobody} /\ active' # a
      /\ Invalidate(mine[a])
      /\ UNCHANGED <<mine, heard, box, downstream, store, provider, reader, crash, history>>
  BY TypeFacts DEF WriteFails, Finish, Clear, Inv
<1>2. a = current /\ holder = a /\ a \notin failed
      /\ \A b \in Attempts : b # a => at[b] \in {"idle", "done"}
  BY <1>1, Alone
<1>3. /\ Typed /\ Session /\ OfAttempt(a) /\ a # Nobody /\ at[a] \notin Sent
      /\ conn \in {mine[a], NoConn} /\ mine[a] \in Conns /\ NoConn \notin Conns
  BY <1>1, TypeFacts DEF Inv, OfAttempt, Connection, Linked, Sent
<1>4. /\ conn' = NoConn /\ open' = {} /\ UNCHANGED <<authID, dialled>>
      /\ \A b \in Attempts : b # a => at'[b] = at[b]
      /\ \/ at[a] = "write" /\ at'[a] = "reconnect" /\ holder' = a /\ failed' = failed
            /\ active' = active
         \/ at[a] = "rewrite" /\ at'[a] = "done" /\ active' # a /\ active' \in {active, Nobody}
            /\ holder' = Nobody
  <2>1. conn' = NoConn /\ UNCHANGED <<authID, dialled>> /\ open' \subseteq open
        /\ (conn = mine[a] => open' = open \ {conn})
        /\ (conn = NoConn => open' = open)
    BY <1>1, <1>3 DEF Invalidate, link
  <2>2. open' = {}
    BY <1>3, <2>1 DEF Session, Typed
  <2>3. QED
    BY <1>1, <1>2, <1>3, <2>1, <2>2 DEF Typed
<1>5. Grows /\ ReadersStay
  BY <1>1, <1>3, <1>4 DEF Grows, ReadersStay, downstream, history
<1>6. Typed' /\ QuietStep(a)
  <2>1. \E place \in Places : at' = [at EXCEPT ![a] = place]
    BY <1>1 DEF Places
  <2>2. /\ at' \in [Attempts -> Places] /\ holder' \in Attempts \cup {Nobody}
        /\ active' \in Attempts \cup {Nobody}
    BY <1>1, <1>3, <2>1 DEF Typed
  <2>3. Typed'
    BY <1>1, <1>3, <1>4, <2>2 DEF Typed, downstream, store, provider, history
  <2>4. \A c \in Conns : \A w \in Waiting(c) : at[w] = "stream" => at'[w] = "stream"
    BY <1>1, <1>3, <1>4, TypeFacts
  <2>5. failed' \subseteq failed \cup {a} /\ active' \in {active, a, Nobody}
    BY <1>1
  <2>6. QED
    BY <1>1, <1>4, <2>1, <2>3, <2>4, <2>5 DEF QuietStep, downstream, provider, history
<1>7. Session' /\ Between'
  <2>1. Past'
    BY <1>1, <1>5, PastStays DEF history
  <2>2. ~stored' /\ ~closing' /\ ~overtaken' => \A b \in Attempts : ~Connects(b)'
    BY <1>1, <1>3, <1>4 DEF Session, Connects, store, history
  <2>3. QED
    BY <1>4, <2>1, <2>2 DEF Session, Past, Between
<1>8. OfAttempt(a)'
  <2>1. Turn(a)'
    BY <1>1, <1>2, <1>4 DEF Turn, Settled, downstream, Attempts
  <2>2. Connection(a)' /\ Told(a)' /\ Credential(a)'
    BY <1>1, <1>3, <1>4 DEF OfAttempt, Connection, Told, Credential, Linked, downstream
  <2>3. Channel(a)'
    BY <1>1, <1>3, <1>4 DEF OfAttempt, Channel, Early, Heard
  <2>4. Answer(a)'
    <3>1. UNCHANGED <<box, mine, wire, reader, dialled>>
      BY <1>1, <1>4 DEF provider
    <3>2. at[a] \in Linked
      BY <1>1 DEF Linked
    <3>3. QED
      BY <1>3, <1>5, <3>1, <3>2, AnswerStays DEF OfAttempt
  <2>5. QED
    BY <2>1, <2>2, <2>3, <2>4 DEF OfAttempt
<1>9. QED
  BY <1>1, <1>3, <1>6, <1>7, <1>8, QuietStepKeeps DEF Sent

LEMMA WriteKeeps ==
  ASSUME Inv, NEW a \in Attempts, Write(a)
  PROVE  Inv'
<1>1. /\ at[a] \in {"write", "rewrite"} /\ mine[a] \in open /\ at' = [at EXCEPT ![a] = "stream"]
      /\ wire' = [wire EXCEPT ![mine[a]] = Append(wire[mine[a]], a)]
      /\ UNCHANGED <<mine, failed, heard, holder, downstream, store, begun, link, channel, reader,
                     crash, history>>
  BY DEF Write, Inv, Typed
<1>2. a = current /\ holder = a /\ a \notin failed
      /\ \A b \in Attempts : b # a => at[b] \in {"idle", "done"}
  BY <1>1, Alone
<1>3. mine[a] \in Conns
  BY <1>1 DEF Inv, Typed
<1>4. PICK c \in Conns : c = mine[a]
  BY <1>3
<1>5. /\ Typed /\ Session /\ OfAttempt(a) /\ a # Nobody /\ at[a] \notin Sent
      /\ c \in Conns /\ conn = c /\ Used(c) /\ OfConnection(c)
  BY <1>1, <1>4, TypeFacts DEF Inv, OfAttempt, Connection, Linked, Sent, Session, Typed
<1>6. at'[a] = "stream" /\ \A b \in Attempts : b # a => at'[b] = at[b]
  BY <1>1, <1>5 DEF Typed
<1>7. Grows /\ ReadersStay
  BY <1>1, <1>5, <1>6 DEF Grows, ReadersStay, downstream, link, history
<1>8. /\ wire'[c] = Append(wire[c], a) /\ wire'[c] \in Seq(Attempts)
      /\ \A d \in Conns : d # c => wire'[d] = wire[d]
      /\ \A w \in Waiting(c)' : w \in Waiting(c) \/ w = a
  <2>1. wire'[c] = Append(wire[c], a) /\ \A d \in Conns : d # c => wire'[d] = wire[d]
    BY <1>1, <1>5, <1>4 DEF Typed
  <2>2. wire[c] \in Seq(Attempts)
    BY <1>5, TypeFacts
  <2>3. QED
    BY <2>1, <2>2, AppendFacts DEF Waiting
<1>9. \A d \in Conns : \A w \in Waiting(d)' : w \in Waiting(d) \/ (w = a /\ at[a] \notin Sent)
  BY <1>5, <1>8 DEF Waiting
<1>10. a \notin Waiting(c)
  BY <1>5 DEF OfConnection, Requests
<1>11. Typed'
  <2>1. at' \in [Attempts -> Places]
    BY <1>1, <1>5 DEF Typed, Places
  <2>2. wire' \in [Conns -> Seq(Attempts)]
    BY <1>1, <1>5, <1>8, <1>4 DEF Typed
  <2>3. QED
    BY <1>1, <1>5, <2>1, <2>2 DEF Typed, downstream, store, link, channel, history
<1>12. Session' /\ Between'
  <2>1. Past'
    BY <1>1, <1>7, PastStays DEF history
  <2>2. ~stored' /\ ~closing' /\ ~overtaken' => conn' = NoConn /\ \A b \in Attempts : ~Connects(b)'
    BY <1>1, <1>5, <1>6 DEF Session, Connects, store, history, link
  <2>3. current' > 0 /\ ~Settled(current)'
    BY <1>1, <1>2, <1>6 DEF Settled, downstream, Attempts
  <2>4. QED
    BY <1>1, <1>5, <2>1, <2>2, <2>3 DEF Session, Past, Between, downstream, link, Used
<1>13. OfAttempt(a)'
  <2>1. Turn(a)'
    BY <1>1, <1>2, <1>6 DEF Turn, downstream, Attempts
  <2>2. Connection(a)' /\ Told(a)'
    BY <1>1, <1>5, <1>6 DEF OfAttempt, Connection, Told, Linked, downstream, link, Used, Working,
       channel, history
  <2>3. Credential(a)'
    BY <1>1, <1>5, <1>6 DEF OfAttempt, Credential, Linked, downstream, link, history, Excused, Xai
  <2>4. Channel(a)'
    BY <1>1, <1>5, <1>6 DEF OfAttempt, Channel, Early, Heard, channel
  <2>5. Answer(a)'
    <3>1. Items(a)' = Items(a) /\ Answer(a)
      BY <1>1, <1>5 DEF OfAttempt, Items, channel
    <3>2. ASSUME NEW m \in Items(a), m.kind \in {"end", "error"} PROVE m.of \notin Waiting(m.conn)'
      <4>1. m.conn \in Conns /\ m.of # a /\ m.of \notin Waiting(m.conn)
        BY <1>5, <3>1, <3>2, TypeFacts DEF Answer
      <4>2. QED
        BY <1>9, <4>1
    <3>3. \A m \in Items(a) : m.of \in Attempts /\ (at[m.of] \in Sent => at'[m.of] \in Sent)
      BY <1>5, <1>7, TypeFacts DEF Grows
    <3>4. ASSUME NEW w \in Attempts, w \in Waiting(c)' PROVE w = a \/ ~Working(c) \/ Excused(a)
      BY <1>1, <1>5, <1>8, <1>4, <3>1, <3>4 DEF Answer, Linked
    <3>5. UNCHANGED <<reader, dialled, cut, warmed, unpinned, mine>>
      BY <1>1 DEF link, history
    <3>6. \A w \in Attempts : mine'[a] \in Conns /\ w \in Waiting(mine[a])' =>
            w = a \/ ~Working(mine[a])' \/ Excused(a)'
      BY <1>4, <3>4, <3>5 DEF Working, Excused, Waiting
    <3>7. \A m \in Items(a)' :
       /\ Used(m.conn)'
       /\ m.kind = "lost" => reader'[m.conn].at \in {"leave", "off"}
       /\ m.kind # "lost" => at'[m.of] \in Sent
       /\ m.conn = mine'[a] /\ m.of # a => Excused(a)'
      BY <3>1, <3>3, <3>5 DEF Answer, Used, Excused
    <3>8. QED
      BY <3>1, <3>2, <3>6, <3>7 DEF Answer
  <2>6. QED
    BY <2>1, <2>2, <2>3, <2>4, <2>5 DEF OfAttempt
<1>14. ASSUME NEW b \in Attempts, b # a PROVE OfAttempt(b)'
  <2>1. UNCHANGED <<current, auth, mine, box, failed, active>>
    BY <1>1 DEF downstream, channel
  <2>2. QED
    BY <1>2, <1>6, <1>7, <1>9, <1>14, <2>1, OthersStay
<1>15. ASSUME NEW d \in Conns, d # c PROVE OfConnection(d)'
  <2>1. UNCHANGED <<conn, current, handler, box, mine, reader>> /\ wire'[d] = wire[d]
    BY <1>1, <1>8, <1>15 DEF downstream, channel, link
  <2>2. \A w \in Attempts : at[w] = "stream" => at'[w] = "stream"
    BY <1>6
  <2>3. \A w \in Waiting(d) : at[w] = "stream" => at'[w] = "stream"
    BY <1>5, <2>2, TypeFacts
  <2>4. QED
    BY <1>7, <1>15, <2>1, <2>3, ConnectionsStay
<1>16. OfConnection(c)'
  <2>1. /\ Reader(c) /\ Requests(c)
        /\ UNCHANGED <<reader, dialled, box, mine, conn, cut, warmed, unpinned, handler, current>>
    BY <1>1, <1>5 DEF OfConnection, link, history, downstream, channel
  <2>2. Reader(c)'
    <3>1. Used(c)' /\ (\E d \in Conns \ {c} : Used(d)) = (\E d \in Conns \ {c} : Used(d))'
      BY <1>5, <2>1 DEF Used
    <3>2. ASSUME reader[c].at = "post", reader[c].kind \in {"end", "error"}
          PROVE reader[c].of \notin Waiting(c)'
      BY <1>5, <1>8, <2>1, <3>2 DEF Reader
    <3>3. reader[c].at = "post" => at'[reader[c].of] \in Sent
      BY <1>7, <2>1 DEF Reader, Grows
    <3>4. QED
      BY <2>1, <3>1, <3>2, <3>3 DEF Reader, Holding, Excused
  <2>3. Requests(c)'
    <3>1. \A i, j \in 1..Len(wire'[c]) : wire'[c][i] = wire'[c][j] => i = j
      <4>1. /\ wire[c] \in Seq(Attempts) /\ Len(wire[c]) \in Nat
            /\ Len(wire'[c]) = Len(wire[c]) + 1 /\ wire'[c][Len(wire[c]) + 1] = a
            /\ \A i \in 1..Len(wire[c]) : wire'[c][i] = wire[c][i]
        BY <1>5, <1>8, TypeFacts
      <4>2. \A i \in 1..Len(wire[c]) : wire[c][i] # a
        BY <1>10, <4>1 DEF Waiting, ToSet
      <4>3. QED
        BY <2>1, <4>1, <4>2 DEF Requests
    <3>2. ASSUME NEW w \in Waiting(c)
          PROVE  /\ mine'[w] = c /\ at'[w] \in Sent
                 /\ \/ conn' # c \/ ~Working(c)' \/ Excused(w + 1)'
                    \/ w = current' /\ (at'[w] = "stream" \/ handler' # "serving")
      <4>1. w \in Attempts /\ w # a
        BY <1>5, <1>10, <3>2, TypeFacts
      <4>2. at'[w] = at[w]
        BY <1>6, <4>1
      <4>3. QED
        BY <2>1, <3>2, <4>2 DEF Requests, Working, Excused
    <3>3. mine'[a] = c /\ at'[a] \in Sent /\ a = current' /\ at'[a] = "stream"
      BY <1>2, <1>6, <1>4, <2>1 DEF Sent
    <3>4. QED
      BY <1>8, <3>1, <3>2, <3>3 DEF Requests
  <2>4. QED
    BY <2>2, <2>3 DEF OfConnection
<1>17. QED
  BY <1>11, <1>12, <1>13, <1>14, <1>15, <1>16 DEF Inv

(***************************************************************************)
(* The goroutine of the attempt.                                           *)
(***************************************************************************)
LEMMA ReceiveKeeps ==
  ASSUME Inv, NEW a \in Attempts, Receive(a)
  PROVE  Inv'
<1> DEFINE m == Head(box[a].items)
<1>1. /\ at[a] = "stream" /\ box[a].items # <<>>
      /\ box' = [box EXCEPT ![a].items = Tail(box[a].items)]
      /\ UNCHANGED <<active, downstream, store, provider, reader, crash, cut, late, unpinned,
                     overtaken>>
      /\ warmed' = warmed \/ (a \in warm /\ warmed' = warmed \cup {a})
  BY DEF Receive, Handle, Inv, Typed
<1>2. a = current /\ holder = a /\ a \notin failed
      /\ \A b \in Attempts : b # a => at[b] \in {"idle", "done"}
  BY <1>1, Alone
<1>3. /\ Typed /\ Session /\ OfAttempt(a) /\ conn \in {mine[a], NoConn} /\ mine[a] \in Conns
      /\ NoConn \notin Conns
  BY <1>1, TypeFacts DEF Inv, OfAttempt, Connection, Linked
<1>4. /\ box[a].items \in Seq(Messages) /\ Tail(box[a].items) \in Seq(Messages)
      /\ m \in Items(a) /\ m \in Messages /\ m.conn \in Conns /\ m.of \in Attempts
      /\ m.kind \in Kinds
      /\ ToSet(Tail(box[a].items)) \subseteq Items(a)
  BY <1>1, <1>3, TypeFacts, TailFacts DEF Items
<1>5. /\ box'[a].items = Tail(box[a].items) /\ box'[a].closed = box[a].closed
      /\ \A b \in Attempts : b # a => box'[b] = box[b]
      /\ box' \in [Attempts -> Boxes] /\ Items(a)' \subseteq Items(a)
  <2>1. /\ box'[a] = [box[a] EXCEPT !.items = Tail(box[a].items)] /\ box[a] \in Boxes
        /\ \A b \in Attempts : b # a => box'[b] = box[b]
    BY <1>1, <1>3 DEF Typed
  <2>2. box'[a].items = Tail(box[a].items) /\ box'[a].closed = box[a].closed /\ box'[a] \in Boxes
    BY <1>4, <2>1 DEF Boxes
  <2>3. QED
    BY <1>1, <1>3, <1>4, <2>1, <2>2 DEF Typed, Items
<1>6. \A b \in strayed' : Excused(b)
  <2>1. strayed' = strayed \/ (m.conn = mine[a] /\ m.of # a /\ strayed' = strayed \cup {a})
    BY DEF Receive
  <2>2. QED
    BY <1>3, <1>4, <2>1 DEF Session, OfAttempt, Answer
<1> HIDE DEF m
<1>7. \A c \in Conns : \A w \in Waiting(c) : at[w] = "stream" => w = a /\ c = mine[a]
  <2>1. ASSUME NEW c \in Conns, NEW w \in Waiting(c), at[w] = "stream" PROVE w = a /\ c = mine[a]
    <3>1. w \in Attempts /\ Requests(c)
      BY <1>3, <2>1, TypeFacts DEF Inv, OfConnection
    <3>2. QED
      BY <1>2, <2>1, <3>1 DEF Requests
  <2>2. QED
    BY <2>1
<1>8. CASE UNCHANGED <<link, at, mine, failed, holder, warmed>>
  <2>1. UNCHANGED <<executor, handler, current, auth, warm, stored, closing, wire, begun, reader,
                    crash, active, conn, authID, open, dialled, at, mine, failed, holder, cut,
                    late, warmed, unpinned, overtaken>>
    BY <1>1, <1>8 DEF downstream, store, provider, link
  <2>2. Typed'
    BY <1>3, <1>5, <2>1 DEF Typed
  <2>3. at' = [at EXCEPT ![a] = "stream"]
    BY <1>1, <1>3, <2>1 DEF Typed
  <2>4. QuietStep(a)
    BY <1>3, <1>5, <2>1, <2>3 DEF QuietStep, Typed, Places
  <2>5. Session' /\ Between'
    BY <1>1, <1>2, <1>3, <1>6, <2>1 DEF Session, Between, Used, Working, Connects, Excused, Settled
  <2>6. OfAttempt(a)'
    <3>1. Turn(a)' /\ Connection(a)' /\ Channel(a)'
      BY <1>1, <1>3, <1>5, <2>1 DEF OfAttempt, Turn, Connection, Channel, Early, Linked, Used,
         Settled
    <3>2. Told(a)' /\ Credential(a)'
      BY <1>1, <1>3, <1>5, <2>1 DEF OfAttempt, Told, Credential, Excused, Xai, Linked, Working
    <3>3. Answer(a)'
      BY <1>3, <1>5, <2>1 DEF OfAttempt, Answer, Waiting, Used, Working, Excused
    <3>4. QED
      BY <3>1, <3>2, <3>3 DEF OfAttempt
  <2>7. QED
    BY <1>1, <1>3, <2>1, <2>2, <2>4, <2>5, <2>6, QuietStepKeeps
<1>9. CASE /\ m.conn = mine[a] /\ at' = [at EXCEPT ![a] = "ending"] /\ UNCHANGED <<mine, holder>>
           /\ \/ m.kind = "part" /\ failed' = failed /\ UNCHANGED link /\ a \in warmed'
              \/ m.kind = "end" /\ failed' = failed /\ UNCHANGED link
              \/ m.kind = "lost" /\ failed' = failed \cup {a} /\ UNCHANGED link
              \/ /\ m.kind = "error" /\ failed' = failed \cup {a}
                 /\ Invalidate(mine[a]) \/ (Xai /\ UNCHANGED link)
  <2>1. conn' \in {conn, NoConn} /\ open' \subseteq {conn'} /\ open' \subseteq open
        /\ UNCHANGED <<authID, dialled>>
        /\ (m.kind = "error" => conn' = NoConn \/ Xai) /\ failed' \subseteq failed \cup {a}
    BY <1>3, <1>9 DEF Invalidate, link, Session, Typed
  <2>2. /\ Excused(a) => Excused(a + 1)'
        /\ m.kind = "part" => Excused(a + 1)'
    BY <1>1, <1>3, <1>9 DEF Excused, Typed, Attempts
  <2>3. conn' = NoConn \/ ~Working(mine[a]) \/ Excused(a + 1)' \/ a \notin Waiting(mine[a])
    BY <1>3, <1>4, <1>9, <2>1, <2>2 DEF OfAttempt, Answer, Working
  <2>4. /\ \E place \in Places : at' = [at EXCEPT ![a] = place]
        /\ UNCHANGED <<executor, handler, current, auth, warm, stored, closing, wire, reader,
                       crash, active, dialled, mine, holder, cut, late, unpinned, overtaken>>
    BY <1>1, <1>9, <2>1 DEF Places, downstream, store, provider
  <2>5. QuietStep(a)
    BY <1>1, <1>3, <1>5, <1>7, <2>1, <2>3, <2>4 DEF QuietStep
  <2>6. ~Xai /\ conn' # NoConn /\ Working(mine[a]) /\ handler = "serving" => a \notin failed'
    BY <1>2, <1>3, <1>4, <1>9, <2>1 DEF OfAttempt, Answer, Working
  <2>7. \A b \in strayed' : Excused(b)'
    BY <1>1, <1>6, <2>4 DEF Excused
  <2>8. cut' \subseteq Attempts /\ warmed' \subseteq warm /\ warm' = warm
    BY <1>1, <1>3, <2>4 DEF Typed, downstream
  <2>9. QED
    BY <1>1, <1>4, <1>5, <1>9, <2>1, <2>4, <2>5, <2>6, <2>7, <2>8, StreamEndsKeeps
<1>10. QED
  BY <1>8, <1>9 DEF Receive, Handle, LastChunk, m, progress

LEMMA GiveUpKeeps ==
  ASSUME Inv, NEW a \in Attempts, GiveUp(a)
  PROVE  Inv'
<1>1. /\ at[a] = "stream" /\ at' = [at EXCEPT ![a] = "ending"] /\ failed' = failed \cup {a}
      /\ cut' = cut \/ cut' = cut \cup {a}
      /\ handler # "serving" \/ ~Working(mine[a]) \/ a \in cut'
      /\ UNCHANGED <<mine, holder, downstream, store, provider, link, channel, reader, crash, late, warmed, strayed, unpinned, overtaken>>
  <2>1. \/ handler # "serving" /\ cut' = cut
        \/ cut' = cut /\ reader[mine[a]].at \in {"leave", "off"}
        \/ cut' = cut \cup {a}
    BY DEF GiveUp
  <2>2. QED
    BY <2>1 DEF GiveUp, LastChunk, Working
<1>2. a = current /\ \A b \in Attempts : b # a => at[b] \in {"idle", "done"}
  BY <1>1, Alone
<1>3. Typed /\ Session
  BY DEF Inv
<1>4. Working(mine[a]) /\ handler = "serving" => Excused(a + 1)'
  BY <1>1 DEF Excused, Attempts
<1>5. UNCHANGED <<executor, handler, current, auth, warm, stored, closing, wire, reader, crash,
                  active, box, dialled, conn, authID, open, mine, holder, late, warmed, strayed,
                  unpinned, overtaken>>
  BY <1>1 DEF downstream, store, provider, link, channel
<1>6. QuietStep(a)
  <2>1. ASSUME NEW c \in Conns, NEW w \in Waiting(c), at[w] = "stream"
        PROVE  ~Working(c) \/ Excused(w + 1)' \/ handler # "serving"
    <3>1. w \in Attempts /\ Requests(c)
      BY <1>3, <2>1, TypeFacts DEF Inv, OfConnection
    <3>2. w = a /\ c = mine[a]
      BY <1>2, <2>1, <3>1 DEF Requests
    <3>3. QED
      BY <1>4, <3>2
  <2>2. /\ \E place \in Places : at' = [at EXCEPT ![a] = place]
        /\ cut \subseteq cut' /\ failed' \subseteq failed \cup {a}
    BY <1>1 DEF Places
  <2>3. QED
    BY <1>5, <2>1, <2>2 DEF QuietStep
<1>7. \A b \in strayed' : Excused(b)'
  BY <1>1, <1>3, <1>5 DEF Session, Excused
<1>8. /\ cut' \subseteq Attempts /\ warmed' \subseteq warm /\ warm' = warm
      /\ Items(a)' = Items(a) /\ box'[a].items \in Seq(Messages)
  BY <1>1, <1>3, <1>5, TypeFacts DEF Typed, Items
<1>9. open' \subseteq {conn'} /\ box' \in [Attempts -> Boxes]
  BY <1>3, <1>5 DEF Session, Typed
<1>10. conn' # NoConn /\ Working(mine[a]) /\ handler = "serving" =>
         a \notin failed' \/ Excused(a + 1)'
  BY <1>4
<1>11. failed' \subseteq failed \cup {a}
  BY <1>1
<1>12. QED
  BY <1>1, <1>5, <1>6, <1>7, <1>8, <1>9, <1>10, <1>11, StreamEndsKeeps

LEMMA ReleaseKeeps ==
  ASSUME Inv, NEW a \in Attempts, Release(a)
  PROVE  Inv'
<1>1. /\ at[a] = "ending" /\ at' = [at EXCEPT ![a] = "done"] /\ holder' = Nobody
      /\ active' \in {active, Nobody} /\ active' # a
      /\ UNCHANGED <<executor, handler, current, auth, warm, stored, closing, wire, begun, reader,
                     crash, conn, authID, open, dialled, mine, failed, heard, box, cut, late,
                     warmed, strayed, unpinned, overtaken>>
  BY TypeFacts DEF Release, Clear, Inv, downstream, store, provider, link, history
<1>2. /\ Typed /\ Session /\ Between /\ Turn(a) /\ Answer(a) /\ Credential(a)
      /\ \A b \in Attempts : OfAttempt(b) /\ b \in Nat /\ b # Nobody
  BY TypeFacts DEF Inv, OfAttempt
<1>3. /\ at'[a] = "done" /\ \A b \in Attempts : b # a => at'[b] = at[b]
      /\ \A b \in Attempts : b # a => at[b] \in {"idle", "lock", "done"}
  BY <1>1, <1>2 DEF Typed, OfAttempt, Turn
<1>4. Grows /\ ReadersStay
  <2>1. \A w \in Attempts : at[w] \in Sent => at'[w] \in Sent
    BY <1>3 DEF Sent
  <2>2. QED
    BY <1>1, <2>1 DEF Grows, ReadersStay
<1>5. Typed'
  BY <1>1, <1>2 DEF Typed, Places
<1>6. Session' /\ Between'
  <2>1. \A b \in Attempts : (Settled(b)' => Settled(b)) /\ (Connects(b)' => Connects(b))
    BY <1>1, <1>3 DEF Settled, Connects
  <2>2. Session'
    BY <1>1, <1>2, <2>1 DEF Session, Used, Working, Excused
  <2>3. current > 0 => current \in Attempts
    BY <1>2 DEF Typed, Attempts
  <2>4. QED
    BY <1>1, <1>2, <2>1, <2>2, <2>3 DEF Between, Used, Working, Excused
<1>7. OfAttempt(a)'
  <2>1. Turn(a)' /\ Channel(a)'
    BY <1>1, <1>2, <1>3 DEF Turn, Channel, Settled, Early, Heard
  <2>2. Connection(a)' /\ Told(a)' /\ Credential(a)'
    BY <1>1, <1>2, <1>3 DEF Connection, Told, Credential, Linked
  <2>3. Answer(a)'
    BY <1>1, <1>2, <1>3, <1>4, AnswerStays DEF Linked, Heard
  <2>4. QED
    BY <2>1, <2>2, <2>3 DEF OfAttempt
<1>8. ASSUME NEW b \in Attempts, b # a PROVE OfAttempt(b)'
  <2>1. at'[b] = at[b] /\ at[b] \in {"idle", "lock", "done"} /\ OfAttempt(b)
    BY <1>2, <1>3, <1>8
  <2>2. Turn(b)' /\ Connection(b)' /\ Told(b)'
    BY <1>1, <2>1 DEF OfAttempt, Turn, Connection, Told, Linked, Settled
  <2>3. Channel(b)'
    BY <1>1, <1>2, <2>1 DEF OfAttempt, Channel, Early, Heard, Holding
  <2>4. Credential(b)'
    BY <1>1, <2>1 DEF OfAttempt, Credential, Cover, Linked, Working, Excused
  <2>5. Answer(b)'
    BY <1>1, <1>2, <1>4, <2>1, AnswerStays DEF OfAttempt
  <2>6. QED
    BY <2>2, <2>3, <2>4, <2>5 DEF OfAttempt
<1>9. ASSUME NEW c \in Conns PROVE OfConnection(c)'
  <2>1. \A w \in Waiting(c) : at[w] = "stream" => at'[w] = "stream"
    BY <1>1, <1>2, <1>3, TypeFacts
  <2>2. QED
    BY <1>1, <1>4, <1>9, <2>1, ConnectionsStay
<1>10. QED
  BY <1>5, <1>6, <1>7, <1>8, <1>9 DEF Inv

(***************************************************************************)
(* The readers of the connections, and the closing of the session.         *)
(***************************************************************************)
LEMMA CloseSessionKeeps ==
  ASSUME Inv, CloseSession
  PROVE  Inv'
<1>1. /\ closing' = FALSE /\ conn' = NoConn /\ open' = open \ {conn}
      /\ overtaken' = (overtaken \/ \E a \in Attempts : Connects(a))
      /\ UNCHANGED <<executor, handler, current, auth, warm, stored, wire, begun, at, mine, failed,
                     heard, holder, active, box, reader, crash, authID, dialled, cut, late, warmed,
                     strayed, unpinned>>
  BY DEF CloseSession, Disconnect, downstream, provider, progress, channel
<1>2. Typed /\ Session
  BY DEF Inv
<1>3. Apart
  BY <1>1, <1>2 DEF Apart, Session, Working
<1>4. Typed'
  BY <1>1, <1>2 DEF Typed
<1>5. Session'
  <2>1. ~overtaken' => \A b \in Attempts : ~Connects(b)'
    BY <1>1 DEF Connects
  <2>2. crash' # "none" => \E c, d \in Conns : c # d /\ Used(c)' /\ Used(d)'
    BY <1>1, <1>2 DEF Session, Used
  <2>3. QED
    BY <1>1, <1>3, <2>1, <2>2, ApartKeeps DEF Session
<1>6. ASSUME NEW b \in Attempts PROVE OfAttempt(b)'
  <2>1. Channel(b)' /\ Told(b)'
    BY <1>1 DEF Inv, OfAttempt, Channel, Told, Holding, Working
  <2>2. Answer(b)'
    BY <1>1 DEF Inv, OfAttempt, Answer, Items, Waiting, Used, Working, Excused
  <2>3. QED
    BY <1>3, <2>1, <2>2, ApartKeeps DEF OfAttempt
<1>7. ASSUME NEW c \in Conns PROVE OfConnection(c)'
  <2>1. Reader(c)'
    BY <1>1 DEF Inv, OfConnection, Reader, Used, Holding, Waiting, Excused
  <2>2. Requests(c)'
    BY <1>1, TypeFacts DEF Inv, OfConnection, Requests, Waiting, Working, Excused
  <2>3. QED
    BY <2>1, <2>2 DEF OfConnection
<1>8. QED
  BY <1>3, <1>4, <1>5, <1>6, <1>7, ApartKeeps DEF Inv

LEMMA LeaveLoopKeeps ==
  ASSUME Inv, NEW c \in Conns, LeaveLoop(c)
  PROVE  Inv'
<1>1. /\ reader[c].at = "leave" /\ reader' = [reader EXCEPT ![c].at = "off"] /\ Invalidate(c)
      /\ UNCHANGED <<executor, handler, current, auth, warm, stored, closing, wire, begun, at,
                     mine, failed, heard, holder, active, box, crash, cut, late, warmed, strayed,
                     unpinned, overtaken>>
  BY DEF LeaveLoop, downstream, store, provider, progress, channel, history
<1>2. Typed /\ Session /\ NoConn \notin Conns
  BY TypeFacts DEF Inv
<1>3. /\ conn' = (IF conn = c THEN NoConn ELSE conn) /\ UNCHANGED <<authID, dialled>>
      /\ open' \subseteq open /\ (conn' = conn \/ open' = {})
  BY <1>1, <1>2 DEF Invalidate, link, Session
<1>4. /\ reader'[c].at = "off" /\ \A d \in Conns : d # c => reader'[d] = reader[d]
      /\ reader' \in [Conns -> Loops]
  BY <1>1, <1>2 DEF Typed, Loops
<1>5. \A d \in Conns : /\ Working(d)' = Working(d) /\ Holding(d)' = Holding(d)
                       /\ (Holding(d) => reader'[d] = reader[d])
                       /\ (reader[d].at \in {"leave", "off"} => reader'[d].at \in {"leave", "off"})
  BY <1>1, <1>4 DEF Working, Holding
<1>6. Apart
  BY <1>1, <1>3, <1>5 DEF Apart
<1>7. Typed'
  BY <1>1, <1>2, <1>3, <1>4 DEF Typed
<1>8. Session'
  <2>1. ~stored' /\ ~closing' /\ ~overtaken' => conn' = NoConn /\ \A b \in Attempts : ~Connects(b)'
    BY <1>1, <1>2, <1>3 DEF Session, Connects
  <2>2. crash' # "none" => \E d, e \in Conns : d # e /\ Used(d)' /\ Used(e)'
    BY <1>1, <1>2, <1>3 DEF Session, Used
  <2>3. QED
    BY <1>6, <2>1, <2>2, ApartKeeps DEF Session
<1>9. ASSUME NEW b \in Attempts PROVE OfAttempt(b)'
  <2>1. OfAttempt(b) /\ \A m \in Items(b) : m.conn \in Conns
    BY <1>2, TypeFacts DEF Inv
  <2>2. Channel(b)'
    BY <1>1, <1>5, <2>1 DEF OfAttempt, Channel
  <2>3. Told(b)'
    <3>1. at[b] \in {"write", "rewrite", "stream"} => mine[b] \in Conns
      BY <2>1 DEF OfAttempt, Connection, Linked
    <3>2. QED
      BY <1>1, <1>4, <1>5, <2>1, <3>1 DEF OfAttempt, Told
  <2>4. Answer(b)'
    BY <1>1, <1>3, <1>5, <2>1 DEF OfAttempt, Answer, Items, Waiting, Used, Excused
  <2>5. QED
    BY <1>6, <2>2, <2>3, <2>4, ApartKeeps DEF OfAttempt
<1>10. ASSUME NEW d \in Conns PROVE OfConnection(d)'
  <2>1. OfConnection(d)
    BY DEF Inv
  <2>2. Reader(d)'
    <3>1. reader[d].at = "off" => reader'[d].at = "off"
      BY <1>1, <1>4
    <3>2. reader'[d].at = "post" => reader'[d] = reader[d]
      BY <1>5 DEF Holding
    <3>3. QED
      BY <1>1, <1>3, <1>5, <2>1, <3>1, <3>2 DEF OfConnection, Reader, Used, Waiting, Excused
  <2>3. Requests(d)'
    BY <1>1, <1>2, <1>3, <1>5, <2>1 DEF OfConnection, Requests, Waiting, Excused
  <2>4. QED
    BY <2>2, <2>3 DEF OfConnection
<1>11. QED
  BY <1>6, <1>7, <1>8, <1>9, <1>10, ApartKeeps DEF Inv

LEMMA ReadFailsKeeps ==
  ASSUME Inv, NEW c \in Conns, ReadFails(c)
  PROVE  Inv'
<1>1. /\ reader[c].at = "read"
      /\ UNCHANGED <<executor, handler, current, auth, warm, stored, closing, wire, begun, at,
                     mine, failed, heard, holder, active, box, crash, cut, late, warmed, strayed,
                     unpinned, overtaken, conn, authID, open, dialled>>
  BY DEF ReadFails, downstream, store, provider, progress, channel, history, link
<1>2. Typed /\ Session
  BY DEF Inv
<1>3. /\ reader'[c].at = (IF active = Nobody THEN "leave" ELSE "fail") /\ reader'[c].to = active
      /\ \A d \in Conns : d # c => reader'[d] = reader[d]
      /\ reader' \in [Conns -> Loops]
  <2>1. reader' = [reader EXCEPT ![c] =
                    [reader[c] EXCEPT !.at = IF active = Nobody THEN "leave" ELSE "fail",
                                      !.to = active]]
    BY <1>2 DEF ReadFails, Typed
  <2>2. reader[c] \in Loops /\ active \in Attempts \cup {Nobody} /\ reader \in [Conns -> Loops]
    BY <1>2 DEF Typed
  <2>3. QED
    BY <2>1, <2>2 DEF Loops
<1>4. /\ \A d \in Conns : Working(d)' => Working(d) /\ d # c
      /\ Working(c)
      /\ \A d \in Conns : Holding(d)' =>
           (reader'[d] = reader[d] /\ Holding(d)) \/ reader'[d].to = active
  BY <1>1, <1>3 DEF Working, Holding
<1>5. Apart
  BY <1>1, <1>4 DEF Apart
<1>6. Typed'
  BY <1>1, <1>2, <1>3 DEF Typed
<1>7. Session'
  BY <1>1, <1>2, <1>5, ApartKeeps DEF Session, Connects, Used
<1>8. ASSUME NEW b \in Attempts PROVE OfAttempt(b)'
  <2>1. OfAttempt(b) /\ (\A m \in Items(b) : m.conn \in Conns) /\ b # Nobody
    BY <1>2, TypeFacts DEF Inv
  <2>2. Channel(b)'
    <3>1. active = b => at[b] \notin Early
      BY <2>1 DEF OfAttempt, Channel, Early, Heard
    <3>2. QED
      BY <1>1, <1>4, <2>1, <3>1 DEF OfAttempt, Channel
  <2>3. Told(b)'
    <3>1. at[b] \in {"write", "rewrite", "stream"} =>
            mine[b] \in Conns /\ (~box[b].closed => active = b)
      BY <2>1 DEF OfAttempt, Connection, Linked, Channel, Heard
    <3>2. QED
      BY <1>1, <1>3, <2>1, <3>1 DEF OfAttempt, Told, Working
  <2>4. Answer(b)'
    BY <1>1, <1>3, <1>4, <2>1 DEF OfAttempt, Answer, Items, Waiting, Used, Excused
  <2>5. QED
    BY <1>5, <2>2, <2>3, <2>4, ApartKeeps DEF OfAttempt
<1>9. ASSUME NEW d \in Conns PROVE OfConnection(d)'
  <2>1. OfConnection(d)
    BY DEF Inv
  <2>2. Reader(d)'
    <3>1. CASE d = c
      <4>1. Used(c) /\ reader'[c].at \in {"leave", "fail"}
        BY <1>1, <1>3, <2>1, <3>1 DEF OfConnection, Reader
      <4>2. reader'[c].at = "fail" =>
              active \in Attempts /\ ~box[active].closed /\ reader'[c].to = active
        BY <1>2, <1>3 DEF Typed, Inv, OfAttempt, Channel
      <4>3. QED
        BY <1>1, <3>1, <4>1, <4>2 DEF Reader, Holding, Used
    <3>2. CASE d # c
      BY <1>1, <1>3, <2>1, <3>2 DEF OfConnection, Reader, Holding, Used, Waiting, Excused
    <3>3. QED
      BY <3>1, <3>2
  <2>3. Requests(d)'
    BY <1>1, <1>4, <2>1 DEF OfConnection, Requests, Waiting, Excused
  <2>4. QED
    BY <2>2, <2>3 DEF OfConnection
<1>10. QED
  BY <1>5, <1>6, <1>7, <1>8, <1>9, ApartKeeps DEF Inv

LEMMA ReadKeeps ==
  ASSUME Inv, NEW c \in Conns, NEW kind \in Kinds \ {"lost"}, Read(c, kind)
  PROVE  Inv'
<1> DEFINE a == Head(wire[c])
<1>1. /\ reader[c].at = "read" /\ wire[c] # <<>> /\ kind \in Kinds /\ kind # "lost"
      /\ reader' = (IF active = Nobody THEN reader
                    ELSE [reader EXCEPT ![c] =
                            [at |-> "post", to |-> active, of |-> a, kind |-> kind]])
      /\ \/ kind = "part" /\ wire' = wire
         \/ wire' = [wire EXCEPT ![c] = Tail(wire[c])]
      /\ UNCHANGED <<executor, handler, current, auth, warm, stored, closing, at, mine, failed,
                     heard, holder, active, box, crash, cut, late, warmed, strayed, unpinned,
                     overtaken, conn, authID, open, dialled>>
  BY DEF Read, downstream, store, progress, channel, history, link
<1>2. Typed /\ Session /\ wire[c] \in Seq(Attempts) /\ OfConnection(c)
  BY TypeFacts DEF Inv
<1>3. a \in Attempts /\ a \in Waiting(c) /\ Tail(wire[c]) \in Seq(Attempts)
      /\ ToSet(Tail(wire[c])) \subseteq Waiting(c)
  BY <1>1, <1>2, TailFacts DEF Waiting
<1> HIDE DEF a
<1>4. /\ \/ active = Nobody /\ reader'[c] = reader[c]
         \/ active \in Attempts
            /\ reader'[c] = [at |-> "post", to |-> active, of |-> a, kind |-> kind]
      /\ \A d \in Conns : d # c => reader'[d] = reader[d]
      /\ reader' \in [Conns -> Loops]
  <2>1. CASE active = Nobody
    BY <1>1, <1>2, <2>1 DEF Typed
  <2>2. CASE active \in Attempts
    <3>1. [at |-> "post", to |-> active, of |-> a, kind |-> kind] \in Loops
      BY <1>1, <1>3, <2>2 DEF Loops
    <3>2. active # Nobody
      BY <1>2, <2>2, TypeFacts
    <3>3. QED
      BY <1>1, <1>2, <2>2, <3>1, <3>2 DEF Typed
  <2>3. QED
    BY <1>2, <2>1, <2>2 DEF Typed
<1>5. /\ \/ kind = "part" /\ wire'[c] = wire[c]
         \/ wire'[c] = Tail(wire[c])
      /\ \A d \in Conns : d # c => wire'[d] = wire[d]
      /\ wire' \in [Conns -> Seq(Attempts)]
  BY <1>1, <1>2, <1>3 DEF Typed
<1>6. \A d \in Conns : Waiting(d)' \subseteq Waiting(d)
  BY <1>3, <1>5 DEF Waiting
<1>7. kind # "part" => a \notin Waiting(c)'
  <2>1. SUFFICES ASSUME a \in ToSet(Tail(wire[c])) PROVE FALSE
    BY <1>5 DEF Waiting
  <2>2. PICK i \in DOMAIN Tail(wire[c]) : Tail(wire[c])[i] = a
    BY <2>1 DEF ToSet
  <2>3. i \in 1..(Len(wire[c]) - 1) /\ wire[c][i + 1] = a /\ wire[c][1] = a /\ Len(wire[c]) \in Nat
    BY <1>1, <1>2, <2>2 DEF a
  <2>4. i + 1 \in 1..Len(wire[c]) /\ 1 \in 1..Len(wire[c]) /\ i + 1 # 1
    BY <2>3
  <2>5. QED
    BY <1>2, <2>3, <2>4 DEF OfConnection, Requests
<1>8. /\ \A d \in Conns : Working(d)' = Working(d)
      /\ \A d \in Conns : Holding(d)' =>
           (reader'[d] = reader[d] /\ Holding(d))
             \/ (d = c /\ active \in Attempts /\ reader'[d].to = active)
      /\ Working(c)
  BY <1>1, <1>4 DEF Working, Holding
<1>9. Apart
  BY <1>1, <1>8 DEF Apart
<1>10. Typed'
  BY <1>1, <1>2, <1>4, <1>5 DEF Typed
<1>11. Session'
  BY <1>1, <1>2, <1>9, ApartKeeps DEF Session, Connects, Used
<1>12. ASSUME NEW b \in Attempts PROVE OfAttempt(b)'
  <2>1. OfAttempt(b) /\ (\A m \in Items(b) : m.conn \in Conns) /\ b # Nobody
    BY <1>2, TypeFacts DEF Inv
  <2>2. Channel(b)'
    <3>1. active = b => at[b] \notin Early
      BY <2>1 DEF OfAttempt, Channel, Early, Heard
    <3>2. QED
      BY <1>1, <1>8, <2>1, <3>1 DEF OfAttempt, Channel
  <2>3. Told(b)'
    <3>1. at[b] \in {"write", "rewrite", "stream"} => mine[b] \in Conns
      BY <2>1 DEF OfAttempt, Connection, Linked
    <3>2. \A d \in Conns : reader[d].at = "fail" => reader'[d] = reader[d]
      BY <1>1, <1>4
    <3>3. QED
      BY <1>1, <1>8, <2>1, <3>1, <3>2 DEF OfAttempt, Told
  <2>4. Answer(b)'
    <3>1. \A d \in Conns : reader[d].at \in {"leave", "off"} => reader'[d] = reader[d]
      BY <1>1, <1>4
    <3>2. \A m \in Items(b) : m.kind \in {"end", "error"} => m.of \notin Waiting(m.conn)'
      BY <1>6, <2>1 DEF OfAttempt, Answer
    <3>3. ASSUME at[b] \in Linked \cup Heard \cup {"ending"}, mine[b] \in Conns,
                 NEW w \in Attempts, w \in Waiting(mine[b])'
          PROVE  w = b \/ ~Working(mine[b])' \/ Excused(b)'
      <4>1. w \in Waiting(mine[b])
        BY <1>1, <1>6, <3>3 DEF Waiting
      <4>2. w = b \/ ~Working(mine[b]) \/ Excused(b)
        BY <2>1, <3>3, <4>1 DEF OfAttempt, Answer
      <4>3. QED
        BY <1>1, <1>8, <3>3, <4>2 DEF Working, Excused
    <3>4. QED
      BY <1>1, <2>1, <3>1, <3>2, <3>3 DEF OfAttempt, Answer, Items, Used, Excused
  <2>5. QED
    BY <1>9, <2>2, <2>3, <2>4, ApartKeeps DEF OfAttempt
<1>13. ASSUME NEW d \in Conns PROVE Reader(d)'
  <2>1. Reader(d)
    BY DEF Inv, OfConnection
  <2>2. CASE reader'[d] = reader[d]
    <3>1. ~Used(d) => wire'[d] = wire[d]
      BY <1>1, <1>2, <1>5 DEF OfConnection, Reader
    <3>2. reader[d].kind \in {"end", "error"} /\ reader[d].of \notin Waiting(d) =>
            reader[d].of \notin Waiting(d)'
      BY <1>6
    <3>3. QED
      BY <1>1, <2>1, <2>2, <3>1, <3>2 DEF Reader, Used, Holding, Excused
  <2>3. CASE /\ d = c /\ active \in Attempts
             /\ reader'[c] = [at |-> "post", to |-> active, of |-> a, kind |-> kind]
    <3>1. Used(c) /\ ~box[active].closed /\ at[active] \in Heard \cup {"ending"} /\ at[a] \in Sent
      BY <1>1, <1>2, <1>3, <2>3 DEF Inv, OfAttempt, OfConnection, Channel, Reader, Requests
    <3>2. mine[active] = c => a = active \/ Excused(active)
      BY <1>3, <1>8, <2>3, <3>1 DEF Inv, OfAttempt, Answer
    <3>3. /\ reader'[d].at = "post" /\ reader'[d].to = active /\ reader'[d].of = a
          /\ reader'[d].kind = kind
      BY <2>3
    <3>4. kind \in {"end", "error"} => a \notin Waiting(d)'
      BY <1>7, <2>3
    <3>5. \A x : x = active /\ Excused(active) => Excused(x)'
      BY <1>1 DEF Excused
    <3>6. QED
      BY <1>1, <1>3, <2>3, <3>1, <3>2, <3>3, <3>4, <3>5 DEF Reader, Used, Holding, Excused
  <2>4. QED
    BY <1>4, <2>2, <2>3
<1>14. ASSUME NEW d \in Conns PROVE Requests(d)'
  <2>1. Requests(d)
    BY DEF Inv, OfConnection
  <2>2. \A i, j \in 1..Len(wire'[d]) : wire'[d][i] = wire'[d][j] => i = j
    <3>1. CASE wire'[d] = wire[d]
      BY <2>1, <3>1 DEF Requests
    <3>2. CASE d = c /\ wire'[c] = Tail(wire[c])
      <4>1. /\ Len(wire[c]) \in Nat /\ Len(wire[c]) >= 1 /\ Len(wire'[c]) = Len(wire[c]) - 1
            /\ \A i \in 1..Len(wire'[c]) : wire'[c][i] = wire[c][i + 1]
        <5>1. /\ Len(wire[c]) \in Nat /\ Len(wire[c]) >= 1 /\ Len(Tail(wire[c])) = Len(wire[c]) - 1
              /\ \A i \in 1..Len(Tail(wire[c])) : Tail(wire[c])[i] = wire[c][i + 1]
          BY <1>1, <1>2
        <5>2. QED
          BY <3>2, <5>1
      <4>2. \A i \in 1..Len(wire'[c]) : i + 1 \in 1..Len(wire[c])
        BY <4>1
      <4>3. ASSUME NEW i \in 1..Len(wire'[c]), NEW j \in 1..Len(wire'[c]), wire'[c][i] = wire'[c][j]
            PROVE i = j
        <5>1. i + 1 = j + 1
          BY <2>1, <3>2, <4>1, <4>2, <4>3 DEF Requests
        <5>2. QED
          BY <4>1, <5>1
      <4>4. QED
        BY <3>2, <4>3
    <3>3. QED
      BY <1>5, <3>1, <3>2
  <2>3. QED
    BY <1>1, <1>6, <1>8, <2>1, <2>2 DEF Requests, Excused
<1>15. QED
  BY <1>9, <1>10, <1>11, <1>12, <1>13, <1>14, ApartKeeps DEF Inv, OfConnection

LEMMA PostKeeps ==
  ASSUME Inv, NEW c \in Conns, Post(c)
  PROVE  Inv'
<1>1. /\ Typed /\ Session /\ OfConnection(c) /\ Used(c) /\ Holding(c) /\ Working(c)
      /\ reader[c].at = "post"
      /\ reader[c].to \in Attempts /\ reader[c].of \in Attempts
      /\ reader[c].kind \in Kinds /\ reader[c].kind # "lost"
  <2>1. Typed /\ Session /\ OfConnection(c) /\ reader[c] \in Loops /\ reader[c].at = "post"
    BY DEF Inv, Typed, Post
  <2>2. QED
    BY <2>1 DEF OfConnection, Reader, Holding, Working, Loops
<1>2. PICK a \in Attempts : a = reader[c].to
  BY <1>1
<1>3. PICK m \in Messages : m.conn = c /\ m.of = reader[c].of /\ m.kind = reader[c].kind
                          /\ m = Message(c, reader[c].of, reader[c].kind)
  BY <1>1 DEF Messages, Message
<1>4. /\ reader' = [reader EXCEPT ![c] = Reading]
      /\ \/ box[a].closed /\ UNCHANGED <<active, box>>
         \/ /\ box' = [box EXCEPT ![a].items = Append(box[a].items, m)]
            /\ UNCHANGED <<active, crash>>
         \/ UNCHANGED <<active, box, crash>>
      /\ UNCHANGED <<executor, handler, current, auth, warm, stored, closing, wire, begun, at,
                     mine, failed, heard, holder, cut, late, warmed, strayed, unpinned, overtaken,
                     conn, authID, open, dialled>>
  BY <1>1, <1>2, <1>3 DEF Post, Panic, Typed, downstream, store, provider, progress, channel,
     history, link
<1>5. /\ reader'[c] = Reading /\ reader'[c].at = "read"
      /\ \A d \in Conns : d # c => reader'[d] = reader[d]
      /\ reader' \in [Conns -> Loops]
  <2>1. Reading \in Loops /\ Reading.at = "read"
    BY DEF Reading, Loops, Kinds
  <2>2. QED
    BY <1>1, <1>2, <1>4, <2>1 DEF Typed
<1>6. /\ \A b \in Attempts : box'[b].closed = box[b].closed /\ (b # a => box'[b] = box[b])
      /\ box' \in [Attempts -> Boxes]
      /\ \A b \in Attempts : \A n \in Items(b)' : n \in Items(b) \/ (b = a /\ n = m)
  <2>1. CASE box' = box
    BY <1>1, <1>2, <2>1 DEF Typed, Items
  <2>2. CASE box' = [box EXCEPT ![a].items = Append(box[a].items, m)]
    <3>1. box[a] \in Boxes /\ box[a].items \in Seq(Messages)
      BY <1>1, <1>2, TypeFacts DEF Typed
    <3>2. /\ box'[a] = [box[a] EXCEPT !.items = Append(box[a].items, m)]
          /\ \A b \in Attempts : b # a => box'[b] = box[b]
      BY <1>1, <1>2, <2>2 DEF Typed
    <3>3. Append(box[a].items, m) \in Seq(Messages)
          /\ ToSet(Append(box[a].items, m)) = Items(a) \cup {m}
      BY <1>3, <3>1, AppendFacts DEF Items
    <3>4. box'[a].items = Append(box[a].items, m) /\ box'[a].closed = box[a].closed
          /\ box'[a] \in Boxes
      BY <3>1, <3>2, <3>3 DEF Boxes
    <3>5. Items(a)' = Items(a) \cup {m}
      BY <1>1, <3>3, <3>4 DEF Items
    <3>6. box' \in [Attempts -> Boxes]
      BY <1>1, <1>2, <2>2, <3>2, <3>4 DEF Typed
    <3>7. QED
      BY <3>2, <3>4, <3>5, <3>6 DEF Items
  <2>3. QED
    BY <1>1, <1>4, <2>1, <2>2
<1>7. /\ \A d \in Conns : /\ Working(d)' = Working(d)
                          /\ Holding(d)' => Holding(d) /\ reader'[d] = reader[d] /\ d # c
      /\ \A d \in Conns : reader[d].at \in {"leave", "off", "fail"} => reader'[d] = reader[d]
  BY <1>1, <1>2, <1>4, <1>5 DEF Working, Holding
<1>8. Apart
  BY <1>1, <1>4, <1>7 DEF Apart
<1>9. active' = active /\ Typed'
  BY <1>1, <1>2, <1>4, <1>5, <1>6 DEF Typed
<1>10. Session'
  <2>1. ~stored' /\ ~closing' /\ ~overtaken' => conn' = NoConn /\ \A b \in Attempts : ~Connects(b)'
    BY <1>1, <1>2, <1>4 DEF Session, Connects
  <2>2. crash' = crash \/ \E d \in Conns \ {c} : Used(d)
    BY <1>1, <1>2, <1>4 DEF OfConnection, Reader
  <2>3. crash' # "none" => \E d, e \in Conns : d # e /\ Used(d)' /\ Used(e)'
    BY <1>1, <1>2, <1>4, <2>2 DEF Session, Used
  <2>4. QED
    BY <1>8, <2>1, <2>3, ApartKeeps DEF Session
<1>11. ASSUME NEW b \in Attempts PROVE OfAttempt(b)'
  <2>1. OfAttempt(b) /\ (\A n \in Items(b) : n.conn \in Conns) /\ b # Nobody
    BY <1>1, <1>2, TypeFacts DEF Inv
  <2>2. Channel(b)'
    <3>1. at[b] \in Early => box'[b] = box[b]
      BY <1>1, <1>2, <1>6, <2>1 DEF OfAttempt, Channel
    <3>2. QED
      BY <1>1, <1>4, <1>6, <1>7, <1>9, <2>1, <3>1 DEF OfAttempt, Channel
  <2>3. Told(b)'
    <3>1. at[b] \in {"write", "rewrite", "stream"} => mine[b] \in Conns
      BY <2>1 DEF OfAttempt, Connection, Linked
    <3>2. QED
      BY <1>1, <1>4, <1>6, <1>7, <2>1, <3>1 DEF OfAttempt, Told
  <2>4. Answer(b)'
    <3>1. ASSUME NEW n \in Items(b)
          PROVE  /\ Used(n.conn)'
                 /\ n.kind = "lost" => reader'[n.conn].at \in {"leave", "off"}
                 /\ n.kind # "lost" => at'[n.of] \in Sent
                 /\ n.kind \in {"end", "error"} => n.of \notin Waiting(n.conn)'
                 /\ n.conn = mine'[b] /\ n.of # b => Excused(b)'
      BY <1>1, <1>4, <1>7, <2>1, <3>1 DEF OfAttempt, Answer, Used, Waiting, Excused
    <3>2. ASSUME b = a
          PROVE  /\ Used(m.conn)' /\ m.kind # "lost" /\ at'[m.of] \in Sent
                 /\ m.kind \in {"end", "error"} => m.of \notin Waiting(m.conn)'
                 /\ m.conn = mine'[b] /\ m.of # b => Excused(b)'
      BY <1>1, <1>2, <1>4, <1>3, <3>2 DEF OfConnection, Reader, Used, Waiting, Excused
    <3>3. \A n \in Items(b)' : n \in Items(b) \/ (b = a /\ n = m)
      BY <1>6
    <3>4. at'[b] \in Linked \cup Heard \cup {"ending"} =>
            \A w \in Attempts : mine'[b] \in Conns /\ w \in Waiting(mine[b])' =>
              w = b \/ ~Working(mine[b])' \/ Excused(b)'
      BY <1>1, <1>4, <1>7, <2>1 DEF OfAttempt, Answer, Waiting, Excused
    <3>5. QED
      BY <3>1, <3>2, <3>3, <3>4 DEF Answer
  <2>5. QED
    BY <1>8, <2>2, <2>3, <2>4, ApartKeeps DEF OfAttempt
<1>12. ASSUME NEW d \in Conns PROVE OfConnection(d)'
  <2>1. OfConnection(d)
    BY DEF Inv
  <2>2. Reader(d)'
    <3>1. CASE d = c
      BY <1>1, <1>2, <1>4, <1>5, <3>1 DEF Reader, Used, Holding
    <3>2. CASE d # c
      <4>1. reader'[d] = reader[d]
            /\ (Holding(d) => box'[reader[d].to].closed = box[reader[d].to].closed)
        BY <1>5, <1>6, <2>1, <3>2 DEF OfConnection, Reader
      <4>2. QED
        BY <1>1, <1>4, <2>1, <4>1 DEF OfConnection, Reader, Used, Holding, Waiting, Excused
    <3>3. QED
      BY <3>1, <3>2
  <2>3. Requests(d)'
    BY <1>1, <1>4, <1>7, <2>1 DEF OfConnection, Requests, Waiting, Excused
  <2>4. QED
    BY <2>2, <2>3 DEF OfConnection
<1>13. QED
  BY <1>8, <1>9, <1>10, <1>11, <1>12, ApartKeeps DEF Inv

LEMMA FailKeeps ==
  ASSUME Inv, NEW c \in Conns, Fail(c)
  PROVE  Inv'
<1>1. /\ Typed /\ Session /\ OfConnection(c) /\ Used(c) /\ Holding(c) /\ ~Working(c)
      /\ reader[c].at = "fail"
      /\ reader[c].to \in Attempts
  <2>1. Typed /\ Session /\ OfConnection(c) /\ reader[c].at = "fail"
    BY DEF Inv, Fail
  <2>2. QED
    BY <2>1 DEF OfConnection, Reader, Holding, Working
<1>2. PICK a \in Attempts : a = reader[c].to
  BY <1>1
<1>3. PICK m \in Messages : m.conn = c /\ m.of = a /\ m.kind = "lost" /\ m = Message(c, a, "lost")
  BY <1>1 DEF Messages, Message, Kinds
<1>4. /\ reader' = [reader EXCEPT ![c] = [Reading EXCEPT !.at = "leave"]]
      /\ \/ box[a].closed /\ UNCHANGED <<active, box>>
         \/ /\ active' = (IF active = a THEN Nobody ELSE active) /\ UNCHANGED crash
            /\ \/ box' = [box EXCEPT ![a] = [items |-> Append(box[a].items, m), closed |-> TRUE]]
               \/ box' = [box EXCEPT ![a].closed = TRUE]
      /\ UNCHANGED <<executor, handler, current, auth, warm, stored, closing, wire, begun, at,
                     mine, failed, heard, holder, cut, late, warmed, strayed, unpinned, overtaken,
                     conn, authID, open, dialled>>
  BY <1>1, <1>2, <1>3 DEF Fail, Panic, Clear, Typed, downstream, store, provider, progress, channel,
     history, link
<1>5. /\ reader'[c].at = "leave" /\ \A d \in Conns : d # c => reader'[d] = reader[d]
      /\ reader' \in [Conns -> Loops]
  <2>1. Reading \in Loops /\ reader \in [Conns -> Loops]
    BY <1>1 DEF Typed, Reading, Loops, Kinds
  <2>2. reader'[c] = [Reading EXCEPT !.at = "leave"]
        /\ \A d \in Conns : d # c => reader'[d] = reader[d]
    BY <1>4, <2>1
  <2>3. reader'[c].at = "leave" /\ reader'[c] \in Loops
    BY <2>1, <2>2 DEF Loops
  <2>4. QED
    BY <1>4, <2>1, <2>2, <2>3
<1>6. /\ box'[a].closed /\ \A b \in Attempts : b # a => box'[b] = box[b]
      /\ box' \in [Attempts -> Boxes]
      /\ \A b \in Attempts : \A n \in Items(b)' : n \in Items(b) \/ (b = a /\ n = m)
  <2>1. box[a] \in Boxes /\ box[a].items \in Seq(Messages)
    BY <1>1, TypeFacts DEF Typed
  <2>2. Append(box[a].items, m) \in Seq(Messages)
        /\ ToSet(Append(box[a].items, m)) = Items(a) \cup {m}
    BY <2>1, AppendFacts DEF Items
  <2>3. CASE box[a].closed /\ box' = box
    BY <1>1, <2>3 DEF Typed, Items
  <2>4. CASE box' = [box EXCEPT ![a] = [items |-> Append(box[a].items, m), closed |-> TRUE]]
    <3>1. box'[a] = [items |-> Append(box[a].items, m), closed |-> TRUE]
          /\ \A b \in Attempts : b # a => box'[b] = box[b]
      BY <1>1, <2>4 DEF Typed
    <3>2. Items(a)' = Items(a) \cup {m}
      BY <2>2, <3>1 DEF Items
    <3>3. box'[a] \in Boxes /\ box' \in [Attempts -> Boxes]
      BY <1>1, <2>2, <2>4, <3>1 DEF Typed, Boxes
    <3>4. QED
      <4>1. \A n \in Items(a)' : n \in Items(a) \/ n = m
        BY <3>2
      <4>2. \A b \in Attempts : b # a => Items(b)' = Items(b)
        BY <3>1 DEF Items
      <4>3. QED
        BY <3>1, <3>3, <4>1, <4>2
  <2>5. CASE box' = [box EXCEPT ![a].closed = TRUE]
    <3>1. box'[a].closed /\ box'[a].items = box[a].items
          /\ \A b \in Attempts : b # a => box'[b] = box[b]
      BY <1>1, <2>1, <2>5 DEF Typed, Boxes
    <3>2. box' \in [Attempts -> Boxes]
      BY <1>1, <2>1, <2>5 DEF Typed, Boxes
    <3>3. QED
      BY <3>1, <3>2 DEF Items
  <2>6. QED
    BY <1>4, <2>3, <2>4, <2>5
<1>7. /\ \A d \in Conns : /\ Working(d)' = Working(d)
                          /\ Holding(d)' => Holding(d) /\ reader'[d] = reader[d] /\ d # c
      /\ \A d \in Conns : reader[d].at \in {"leave", "off"} => reader'[d] = reader[d]
  BY <1>1, <1>5 DEF Working, Holding
<1>8. Apart
  BY <1>4, <1>7 DEF Apart
<1>9. Typed' /\ active' # a /\ (active' = active \/ (active = a /\ active' = Nobody))
  <2>1. box[a].closed => active # a
    BY DEF Inv, OfAttempt, Channel
  <2>2. active' # a /\ (active' = active \/ (active = a /\ active' = Nobody)) /\ Nobody # a
    BY <1>1, <1>4, <2>1, TypeFacts
  <2>3. active' \in Attempts \cup {Nobody}
    BY <1>1, <2>2 DEF Typed
  <2>4. QED
    BY <1>1, <1>4, <1>5, <1>6, <2>2, <2>3 DEF Typed
<1>10. Session'
  <2>1. ~stored' /\ ~closing' /\ ~overtaken' => conn' = NoConn /\ \A b \in Attempts : ~Connects(b)'
    BY <1>1, <1>4 DEF Session, Connects
  <2>2. crash' = crash \/ \E d \in Conns \ {c} : Used(d)
    BY <1>1, <1>2, <1>4 DEF OfConnection, Reader
  <2>3. crash' # "none" => \E d, e \in Conns : d # e /\ Used(d)' /\ Used(e)'
    BY <1>1, <1>4, <2>2 DEF Session, Used
  <2>4. QED
    BY <1>8, <2>1, <2>3, ApartKeeps DEF Session
<1>11. ASSUME NEW b \in Attempts PROVE OfAttempt(b)'
  <2>1. OfAttempt(b) /\ (\A n \in Items(b) : n.conn \in Conns) /\ b # Nobody
    BY <1>1, TypeFacts DEF Inv
  <2>2. at[a] \notin Early
    BY <1>1, <1>2 DEF Inv, OfAttempt, Channel
  <2>3. Channel(b)'
    <3>1. CASE b = a
      BY <1>4, <1>6, <1>9, <2>2, <3>1 DEF Channel
    <3>2. CASE b # a
      BY <1>4, <1>6, <1>7, <1>9, <2>1, <3>2 DEF OfAttempt, Channel
    <3>3. QED
      BY <3>1, <3>2
  <2>4. Told(b)'
    <3>1. CASE b = a
      BY <1>6, <3>1 DEF Told
    <3>2. CASE b # a
      <4>1. at[b] \in {"write", "rewrite", "stream"} => mine[b] \in Conns
        BY <2>1 DEF OfAttempt, Connection, Linked
      <4>2. \A d \in Conns : reader[d].at = "fail" /\ reader[d].to = b => reader'[d] = reader[d]
        BY <1>2, <1>5, <3>2
      <4>3. QED
        BY <1>4, <1>6, <1>7, <2>1, <3>2, <4>1, <4>2 DEF OfAttempt, Told
    <3>3. QED
      BY <3>1, <3>2
  <2>5. Answer(b)'
    <3>1. ASSUME NEW n \in Items(b)
          PROVE  /\ Used(n.conn)'
                 /\ n.kind = "lost" => reader'[n.conn].at \in {"leave", "off"}
                 /\ n.kind # "lost" => at'[n.of] \in Sent
                 /\ n.kind \in {"end", "error"} => n.of \notin Waiting(n.conn)'
                 /\ n.conn = mine'[b] /\ n.of # b => Excused(b)'
      BY <1>4, <1>7, <2>1, <3>1 DEF OfAttempt, Answer, Used, Waiting, Excused
    <3>2. Used(m.conn)' /\ m.kind = "lost" /\ reader'[m.conn].at = "leave" /\ m.of = a
      BY <1>1, <1>3, <1>4, <1>5 DEF Used
    <3>3. \A n \in Items(b)' : n \in Items(b) \/ (b = a /\ n = m)
      BY <1>6
    <3>4. at'[b] \in Linked \cup Heard \cup {"ending"} =>
            \A w \in Attempts : mine'[b] \in Conns /\ w \in Waiting(mine[b])' =>
              w = b \/ ~Working(mine[b])' \/ Excused(b)'
      BY <1>4, <1>7, <2>1 DEF OfAttempt, Answer, Waiting, Excused
    <3>5. QED
      BY <3>1, <3>2, <3>3, <3>4 DEF Answer
  <2>6. QED
    BY <1>8, <2>3, <2>4, <2>5, ApartKeeps DEF OfAttempt
<1>12. ASSUME NEW d \in Conns PROVE OfConnection(d)'
  <2>1. OfConnection(d)
    BY DEF Inv
  <2>2. Reader(d)'
    <3>1. CASE d = c
      BY <1>1, <1>4, <1>5, <3>1 DEF Reader, Used, Holding
    <3>2. CASE d # c
      <4>1. reader'[d] = reader[d] /\ \E e \in Conns \ {d} : Used(e)'
        BY <1>1, <1>4, <1>5, <3>2 DEF Used
      <4>2. QED
        BY <1>4, <2>1, <4>1 DEF OfConnection, Reader, Used, Holding, Waiting, Excused
    <3>3. QED
      BY <3>1, <3>2
  <2>3. Requests(d)'
    BY <1>4, <1>7, <2>1 DEF OfConnection, Requests, Waiting, Excused
  <2>4. QED
    BY <2>2, <2>3 DEF OfConnection
<1>13. QED
  BY <1>8, <1>9, <1>10, <1>11, <1>12, ApartKeeps DEF Inv

(***************************************************************************)
(* The invariant, and what follows from it.                                *)
(***************************************************************************)
LEMMA StepKeeps == Inv /\ [Next]_vars => Inv'
<1> SUFFICES ASSUME Inv, [Next]_vars PROVE Inv'
  OBVIOUS
<1>1. CASE UNCHANGED vars
  <2>1. /\ UNCHANGED <<executor, handler, current, auth, warm, stored, closing, wire, begun, at,
                       mine, failed, heard, holder, active, box, reader, crash, conn, authID, open,
                       dialled, cut, late, warmed, strayed, unpinned, overtaken>>
    BY <1>1 DEF vars, downstream, store, provider, link, progress, channel, history
  <2>2. Typed' /\ Session' /\ Between'
    BY <2>1 DEF Inv, Typed, Session, Between, Used, Working, Connects, Excused, Settled
  <2>3. ASSUME NEW a \in Attempts PROVE OfAttempt(a)'
    <3>1. Turn(a)' /\ Connection(a)' /\ Channel(a)' /\ Told(a)'
      BY <2>1 DEF Inv, OfAttempt, Turn, Connection, Channel, Told, Settled, Used, Holding, Working
    <3>2. Credential(a)' /\ Answer(a)'
      BY <2>1 DEF Inv, OfAttempt, Credential, Cover, Answer, Items, Used, Working, Excused, Xai,
         Waiting
    <3>3. QED
      BY <3>1, <3>2 DEF OfAttempt
  <2>4. ASSUME NEW c \in Conns PROVE OfConnection(c)'
    BY <2>1 DEF Inv, OfConnection, Reader, Requests, Used, Working, Excused, Waiting, Holding
  <2>5. QED
    BY <2>2, <2>3, <2>4 DEF Inv
<1>2. CASE Leave \/ CloseExecutionSession \/ CloseSession
  BY <1>2, OutsideKeeps, CloseSessionKeeps
<1>3. ASSUME NEW k \in Auths, RemoveCredential(k) \/ \E warmup \in BOOLEAN : Begin(k, warmup)
      PROVE  Inv'
  BY <1>3, BeginKeeps, OutsideKeeps
<1>4. ASSUME NEW a \in Attempts, Attempt(a) PROVE Inv'
  <2>1. CASE Lock(a) \/ Connect(a) \/ DialFails(a) \/ DialRefused(a) \/ SetActive(a)
    BY <2>1, LockKeeps, ConnectKeeps, DialEndsKeeps, SetActiveKeeps
  <2>2. CASE Write(a) \/ WriteFails(a) \/ Receive(a) \/ GiveUp(a) \/ Release(a)
    BY <2>2, WriteKeeps, WriteFailsKeeps, ReceiveKeeps, GiveUpKeeps, ReleaseKeeps
  <2>3. CASE \E c \in Conns : Install(a, c)
    BY <2>3, InstallKeeps
  <2>4. QED
    BY <1>4, <2>1, <2>2, <2>3 DEF Attempt
<1>5. ASSUME NEW c \in Conns, ReadFails(c) \/ Loop(c) PROVE Inv'
  <2>1. CASE Post(c) \/ Fail(c) \/ LeaveLoop(c) \/ ReadFails(c)
    BY <2>1, PostKeeps, FailKeeps, LeaveLoopKeeps, ReadFailsKeeps
  <2>2. CASE \E kind \in Kinds \ {"lost"} : Read(c, kind)
    BY <2>2, ReadKeeps
  <2>3. QED
    BY <1>5, <2>1, <2>2 DEF Loop
<1>6. QED
  BY <1>1, <1>2, <1>3, <1>4, <1>5 DEF Next

LEMMA AlwaysInv == Spec => []Inv
BY InitRight, StepKeeps, PTL DEF Spec

\* An attempt that waits for its answer has a reader that will tell it of one, or of the
\* failure of the connection, unless it came when that reader was leaving: whatever the
\* readers, the closing of the session and the attempts before it did (readUpstreamLoop,
\* setActive and clearActive).
THEOREM NobodyIsStranded == Spec => []NoAttemptStranded
<1>1. Inv => NoAttemptStranded
  BY DEF Inv, OfAttempt, Told, NoAttemptStranded, Working
<1>2. QED
  BY <1>1, AlwaysInv, PTL

\* No attempt takes a part of another's answer, unless an earlier one left its own behind:
\* the reader of another connection closed its channel (readCodexWebsocketMessage), or it
\* was an xAI warm-up, which ends with the first event (XAIWebsocketsExecutor.ExecuteStream).
THEOREM AnswersStayOwn == Spec => []AnswersAreOwn
<1>1. Inv => AnswersAreOwn
  BY DEF Inv, Session, AnswersAreOwn, Excused
<1>2. QED
  BY <1>1, AlwaysInv, PTL

\* A request of xAI goes out on a connection that was dialled with its credential.  One of
\* Codex, which does not compare them (ensureUpstreamConn), may go out under another: on a
\* connection that was kept when the handler changed the credential without a failure of
\* the session's own, after an attempt that was cut off, on a connection on its way out;
\* and in no other case.
THEOREM CredentialStaysOwn == Spec => []OwnCredential
<1>1. Inv => OwnCredential
  <2>1. SUFFICES ASSUME Inv, NEW a \in Attempts, at[a] \in {"write", "rewrite", "stream"}
                 PROVE  \/ dialled[mine[a]] = auth[a]
                        \/ ~Xai /\ \/ mine[a] \in unpinned \/ <<a, mine[a]>> \in late
                                   \/ \E b \in cut : b < a
    BY DEF OwnCredential
  <2>2. Credential(a) /\ at[a] \in Linked
    BY <2>1 DEF Inv, OfAttempt, Linked
  <2>3. ~Xai /\ Excused(a) => \E b \in cut : b < a
    BY <2>1 DEF Inv, Typed, Excused
  <2>4. QED
    BY <2>1, <2>2, <2>3 DEF Credential
<1>2. QED
  BY <1>1, AlwaysInv, PTL

\* A session that is closed and not in use leaves no connection open, unless it was closed
\* before an attempt had connected (closeCodexWebsocketSession).
THEOREM NothingIsOrphaned == Spec => []NoOrphan
<1>1. Inv => NoOrphan
  BY TypeFacts DEF Inv, Session, Typed, NoOrphan
<1>2. QED
  BY <1>1, AlwaysInv, PTL

\* One connection is not enough for a send on a closed channel, or for closing it twice:
\* whoever closes an attempt's channel is another connection's reader (readUpstreamLoop).
THEOREM OneConnectionIsSafe == Spec => []CrashNeedsTwoConnections
<1>1. ASSUME NEW S, IsFiniteSet(S), NEW c \in S, NEW d \in S, c # d PROVE Cardinality(S) > 1
  <2>1. IsFiniteSet({c}) /\ Cardinality({c}) = 1 /\ d \notin {c} /\ {c, d} = {c} \cup {d}
    BY <1>1, FS_Singleton
  <2>2. Cardinality({c, d}) = 2
    BY <2>1, FS_AddElement
  <2>3. QED
    BY <1>1, <2>2, FS_Subset, FS_CardinalityType
<1>2. Inv => CrashNeedsTwoConnections
  <2>1. SUFFICES ASSUME Inv, crash # "none" PROVE Cardinality({c \in Conns : Used(c)}) > 1
    BY DEF CrashNeedsTwoConnections, Used
  <2>2. PICK c, d \in Conns : c # d /\ Used(c) /\ Used(d)
    BY <2>1 DEF Inv, Session
  <2>3. IsFiniteSet({x \in Conns : Used(x)})
    BY UpstreamAssumption, FS_Subset
  <2>4. QED
    BY <1>1, <2>2, <2>3
<1>3. QED
  BY <1>2, AlwaysInv, PTL

\* Who holds the lock has come past it and is not done; only Codex keeps it when refused.
LockKept ==
  \A a \in Attempts : /\ holder = a => at[a] \notin {"idle", "lock", "done"}
                      /\ at[a] = "refused" => ~Xai

LEMMA LockKeptByAttempt ==
  ASSUME Inv, LockKept, NEW a \in Attempts, Attempt(a)
  PROVE  LockKept'
<1>1. Typed /\ Nobody \notin Attempts
  BY TypeFacts DEF Inv
<1>2. CASE Lock(a) \/ Connect(a) \/ SetActive(a) \/ Write(a)
  <2>1. /\ holder' \in {holder, a} /\ executor' = executor
        /\ \E place \in Places \ {"idle", "lock", "done", "refused"} :
             at' = [at EXCEPT ![a] = place]
    BY <1>1, <1>2 DEF Lock, Connect, SetActive, Write, Places, downstream
  <2>2. at'[a] \notin {"idle", "lock", "done", "refused"}
        /\ \A b \in Attempts : b # a => at'[b] = at[b]
    BY <1>1, <2>1 DEF Typed
  <2>3. QED
    BY <2>1, <2>2 DEF LockKept, Xai
<1>3. CASE \E c \in Conns : Install(a, c)
  <2>1. /\ holder' = holder /\ executor' = executor
        /\ \E place \in {"activate", "rewrite"} : at' = [at EXCEPT ![a] = place]
    BY <1>1, <1>3 DEF Install, downstream
  <2>2. QED
    BY <1>1, <2>1 DEF LockKept, Xai, Typed
<1>4. CASE WriteFails(a) \/ DialFails(a) \/ Release(a)
  <2>1. /\ executor' = executor
        /\ \/ holder' = holder /\ at' = [at EXCEPT ![a] = "reconnect"]
           \/ holder' = Nobody /\ at' = [at EXCEPT ![a] = "done"]
    BY <1>4 DEF WriteFails, DialFails, Release, Finish, downstream
  <2>2. QED
    BY <1>1, <2>1 DEF LockKept, Xai, Typed
<1>5. CASE GiveUp(a) \/ Receive(a)
  <2>1. holder' = holder /\ executor' = executor /\ (at' = at \/ at' = [at EXCEPT ![a] = "ending"])
    BY <1>5 DEF GiveUp, Receive, Handle, LastChunk, progress, downstream
  <2>2. QED
    BY <1>1, <2>1 DEF LockKept, Xai, Typed
<1>6. CASE DialRefused(a)
  <2>1. holder' = holder /\ executor' = executor /\ at' = [at EXCEPT ![a] = "refused"] /\ ~Xai
    BY <1>6 DEF DialRefused, downstream
  <2>2. QED
    BY <1>1, <2>1 DEF LockKept, Xai, Typed
<1>7. QED
  BY <1>2, <1>3, <1>4, <1>5, <1>6 DEF Attempt

\* Attempts hold the session one after the other, and whoever is done has given the lock
\* back, but for a Codex attempt whose handshake was refused (reqMu in ExecuteStream).
THEOREM OneAtATime == Spec => []OneAttemptAtATime
<1>1. Init => LockKept
  BY UpstreamAssumption DEF Init, LockKept, Attempts, Nobody
<1>2. Inv /\ LockKept /\ [Next]_vars => LockKept'
  <2> SUFFICES ASSUME Inv, LockKept, [Next]_vars PROVE LockKept'
    OBVIOUS
  <2>1. CASE UNCHANGED <<at, holder, executor>>
    BY <2>1 DEF LockKept, Xai
  <2>2. ASSUME NEW k \in Auths, NEW warmup \in BOOLEAN, Begin(k, warmup) PROVE LockKept'
    <3>1. current + 1 \in Attempts /\ Typed /\ at[current + 1] = "idle" /\ holder # current + 1
      <4>1. current + 1 \in Attempts /\ Typed /\ current + 1 > current
        BY <2>2, UpstreamAssumption DEF Begin, Inv, Typed, Attempts
      <4>2. at[current + 1] = "idle"
        BY <4>1 DEF Inv, OfAttempt, Turn
      <4>3. QED
        BY <4>1, <4>2 DEF LockKept
    <3>2. at' = [at EXCEPT ![current + 1] = "lock"] /\ holder' = holder /\ executor' = executor
      BY <2>2 DEF Begin
    <3>3. QED
      BY <3>1, <3>2 DEF LockKept, Xai, Typed
  <2>3. CASE Leave \/ CloseExecutionSession \/ CloseSession
    BY <2>1, <2>3 DEF Leave, CloseExecutionSession, TakeOut, CloseSession, progress, downstream
  <2>4. ASSUME NEW k \in Auths, RemoveCredential(k) PROVE LockKept'
    BY <2>1, <2>4 DEF RemoveCredential, TakeOut, progress, downstream
  <2>5. ASSUME NEW c \in Conns, ReadFails(c) \/ Loop(c) PROVE LockKept'
    BY <2>1, <2>5 DEF ReadFails, Loop, Post, Fail, LeaveLoop, Read, progress, downstream
  <2>6. CASE UNCHANGED vars
    BY <2>1, <2>6 DEF vars, progress, downstream
  <2>7. QED
    BY <2>2, <2>3, <2>4, <2>5, <2>6, LockKeptByAttempt DEF Next
<1>3. Inv /\ LockKept => OneAttemptAtATime
  <2>1. ASSUME Inv, LockKept, NEW a \in Attempts PROVE UnderWay(a) => at[a] = "lock" \/ holder = a
    BY <2>1 DEF Inv, OfAttempt, Turn, UnderWay
  <2>2. ASSUME Inv, LockKept, holder # Nobody
        PROVE UnderWay(holder) \/ (~Xai /\ at[holder] = "refused")
    BY <2>2 DEF Inv, Typed, LockKept, UnderWay
  <2>3. QED
    BY <2>1, <2>2 DEF OneAttemptAtATime
<1>4. QED
  BY <1>1, <1>2, <1>3, AlwaysInv, PTL DEF Spec
==============================================================================
