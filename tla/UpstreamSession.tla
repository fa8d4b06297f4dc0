--------------------------- MODULE UpstreamSession ---------------------------
(***************************************************************************)
(* One execution session of the websocket executors for Codex and xAI      *)
(* (internal/runtime/executor): the attempts that a downstream websocket   *)
(* makes one after the other, the upstream connection they share, the      *)
(* goroutines that read the connections, and whoever closes the session.   *)
(* The two executors are the same program but for the places marked by     *)
(* Xai.  A request that comes when the session has left the store gets     *)
(* another session, which shares nothing with this one.                    *)
(***************************************************************************)
EXTENDS Naturals, SequencesExt, FiniteSets

CONSTANTS
  MaxAttempts,  \* bound on the calls of ExecuteStream
  Conns,        \* the connections that can be dialled
  NoConn,
  Auths,        \* credentials with websockets
  NoAuth,
  Capacity      \* of an attempt's channel (4096)

ASSUME UpstreamAssumption ==
  /\ MaxAttempts \in Nat /\ Capacity \in Nat \ {0}
  /\ IsFiniteSet(Conns) /\ NoConn \notin Conns /\ NoAuth \notin Auths

Attempts == 1..MaxAttempts
Nobody == 0

VARIABLES
  executor,  \* whose session it is: "codex" or "xai"
  handler,   \* the downstream: "serving", "left" or "closed"
  stored,    \* the store holds the session
  closing,   \* it was taken out, its connection is still to be closed
  current,   \* the last attempt
  at,        \* at[a]: where ExecuteStream and its goroutine are
  auth,      \* auth[a]: the credential of the attempt
  warm,      \* the xAI requests with generate:false, which only warm the connection up
  mine,      \* mine[a]: the connection it uses
  failed,    \* the attempts that ended without an answer
  heard,     \* the attempts under way of which the downstream has a part
  holder,    \* who holds reqMu
  conn,      \* sess.conn, which readerConn always equals
  authID,    \* sess.authID
  active,    \* sess.activeCh: the attempt whose channel it is
  box,       \* box[a]: the channel of the attempt
  reader,    \* reader[c]: readUpstreamLoop of the connection
  open,      \* the connections that were not closed here
  wire,      \* wire[c]: the requests that the provider is to answer on c
  begun,     \* the requests of whose answer the provider has sent a part, not yet the end
  crash,     \* why the process panicked
  dialled,   \* history: the credential a connection was dialled with
  cut,       \* history: attempts that found their channel closed and their connection at work
  late,      \* history: attempts, with connections whose readers were leaving when they came
  warmed,    \* history: warm-ups that ended with the beginning of an answer
  strayed,   \* history: attempts that took a part of another's answer
  unpinned,  \* history: connections kept over a change of credential that followed no failure
  overtaken  \* history: the session was closed before an attempt had connected

downstream == <<executor, handler, current, auth, warm>>
store == <<stored, closing>>
provider == <<wire, begun>>
link == <<conn, authID, open, dialled>>
progress == <<at, mine, failed, heard, holder>>
channel == <<active, box>>
history == <<cut, late, warmed, strayed, unpinned, overtaken>>
vars == <<downstream, store, provider, link, progress, channel, reader, crash, history>>

Kinds == {"part", "end", "error", "lost"}

\* One message of a connection: the answer it belongs to and what it is.
Message(c, a, kind) == [conn |-> c, of |-> a, kind |-> kind]
Reading == [at |-> "read", to |-> Nobody, of |-> Nobody, kind |-> "lost"]

Xai == executor = "xai"

Init ==
  /\ executor \in {"codex", "xai"}
  /\ handler = "serving" /\ stored = TRUE /\ closing = FALSE
  /\ current = 0 /\ at = [a \in Attempts |-> "idle"]
  /\ auth = [a \in Attempts |-> NoAuth] /\ mine = [a \in Attempts |-> NoConn]
  /\ warm = {}
  /\ failed = {} /\ heard = {} /\ holder = Nobody
  /\ conn = NoConn /\ authID = NoAuth /\ active = Nobody
  /\ box = [a \in Attempts |-> [items |-> <<>>, closed |-> FALSE]]
  /\ reader = [c \in Conns |-> [Reading EXCEPT !.at = "off"]]
  /\ open = {} /\ wire = [c \in Conns |-> <<>>] /\ begun = {} /\ crash = "none"
  /\ dialled = [c \in Conns |-> NoAuth]
  /\ cut = {} /\ late = {} /\ warmed = {} /\ strayed = {} /\ unpinned = {} /\ overtaken = FALSE

\* ExecuteStream has returned and its stream, if there is one, has had its last chunk.
Settled(a) == at[a] \in {"ending", "done", "refused"}
UnderWay(a) == at[a] \notin {"idle", "done", "refused"}
Connects(a) == at[a] \in {"lock", "connect", "dial", "activate", "write", "reconnect", "redial"}

\* invalidateUpstreamConn: only the session's own connection is taken away and closed.
\* Its notice to the downstream is one of the reasons for which that leaves.
Invalidate(c) ==
  IF conn = c
  THEN conn' = NoConn /\ open' = open \ {c} /\ UNCHANGED <<authID, dialled>>
  ELSE UNCHANGED link

\* closeCodexWebsocketSession and closeXAIWebsocketSessionConnection.
Disconnect ==
  /\ conn' = NoConn /\ open' = open \ {conn}
  /\ UNCHANGED <<authID, dialled>>

\* clearActive.
Clear(a) == active' = IF active = a THEN Nobody ELSE active

(***************************************************************************)
(* The downstream handler.  Its requests follow each other; the first      *)
(* credential that answers stays until a request fails, be it this         *)
(* session's attempt or the choice of a credential, which fails when the   *)
(* one that is to stay was put to rest by somebody else.                   *)
(***************************************************************************)
Idle == current > 0 => Settled(current)

\* The session has a connection of the last credential, which did not fail here.
Keeps(k) == current > 0 /\ current \notin failed /\ auth[current] # k /\ conn # NoConn

Begin(k, warmup) ==
  /\ handler = "serving" /\ stored /\ Idle /\ current < MaxAttempts
  /\ warmup => Xai
  /\ current' = current + 1
  /\ auth' = [auth EXCEPT ![current + 1] = k]
  /\ warm' = IF warmup THEN warm \cup {current + 1} ELSE warm
  /\ at' = [at EXCEPT ![current + 1] = "lock"]
  /\ unpinned' = IF Keeps(k) THEN unpinned \cup {conn} ELSE unpinned
  /\ UNCHANGED <<executor, handler, store, provider, link, mine, failed, heard, holder, channel,
                 reader, crash, cut, late, warmed, strayed, overtaken>>

\* The downstream connection fails when it is read, or written in the middle of an answer.
Leave ==
  /\ handler = "serving" /\ (Idle \/ (current \in heard /\ at[current] = "stream"))
  /\ handler' = "left"
  /\ UNCHANGED <<executor, current, auth, warm, store, provider, link, progress, channel, reader, crash,
                 history>>

\* The session leaves the store.
TakeOut ==
  /\ stored' = FALSE /\ closing' = TRUE
  /\ UNCHANGED <<provider, link, progress, channel, reader, crash, history>>

\* CloseExecutionSession by the handler that leaves.
CloseExecutionSession ==
  /\ handler = "left" /\ handler' = "closed" /\ UNCHANGED <<executor, current, auth, warm>>
  /\ \/ stored /\ TakeOut
     \/ ~stored /\ UNCHANGED <<store, provider, link, progress, channel, reader, crash, history>>

\* CloseCodexWebsocketSessionsForAuthID: the credential k is removed.  The scan of the
\* store changes nothing, so all that is left of it is that authID was k once; the
\* session may have another connection when it is deleted.
RemoveCredential(k) ==
  /\ stored /\ (\E c \in Conns : dialled[c] = k) /\ TakeOut /\ UNCHANGED downstream

\* Mutant: the session is forgotten with its connection.
CloseSessionForgetting ==
  /\ closing /\ closing' = FALSE
  /\ UNCHANGED <<downstream, stored, provider, link, progress, channel, reader, crash, history>>

\* closeCodexWebsocketSession.  An attempt that is to connect does not learn of it.
CloseSession ==
  /\ closing /\ closing' = FALSE /\ Disconnect
  /\ overtaken' = (overtaken \/ \E a \in Attempts : Connects(a))
  /\ UNCHANGED <<downstream, stored, provider, progress, channel, reader, crash, cut, late,
                 warmed, strayed, unpinned>>

(***************************************************************************)
(* ExecuteStream.                                                          *)
(***************************************************************************)
\* The end of an attempt: what is returned, and the lock with it.
Finish(a) ==
  /\ at' = [at EXCEPT ![a] = "done"] /\ holder' = Nobody
  /\ failed' = failed \cup {a}
  /\ UNCHANGED <<mine, heard>>

\* Mutant: nobody looks at the credential of the connection.
LockAnyTarget(a) ==
  /\ at[a] = "lock" /\ holder = Nobody
  /\ holder' = a /\ at' = [at EXCEPT ![a] = "connect"]
  /\ UNCHANGED <<link, mine, failed, heard, downstream, store, provider, channel, reader, crash,
                 history>>

\* reqMu.Lock.  xAI leaves a connection of another credential, or of another
\* handshake, behind.
Lock(a) ==
  /\ at[a] = "lock" /\ holder = Nobody
  /\ holder' = a /\ at' = [at EXCEPT ![a] = "connect"]
  /\ IF Xai /\ authID \notin {NoAuth, auth[a]} THEN Disconnect
     ELSE UNCHANGED link \/ (Xai /\ Disconnect)
  /\ UNCHANGED <<mine, failed, heard, downstream, store, provider, channel, reader, crash, history>>

\* ensureUpstreamConn, with the connection that is there or with a new one.
Connect(a) ==
  /\ at[a] \in {"connect", "reconnect"}
  /\ IF conn = NoConn
     THEN /\ at' = [at EXCEPT ![a] = IF @ = "connect" THEN "dial" ELSE "redial"]
          /\ UNCHANGED mine
     ELSE /\ at' = [at EXCEPT ![a] = IF @ = "connect" THEN "activate" ELSE "rewrite"]
          /\ mine' = [mine EXCEPT ![a] = conn]
  /\ UNCHANGED <<failed, heard, holder, downstream, store, provider, link, channel, reader, crash,
                 history>>

\* The dial succeeds.  Whoever holds reqMu is alone in installing a connection.
Install(a, c) ==
  /\ at[a] \in {"dial", "redial"} /\ dialled[c] = NoAuth
  /\ at' = [at EXCEPT ![a] = IF @ = "dial" THEN "activate" ELSE "rewrite"]
  /\ mine' = [mine EXCEPT ![a] = c] /\ conn' = c /\ authID' = auth[a]
  /\ reader' = [reader EXCEPT ![c] = Reading] /\ open' = open \cup {c}
  /\ dialled' = [dialled EXCEPT ![c] = auth[a]]
  /\ UNCHANGED <<failed, heard, holder, downstream, store, provider, channel, crash, history>>

\* Mutant: the lock is kept when the dial fails.
DialFailsHolding(a) ==
  /\ at[a] \in {"dial", "redial"}
  /\ at' = [at EXCEPT ![a] = "done"] /\ failed' = failed \cup {a} /\ Clear(a)
  /\ UNCHANGED <<mine, heard, holder, box, downstream, store, provider, link, reader, crash, history>>

\* The dial fails, and has no answer of the provider or is the second one.
DialFails(a) ==
  /\ at[a] \in {"dial", "redial"}
  /\ Finish(a) /\ Clear(a)
  /\ UNCHANGED <<box, downstream, store, provider, link, reader, crash, history>>

\* The provider refuses the handshake of the first dial: Codex answers over HTTP
\* when it is told to, and returns without reqMu.Unlock either way.
DialRefused(a) ==
  /\ at[a] = "dial" /\ ~Xai
  /\ at' = [at EXCEPT ![a] = "refused"]
  /\ failed' = failed \cup {a} \/ failed' = failed
  /\ UNCHANGED <<mine, heard, holder, downstream, store, provider, link, channel, reader, crash,
                 history>>

\* setActive with the channel of the attempt.
SetActive(a) ==
  /\ at[a] = "activate" /\ at' = [at EXCEPT ![a] = "write"]
  /\ active' = a
  /\ late' = IF reader[mine[a]].at \in {"read", "post"} THEN late ELSE late \cup {<<a, mine[a]>>}
  /\ UNCHANGED <<mine, failed, heard, holder, box, downstream, store, provider, link, reader,
                 crash, cut, warmed, strayed, unpinned, overtaken>>

\* writeMessage succeeds on a connection that is not closed here.
Write(a) ==
  /\ at[a] \in {"write", "rewrite"} /\ mine[a] \in open
  /\ at' = [at EXCEPT ![a] = "stream"]
  /\ wire' = [wire EXCEPT ![mine[a]] = Append(@, a)]
  /\ UNCHANGED <<mine, failed, heard, holder, downstream, store, begun, link, channel, reader,
                 crash, history>>

\* It fails: once more with another connection, and then no more.
WriteFails(a) ==
  /\ \/ /\ at[a] = "write" /\ at' = [at EXCEPT ![a] = "reconnect"]
        /\ UNCHANGED <<mine, failed, heard, holder, active>>
     \/ at[a] = "rewrite" /\ Finish(a) /\ Clear(a)
  /\ Invalidate(mine[a])
  /\ UNCHANGED <<box, downstream, store, provider, reader, crash, history>>

(***************************************************************************)
(* The goroutine that ExecuteStream leaves behind.                         *)
(***************************************************************************)
\* Its last chunk, after which it still has the lock.
LastChunk(a, answered) ==
  /\ at' = [at EXCEPT ![a] = "ending"]
  /\ failed' = IF answered THEN failed ELSE failed \cup {a}
  /\ heard' = heard \ {a}
  /\ UNCHANGED <<mine, holder>>

\* Mutant: what ends a warm-up ends every request.
HandleEager(a, m) ==
  \/ /\ m.kind = "part" /\ LastChunk(a, TRUE)
     /\ warmed' = warmed \cup ({a} \cap warm) /\ UNCHANGED link
  \/ m.kind \in {"end", "lost"} /\ LastChunk(a, m.kind = "end") /\ UNCHANGED <<link, warmed>>
  \/ /\ m.kind = "error" /\ LastChunk(a, FALSE) /\ UNCHANGED warmed
     /\ Invalidate(mine[a]) \/ (Xai /\ UNCHANGED link)

\* What is done with a message of the attempt's connection.  The first event of an
\* answer, response.created, ends a warm-up; a part of another answer need not be that
\* event.  xAI keeps the connection when an error fails to be seen to.
Handle(a, m) ==
  \/ /\ m.kind = "part" /\ a \in warm /\ LastChunk(a, TRUE)
     /\ warmed' = warmed \cup {a} /\ UNCHANGED link
  \/ /\ m.kind = "part" /\ (a \notin warm \/ m.of # a)
     /\ heard' = heard \cup {a} /\ UNCHANGED <<link, at, mine, failed, holder, warmed>>
  \/ m.kind \in {"end", "lost"} /\ LastChunk(a, m.kind = "end") /\ UNCHANGED <<link, warmed>>
  \/ /\ m.kind = "error" /\ LastChunk(a, FALSE) /\ UNCHANGED warmed
     /\ Invalidate(mine[a]) \/ (Xai /\ UNCHANGED link)

\* readCodexWebsocketMessage skips what comes from another connection.
Receive(a) ==
  /\ at[a] = "stream" /\ box[a].items # <<>>
  /\ box' = [box EXCEPT ![a].items = Tail(@)]
  /\ LET m == Head(box[a].items) IN
     \/ m.conn # mine[a] /\ UNCHANGED <<link, progress, warmed, strayed>>
     \/ /\ m.conn = mine[a] /\ Handle(a, m)
        /\ strayed' = IF m.of = a THEN strayed ELSE strayed \cup {a}
  /\ UNCHANGED <<active, downstream, store, provider, reader, crash, cut, late, unpinned,
                 overtaken>>

\* The channel is closed and empty, or the handler has left.
GiveUp(a) ==
  /\ at[a] = "stream"
  /\ \/ handler # "serving" /\ UNCHANGED cut
     \/ /\ box[a].closed /\ box[a].items = <<>>
        /\ cut' = IF reader[mine[a]].at \in {"leave", "off"} THEN cut ELSE cut \cup {a}
  /\ LastChunk(a, FALSE)
  /\ UNCHANGED <<downstream, store, provider, link, channel, reader, crash, late, warmed, strayed,
                 unpinned, overtaken>>

\* Mutant: the attempt closes its channel.
ReleaseClosing(a) ==
  /\ at[a] = "ending"
  /\ at' = [at EXCEPT ![a] = "done"] /\ holder' = Nobody /\ Clear(a)
  /\ box' = [box EXCEPT ![a].closed = TRUE]
  /\ UNCHANGED <<mine, failed, heard, downstream, store, provider, link, reader, crash, history>>

\* The deferred clearActive and reqMu.Unlock.
Release(a) ==
  /\ at[a] = "ending"
  /\ at' = [at EXCEPT ![a] = "done"] /\ holder' = Nobody /\ Clear(a)
  /\ UNCHANGED <<mine, failed, heard, box, downstream, store, provider, link, reader, crash,
                 history>>

(***************************************************************************)
(* readUpstreamLoop.                                                       *)
(***************************************************************************)
\* A message is read and the active channel looked up.  Without one it is dropped.
\* The provider answers the requests of a connection one after the other, a warm-up
\* perhaps with the beginning of an answer only.
Read(c, kind) ==
  /\ reader[c].at = "read" /\ wire[c] # <<>> /\ kind # "lost"
  /\ LET a == Head(wire[c]) IN
     /\ kind = "part" => a \notin begun
     /\ \/ kind = "part" /\ begun' = begun \cup {a} /\ UNCHANGED wire
        \/ /\ kind # "part" \/ a \in warm
           /\ begun' = begun \ {a} /\ wire' = [wire EXCEPT ![c] = Tail(@)]
     /\ reader' = IF active = Nobody THEN reader
                  ELSE [reader EXCEPT ![c] = [at |-> "post", to |-> active, of |-> a, kind |-> kind]]
  /\ UNCHANGED <<downstream, store, link, progress, channel, crash, history>>

\* Mutant: the attempt is not told of the failure.
ReadFailsQuietly(c) ==
  /\ reader[c].at = "read"
  /\ reader' = [reader EXCEPT ![c].at = "leave"]
  /\ UNCHANGED <<downstream, store, provider, link, progress, channel, crash, history>>

\* The connection fails or sends a binary message: the active channel is looked up.
ReadFails(c) ==
  /\ reader[c].at = "read"
  /\ reader' = [reader EXCEPT ![c].at = IF active = Nobody THEN "leave" ELSE "fail",
                              ![c].to = active]
  /\ UNCHANGED <<downstream, store, provider, link, progress, channel, crash, history>>

Panic(why) == crash' = why /\ UNCHANGED channel

\* The message is sent, or dropped when the attempt is no longer active.
Post(c) ==
  /\ reader[c].at = "post"
  /\ LET a == reader[c].to IN
     \/ box[a].closed /\ Panic("sent on a closed channel")
     \/ /\ ~box[a].closed /\ Len(box[a].items) < Capacity
        /\ box' = [box EXCEPT ![a].items = Append(@, Message(c, reader[c].of, reader[c].kind))]
        /\ UNCHANGED <<active, crash>>
     \/ active # a /\ UNCHANGED <<channel, crash>>
  /\ reader' = [reader EXCEPT ![c] = Reading]
  /\ UNCHANGED <<downstream, store, provider, link, progress, history>>

\* The error is sent if there is room, clearActive, and the channel is closed.
Fail(c) ==
  /\ reader[c].at = "fail"
  /\ LET a == reader[c].to IN
     \/ box[a].closed /\ Panic("closed a closed channel")
     \/ /\ ~box[a].closed /\ Clear(a) /\ UNCHANGED crash
        /\ \/ /\ Len(box[a].items) < Capacity
              /\ box' = [box EXCEPT ![a] = [items |-> Append(@.items, Message(c, a, "lost")),
                                            closed |-> TRUE]]
           \/ /\ Len(box[a].items) = Capacity \/ active # a
              /\ box' = [box EXCEPT ![a].closed = TRUE]
  /\ reader' = [reader EXCEPT ![c] = [Reading EXCEPT !.at = "leave"]]
  /\ UNCHANGED <<downstream, store, provider, link, progress, history>>

\* invalidateUpstreamConn, and the end of the loop.
LeaveLoop(c) ==
  /\ reader[c].at = "leave"
  /\ reader' = [reader EXCEPT ![c].at = "off"]
  /\ Invalidate(c)
  /\ UNCHANGED <<downstream, store, provider, progress, channel, crash, history>>

(***************************************************************************)
(* The specification.                                                      *)
(***************************************************************************)
Attempt(a) ==
  \/ Lock(a) \/ Connect(a) \/ DialFails(a) \/ DialRefused(a) \/ SetActive(a)
  \/ Write(a) \/ WriteFails(a) \/ Receive(a) \/ GiveUp(a) \/ Release(a)
  \/ \E c \in Conns : Install(a, c)

Loop(c) ==
  \/ Post(c) \/ Fail(c) \/ LeaveLoop(c)
  \/ \E kind \in Kinds \ {"lost"} : Read(c, kind)

Next ==
  /\ crash = "none"
  /\ \/ Leave \/ CloseExecutionSession \/ CloseSession
     \/ \E k \in Auths : RemoveCredential(k) \/ \E warmup \in BOOLEAN : Begin(k, warmup)
     \/ \E a \in Attempts : Attempt(a)
     \/ \E c \in Conns : ReadFails(c) \/ Loop(c)

Spec == Init /\ [][Next]_vars

\* Goroutines go on, a dial ends with its time limit, and a read fails when the
\* connection was closed.  The provider answers, or its connection fails: Codex sets
\* a deadline for every read, xAI relies on the provider.
Fairness ==
  /\ \A a \in Attempts : WF_vars(crash = "none" /\ Attempt(a))
  /\ \A c \in Conns : WF_vars(crash = "none" /\ (Loop(c) \/ (c \notin open /\ ReadFails(c))))
  /\ WF_vars(crash = "none" /\ CloseSession)

FairSpec == Spec /\ Fairness

(***************************************************************************)
(* Properties.                                                             *)
(***************************************************************************)
\* Attempts use the session one after the other, and whoever is done gives the
\* lock back; only a Codex attempt whose handshake was refused keeps it.
OneAttemptAtATime ==
  /\ \A a \in Attempts : UnderWay(a) => at[a] = "lock" \/ holder = a
  /\ holder # Nobody => UnderWay(holder) \/ (~Xai /\ at[holder] = "refused")

\* An attempt that waits for an answer has a reader that will tell it of one, or
\* of the failure of its connection, unless it came when that reader was leaving.
NoAttemptStranded ==
  \A a \in Attempts :
    at[a] = "stream" /\ box[a].items = <<>> /\ ~box[a].closed /\ <<a, mine[a]>> \notin late =>
      LET r == reader[mine[a]]
      IN r.at \in {"read", "post"} \/ (r.at = "fail" /\ r.to = a)

\* No attempt takes a part of another's answer, unless an earlier one left its own
\* behind: the channel was closed by the reader of another connection, or it was an
\* xAI warm-up, which does not wait for the end.
AnswersAreOwn == \A a \in strayed : \E b \in cut \cup warmed : b < a

\* A request is sent on a connection that was dialled with its credential: that is so
\* of xAI, which compares them.  Codex does not look, and does send a request under
\* another credential: on a connection that was kept when the handler changed the
\* credential without a failure of this session; after an attempt that was cut off;
\* and on a connection that is on its way out.  Nowhere else.
OwnCredential ==
  \A a \in Attempts :
    at[a] \in {"write", "rewrite", "stream"} =>
      \/ dialled[mine[a]] = auth[a]
      \/ ~Xai /\ \/ mine[a] \in unpinned \/ <<a, mine[a]>> \in late
                 \/ \E b \in cut : b < a

\* When the session is closed and nobody uses it, no connection is left open,
\* unless it was closed before an attempt had connected.
NoOrphan ==
  ~stored /\ ~closing /\ ~overtaken /\ (\A a \in Attempts : ~UnderWay(a)) => open = {}

\* The process panics on a channel only if there are readers of two connections.
CrashNeedsTwoConnections ==
  crash # "none" => Cardinality({c \in Conns : dialled[c] # NoAuth}) > 1

\* Every attempt ends, its waiting for the lock and for the answer included: unless it
\* came when the reader of its connection was leaving, or after a Codex attempt that
\* was refused and kept the lock.
AttemptsEnd ==
  \A a \in Attempts :
    UnderWay(a) ~> \/ ~UnderWay(a) \/ crash # "none"
                   \/ <<a, mine[a]>> \in late \/ (\E b \in Attempts : at[b] = "refused")
==============================================================================
