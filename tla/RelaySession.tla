---------------------------- MODULE RelaySession ----------------------------
(***************************************************************************)
(* One session of the websocket relay (internal/wsrelay): the goroutine    *)
(* that reads the connection, the requests that wait for answers, the      *)
(* goroutines that watch their contexts, whoever closes the session, the   *)
(* manager's registration of it and the credential that the service makes  *)
(* of it (sdk/cliproxy/service.go).  Every session has a provider of its   *)
(* own, since the service gives no provider factory and the name is        *)
(* random: sessions share nothing and none replaces another.               *)
(***************************************************************************)
EXTENDS Naturals, SequencesExt, FiniteSets

CONSTANTS
  Requests,       \* requests for the provider; message ids are unique
  Nobody,
  Capacity,       \* of a request's channel (8)
  MaxMessages     \* bound on what the provider sends

ASSUME RelayAssumption ==
  /\ Nobody \notin Requests
  /\ Capacity \in Nat \ {0} /\ MaxMessages \in Nat

VARIABLES
  handler,    \* where handleWebsocket is
  registered, \* m.sessions holds the session
  credential, \* the service has the session's credential
  stopper,    \* where Stop is
  closed,     \* s.closed is closed
  open,       \* s.conn is open
  pending,    \* s.pending: the requests with an entry
  box,        \* box[r]: the channel of r's entry
  reader,     \* where run and dispatch are, with the message in hand
  cleaner,    \* where the one call of cleanup is
  req,        \* where request and the reader of its channel are
  partial,    \* the requests that have read a part of a stream
  watch,      \* the requests whose contexts are watched
  gone,       \* the requests whose contexts are done
  crash,      \* why the process panicked
  reads,      \* history: how many messages were read
  full,       \* history: requests of which something was dropped
  early       \* history: the disconnect was told before the connect

vars == <<handler, registered, credential, stopper, closed, open, pending, box, reader,
          cleaner, req, partial, watch, gone, crash, reads, full, early>>
manager == <<handler, registered, credential, stopper, early>>
session == <<closed, open, cleaner>>
requests == <<req, watch, gone, partial>>

\* "chunk" stands for stream_start and stream_chunk, "end" for stream_end and http_response.
Kinds == {"chunk", "end", "error"}
Terminal == {"end", "error"}

\* The reader with nothing in hand.
Free(at) == [at |-> at, id |-> Nobody, item |-> "chunk"]

Init ==
  /\ handler = "register" /\ stopper = "idle"
  /\ registered = FALSE /\ credential = FALSE /\ early = FALSE
  /\ closed = FALSE /\ open = TRUE /\ pending = {}
  /\ box = [r \in Requests |-> [items |-> <<>>, closed |-> FALSE]]
  /\ reader = Free("off")
  /\ cleaner = [at |-> "none", id |-> Nobody, todo |-> {}]
  /\ req = [r \in Requests |-> "idle"]
  /\ watch = {} /\ gone = {} /\ crash = "none"
  /\ partial = {} /\ reads = 0 /\ full = {}

Panic(why) == crash' = why /\ UNCHANGED <<box, full, pending>>

\* A non-blocking send on the channel of r, followed by done.
Offer(r, item, done) ==
  \/ box[r].closed /\ Panic("sent on a closed channel") /\ UNCHANGED <<reader, cleaner>>
  \/ /\ ~box[r].closed /\ done
     /\ IF Len(box[r].items) < Capacity
        THEN box' = [box EXCEPT ![r].items = Append(@, item)] /\ full' = full
        ELSE box' = box /\ full' = full \cup {r}
     /\ UNCHANGED <<pending, crash>>

\* Mutant: there is no closeOnce.
CloseTwice(r) ==
  IF box[r].closed THEN crash' = "closed a closed channel" /\ box' = box
  ELSE crash' = crash /\ box' = [box EXCEPT ![r].closed = TRUE]

\* pendingRequest.close.
Close(r) == box' = [box EXCEPT ![r].closed = TRUE] /\ crash' = crash

\* LoadAndDelete and, if there was an entry, close.
Withdraw(r) ==
  /\ pending' = pending \ {r}
  /\ IF r \in pending THEN Close(r) ELSE UNCHANGED <<box, crash>>
  /\ UNCHANGED full

\* cleanup assigns a new map to s.pending: an access at the same time may find
\* the old one, the new one, or one without its parts, and panics then.
TornMap == cleaner.at = "reset" /\ Panic("accessed a map being replaced")

\* In the goroutine of a request a panic may be recovered.
Panicked(r) ==
  \/ TornMap /\ UNCHANGED req
  \/ cleaner.at = "reset" /\ req' = [req EXCEPT ![r] = "failed"] /\ UNCHANGED <<pending, box, crash, full>>

(***************************************************************************)
(* The manager and the service.                                            *)
(***************************************************************************)
\* handleWebsocket, in its three steps.
Register ==
  /\ handler = "register" /\ handler' = "announce" /\ registered' = TRUE
  /\ UNCHANGED <<credential, stopper, early, session, pending, box, reader, requests, crash,
                 reads, full>>

\* wsOnConnected gives the service a credential.
Announce ==
  /\ handler = "announce" /\ handler' = "run" /\ credential' = TRUE
  /\ UNCHANGED <<registered, stopper, early, session, pending, box, reader, requests, crash,
                 reads, full>>

Run ==
  /\ handler = "run" /\ handler' = "done" /\ reader' = Free("read")
  /\ UNCHANGED <<registered, credential, stopper, early, session, pending, box, requests, crash,
                 reads, full>>

\* Stop takes the sessions out of the manager, and cleans them up afterwards.
Stop ==
  /\ stopper = "idle"
  /\ stopper' = IF registered THEN "cleanup" ELSE "done"
  /\ registered' = FALSE
  /\ UNCHANGED <<handler, credential, early, session, pending, box, reader, requests, crash,
                 reads, full>>

(***************************************************************************)
(* cleanup.  Only its first call does anything, the others wait for it.    *)
(***************************************************************************)
\* Called by run when the connection fails, by Stop, or when a ping fails.
BeginCleanup(caller) ==
  /\ cleaner.at = "none"
  /\ caller = "run" => reader.at = "cleanup"
  /\ caller = "Stop" => stopper = "cleanup"
  /\ closed' = TRUE
  /\ cleaner' = [cleaner EXCEPT !.at = "range", !.todo = pending]
  /\ UNCHANGED <<manager, open, pending, box, reader, requests, crash, reads, full>>

\* Range meets every entry that stays, and those that are added if it likes.
\* An entry it has met stays in the map, with a closed channel.
CleanNext(r) ==
  /\ cleaner.at = "range" /\ r \in pending /\ ~box[r].closed
  /\ cleaner' = [cleaner EXCEPT !.at = "tell", !.id = r, !.todo = @ \ {r}]
  /\ UNCHANGED <<manager, closed, open, pending, box, reader, requests, crash, reads, full>>

\* Mutant: the requests are not told why.
CleanTellNothing ==
  /\ cleaner.at = "tell"
  /\ cleaner' = [cleaner EXCEPT !.at = "close"]
  /\ UNCHANGED <<manager, closed, open, requests, reads, reader, box, full, pending, crash>>

CleanTell ==
  /\ cleaner.at = "tell"
  /\ Offer(cleaner.id, "error", cleaner' = [cleaner EXCEPT !.at = "close"] /\ UNCHANGED reader)
  /\ UNCHANGED <<manager, closed, open, requests, reads>>

CleanClose ==
  /\ cleaner.at = "close"
  /\ Close(cleaner.id)
  /\ cleaner' = [cleaner EXCEPT !.at = "range", !.id = Nobody]
  /\ UNCHANGED <<manager, closed, open, pending, reader, requests, reads, full>>

CleanRest ==
  /\ cleaner.at = "range" /\ cleaner.todo \cap pending = {}
  /\ cleaner' = [cleaner EXCEPT !.at = "reset"]
  /\ UNCHANGED <<manager, closed, open, pending, box, reader, requests, crash, reads, full>>

\* The map is replaced and the connection is closed.
CleanReset ==
  /\ cleaner.at = "reset"
  /\ pending' = {} /\ open' = FALSE
  /\ cleaner' = [cleaner EXCEPT !.at = "unregister"]
  /\ UNCHANGED <<manager, closed, box, reader, requests, crash, reads, full>>

\* Mutant: what is not registered any more is not told.
CleanUnregisterQuiet ==
  /\ cleaner.at = "unregister"
  /\ registered' = FALSE
  /\ cleaner' = [cleaner EXCEPT !.at = IF registered THEN "notify" ELSE "done"]
  /\ early' = (early \/ handler = "register")
  /\ UNCHANGED <<handler, credential, stopper, closed, open, pending, box, reader, requests,
                 crash, reads, full>>

\* handleSessionClosed,
CleanUnregister ==
  /\ cleaner.at = "unregister"
  /\ registered' = FALSE
  /\ cleaner' = [cleaner EXCEPT !.at = "notify"]
  /\ early' = (early \/ handler = "register")
  /\ UNCHANGED <<handler, credential, stopper, closed, open, pending, box, reader, requests,
                 crash, reads, full>>

\* and wsOnDisconnected takes the credential away.
CleanNotify ==
  /\ cleaner.at = "notify"
  /\ credential' = FALSE
  /\ early' = (early \/ handler \in {"register", "announce"})
  /\ cleaner' = [cleaner EXCEPT !.at = "done"]
  /\ UNCHANGED <<handler, registered, stopper, closed, open, pending, box, reader, requests,
                 crash, reads, full>>

\* The other callers return.
CleanupReturns ==
  /\ cleaner.at = "done"
  /\ \/ stopper = "cleanup" /\ stopper' = "done" /\ UNCHANGED reader
     \/ reader.at = "cleanup" /\ reader' = [reader EXCEPT !.at = "off"] /\ UNCHANGED stopper
  /\ UNCHANGED <<handler, registered, credential, early, session, pending, box, requests, crash,
                 reads, full>>

Clean == \/ \E r \in Requests : CleanNext(r)
         \/ CleanTell \/ CleanClose \/ CleanRest \/ CleanReset \/ CleanUnregister \/ CleanNotify
         \/ CleanupReturns

(***************************************************************************)
(* run and dispatch.                                                       *)
(***************************************************************************)
\* The provider knows of r.
Written(r) == req[r] \notin {"idle", "store", "check", "write", "undo"}

\* A message is read, and its request looked up.  What comes for nobody is dropped.
ReadMessage(r, item) ==
  /\ reader.at = "read" /\ open
  /\ Written(r) /\ reads < MaxMessages
  /\ reads' = reads + 1
  /\ \/ /\ reader' = IF r \in pending THEN [at |-> "give", id |-> r, item |-> item] ELSE reader
        /\ UNCHANGED <<pending, box, crash, full>>
     \/ TornMap /\ UNCHANGED reader
  /\ UNCHANGED <<manager, session, requests>>

\* The message goes to the channel that was looked up, whatever came between.
Give ==
  /\ reader.at = "give"
  /\ Offer(reader.id, reader.item,
           /\ reader' = IF reader.item \in Terminal THEN [reader EXCEPT !.at = "end"] ELSE Free("read")
           /\ UNCHANGED cleaner)
  /\ UNCHANGED <<manager, closed, open, requests, reads>>

\* Mutant: the entry stays.
EndKeeping ==
  /\ reader.at = "end"
  /\ reader' = Free("read")
  /\ UNCHANGED <<manager, session, requests, reads, pending, box, crash, full>>

EndEntry ==
  /\ reader.at = "end"
  /\ reader' = Free("read")
  /\ Withdraw(reader.id) \/ TornMap
  /\ UNCHANGED <<manager, session, requests, reads>>

\* The connection fails, times out, or was closed.
ReadFails ==
  /\ reader.at = "read"
  /\ reader' = [reader EXCEPT !.at = "cleanup"]
  /\ UNCHANGED <<manager, session, pending, box, requests, crash, reads, full>>

(***************************************************************************)
(* request, and NonStream or Stream that called it.                        *)
(***************************************************************************)
Go(r, at) == req' = [req EXCEPT ![r] = at]
Own == UNCHANGED <<manager, session, reader, reads, partial>>

\* Send asks the manager for the session, whose name is known from its credential.
Send(r) ==
  /\ req[r] = "idle" /\ handler \in {"run", "done"}
  /\ Go(r, IF registered THEN "store" ELSE "failed")
  /\ Own /\ UNCHANGED <<pending, box, watch, gone, crash, full>>

Store(r) ==
  /\ req[r] = "store"
  /\ \/ Go(r, "check") /\ pending' = pending \cup {r} /\ UNCHANGED <<box, crash, full>>
     \/ Panicked(r)
  /\ Own /\ UNCHANGED <<watch, gone>>

\* Mutant: send does not look whether the session is closed.
CheckNothing(r) ==
  /\ req[r] = "check"
  /\ Go(r, IF r \in pending THEN "write" ELSE "failed")
  /\ Own /\ UNCHANGED <<pending, box, watch, gone, crash, full>>

\* The entry is read back; if it is gone the type assertion panics.  Then send
\* looks whether the session is closed.
Check(r) ==
  /\ req[r] = "check"
  /\ \/ /\ Go(r, CASE r \notin pending -> "failed"
                   [] r \in pending -> IF closed THEN "undo" ELSE "write")
        /\ UNCHANGED <<pending, box, crash, full>>
     \/ Panicked(r)
  /\ Own /\ UNCHANGED <<watch, gone>>

Write(r) ==
  /\ req[r] = "write"
  /\ \/ open /\ Go(r, "wait") /\ watch' = watch \cup {r}
     \/ Go(r, "undo") /\ UNCHANGED watch
  /\ Own /\ UNCHANGED <<pending, box, gone, crash, full>>

Undo(r) ==
  /\ req[r] = "undo"
  /\ \/ Go(r, "failed") /\ Withdraw(r)
     \/ Panicked(r)
  /\ Own /\ UNCHANGED <<watch, gone>>

\* NonStream and Stream take what arrives, and end with a terminal message or
\* when nobody wants the answer.  A channel that is closed in the middle of a
\* stream is the end of the answer for NonStream ("cut"), a failure for Stream.
End(r, how) ==
  /\ Go(r, how)
  /\ partial' = partial \ {r}
  /\ box' = [box EXCEPT ![r].items = <<>>]

Receive(r) ==
  /\ req[r] = "wait"
  /\ \/ /\ box[r].items # <<>>
        /\ CASE Head(box[r].items) = "chunk" -> /\ partial' = partial \cup {r}
                                                /\ box' = [box EXCEPT ![r].items = Tail(@)]
                                                /\ req' = req
             [] Head(box[r].items) = "end"   -> End(r, "ok")
             [] Head(box[r].items) = "error" -> End(r, "failed")
     \/ /\ box[r].items = <<>> /\ box[r].closed
        /\ End(r, "failed") \/ (r \in partial /\ End(r, "cut"))
     \/ r \in gone /\ End(r, "failed")
  /\ UNCHANGED <<manager, session, reader, reads, pending, watch, gone, crash, full>>

\* The goroutine that request leaves behind.
Watch(r) ==
  /\ r \in watch
  /\ watch' = watch \ {r}
  /\ \/ r \in gone /\ (Withdraw(r) \/ TornMap)
     \/ closed /\ UNCHANGED <<pending, box, crash, full>>
  /\ Own /\ UNCHANGED <<req, gone>>

\* The context is done: the client went away, or the request ended.  Nobody looks
\* at it before the request waits.
Cancel(r) ==
  /\ r \in watch \/ req[r] = "wait"
  /\ r \notin gone
  /\ gone' = gone \cup {r}
  /\ Own /\ UNCHANGED <<pending, box, req, watch, crash, full>>

Ask(r) == \/ Send(r) \/ Store(r) \/ Check(r) \/ Write(r) \/ Undo(r)
          \/ Receive(r) \/ Watch(r)
Read == Give \/ EndEntry

Next ==
  /\ crash = "none"
  /\ \/ Register \/ Announce \/ Run \/ Stop
     \/ \E caller \in {"run", "Stop", "heartbeat"} : BeginCleanup(caller)
     \/ Clean \/ Read \/ ReadFails
     \/ \E r \in Requests : Ask(r) \/ Cancel(r) \/ (\E item \in Kinds : ReadMessage(r, item))

Spec == Init /\ [][Next]_vars

(***************************************************************************)
(* Properties.                                                             *)
(***************************************************************************)
Ended(r) == req[r] \in {"ok", "cut", "failed"}

\* Nobody waits for a session that is closed: whenever a request was stored and
\* written, the cleanup has met it, or its own look at s.closed, or it ends otherwise.
NoWaiterLost ==
  cleaner.at \in {"reset", "unregister", "notify", "done"} =>
    \A r \in Requests : req[r] = "wait" => box[r].closed

\* The process panics only while something is given up: a message goes to a
\* channel that was closed because its context is done or the session is closed,
\* or meets the map being replaced.  No channel is closed twice, although reader,
\* watcher, cleanup and the request itself may all close it.
PanicsOnlyWhenGivenUp ==
  crash # "none" => /\ closed \/ reader.id \in gone
                    /\ crash # "closed a closed channel"

\* An answer that was cut off is not taken for a whole one, unless its channel
\* was full and the message that says so was dropped, or nobody waits for it.
NoCutAnswer == \A r \in Requests : req[r] = "cut" => r \in gone \cup full

\* An entry belongs to a request that waits, or somebody is about to take it out.
NoEntryLeft ==
  \A r \in pending :
    \/ ~Ended(r)
    \/ r \in gone \cap watch
    \/ reader.at \in {"give", "end"} /\ reader.id = r
    \/ cleaner.at \in {"range", "tell", "close", "reset"}

\* Once its goroutines are at rest, the session is registered and its credential
\* known exactly if it is open; one that ends before handleWebsocket has told of
\* its beginning leaves them behind.
CredentialFollows ==
  handler \in {"run", "done"} /\ ~early /\ cleaner.at \in {"none", "done"} /\ stopper # "cleanup" =>
    registered = ~closed /\ credential = ~closed
=============================================================================
