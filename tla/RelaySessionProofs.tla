------------------------- MODULE RelaySessionProofs -------------------------
(***************************************************************************)
(* Proofs about RelaySession: for all requests, sizes of their channels    *)
(* and numbers of messages, a session that closes forgets nobody.          *)
(***************************************************************************)
EXTENDS RelaySession, TLAPS

Boxes == [items : Seq(Kinds), closed : BOOLEAN]
Readers == [at : {"off", "read", "give", "end", "cleanup"},
            id : Requests \cup {Nobody}, item : Kinds]
Cleaners == [at : {"none", "range", "tell", "close", "reset", "unregister", "notify", "done"},
             id : Requests \cup {Nobody}, todo : SUBSET Requests]
Stages == {"idle", "store", "check", "write", "undo", "wait", "ok", "cut", "failed"}
Causes == {"none", "sent on a closed channel", "accessed a map being replaced"}

\* Types; no channel is closed twice (Causes).
Typed ==
  /\ box \in [Requests -> Boxes] /\ reader \in Readers /\ cleaner \in Cleaners
  /\ req \in [Requests -> Stages] /\ crash \in Causes
  /\ pending \subseteq Requests /\ watch \subseteq Requests /\ gone \subseteq Requests
  /\ full \subseteq Requests /\ closed \in BOOLEAN
  /\ registered \in BOOLEAN /\ credential \in BOOLEAN
  /\ handler \in {"register", "announce", "run", "done"}

(***************************************************************************)
(* Channels.                                                               *)
(***************************************************************************)
\* A terminal message is among s.
Ends(s) == \E i \in 1 .. Len(s) : s[i] \in Terminal

LEMMA EndsOfNothing == ~Ends(<<>>)
BY DEF Ends

LEMMA EndsAppend ==
  ASSUME NEW s \in Seq(Kinds), NEW x \in Kinds
  PROVE  Append(s, x) \in Seq(Kinds) /\ (Ends(Append(s, x)) <=> Ends(s) \/ x \in Terminal)
BY DEF Ends

LEMMA EndsHead ==
  ASSUME NEW s \in Seq(Kinds), s # <<>>
  PROVE  /\ Head(s) \in Kinds /\ Tail(s) \in Seq(Kinds)
         /\ Head(s) \in Terminal => Ends(s)
         /\ Head(s) \notin Terminal => (Ends(Tail(s)) <=> Ends(s))
<1>1. Head(s) = s[1] /\ Len(s) \in Nat /\ Len(s) >= 1 /\ Head(s) \in Kinds /\ Tail(s) \in Seq(Kinds)
  OBVIOUS
<1>2. Head(s) \in Terminal => Ends(s)
  BY <1>1 DEF Ends
<1>3. ASSUME Ends(Tail(s)) PROVE Ends(s)
  <2>1. PICK i \in 1 .. Len(Tail(s)) : Tail(s)[i] \in Terminal
    BY <1>3 DEF Ends
  <2>2. i + 1 \in 1 .. Len(s) /\ s[i + 1] = Tail(s)[i]
    BY <1>1
  <2>3. QED
    BY <2>1, <2>2 DEF Ends
<1>4. ASSUME Ends(s), Head(s) \notin Terminal PROVE Ends(Tail(s))
  <2>1. PICK i \in 1 .. Len(s) : s[i] \in Terminal
    BY <1>4 DEF Ends
  <2>2. i # 1
    BY <2>1, <1>1, <1>4
  <2>3. i - 1 \in 1 .. Len(Tail(s)) /\ Tail(s)[i - 1] = s[i]
    BY <1>1, <2>2
  <2>4. QED
    BY <2>1, <2>3 DEF Ends
<1>5. QED
  BY <1>1, <1>2, <1>3, <1>4

\* A message more, or a channel closed, changes one box.
LEMMA PutFacts ==
  ASSUME Typed, NEW q \in Requests, NEW x \in Kinds,
         box' = [box EXCEPT ![q].items = Append(@, x)]
  PROVE  /\ box' \in [Requests -> Boxes]
         /\ \A r \in Requests : box'[r].closed = box[r].closed
         /\ \A r \in Requests :
              Ends(box'[r].items) <=> Ends(box[r].items) \/ (r = q /\ x \in Terminal)
<1> DEFINE b == [box[q] EXCEPT !.items = Append(@, x)]
<1>1. box[q] \in Boxes
  BY DEF Typed
<1>2. /\ Append(box[q].items, x) \in Seq(Kinds)
      /\ Ends(Append(box[q].items, x)) <=> Ends(box[q].items) \/ x \in Terminal
  BY <1>1, EndsAppend DEF Boxes
<1>3. b \in Boxes /\ b.items = Append(box[q].items, x) /\ b.closed = box[q].closed
  BY <1>1, <1>2 DEF Boxes
<1>4. box' = [box EXCEPT ![q] = b]
  OBVIOUS
<1> HIDE DEF b
<1>5. QED
  BY <1>2, <1>3, <1>4 DEF Typed

LEMMA CloseFacts ==
  ASSUME Typed, NEW q \in Requests, Close(q)
  PROVE  /\ box' \in [Requests -> Boxes]
         /\ \A r \in Requests : box'[r].closed <=> box[r].closed \/ r = q
         /\ \A r \in Requests : box'[r].items = box[r].items
         /\ crash' = crash
<1> DEFINE b == [box[q] EXCEPT !.closed = TRUE]
<1>1. box[q] \in Boxes
  BY DEF Typed
<1>2. b \in Boxes /\ b.items = box[q].items /\ b.closed
  BY <1>1 DEF Boxes
<1>3. box' = [box EXCEPT ![q] = b] /\ crash' = crash
  BY DEF Close
<1> HIDE DEF b
<1>4. QED
  BY <1>2, <1>3 DEF Typed

LEMMA WithdrawFacts ==
  ASSUME Typed, NEW q \in Requests, Withdraw(q)
  PROVE  /\ pending' = pending \ {q} /\ full' = full /\ crash' = crash
         /\ box' \in [Requests -> Boxes]
         /\ \A r \in Requests : box'[r].closed <=> box[r].closed \/ (r = q /\ q \in pending)
         /\ \A r \in Requests : box'[r].items = box[r].items
BY CloseFacts DEF Withdraw, Typed
(***************************************************************************)
(* The inductive invariant.                                                *)
(***************************************************************************)
HasEnd(r) == Ends(box[r].items)
Cleans(r) == cleaner.at \in {"tell", "close"} /\ cleaner.id = r
Holds(r) == reader.at \in {"give", "end"} /\ reader.id = r
Closes(r) == reader.at = "end" /\ reader.id = r

\* Who holds an entry holds one of a request that has stored it, and written
\* its message if a message came back.
Hands ==
  /\ cleaner.at = "none" <=> ~closed
  /\ handler # "done" => reader.at = "off"
  /\ reader.at \in {"give", "end"} => reader.id \in Requests /\ Written(reader.id)
  /\ cleaner.at \in {"tell", "close"} =>
       cleaner.id \in Requests /\ req[cleaner.id] \notin {"idle", "store"}
  /\ crash # "none" => closed \/ reader.id \in gone

\* Manager and service, until the session is cleaned up and afterwards.
Known ==
  /\ handler = "register" => ~registered /\ ~credential /\ stopper # "cleanup"
  /\ handler = "announce" => ~credential
  /\ cleaner.at = "none" /\ handler # "register" => registered \/ stopper = "cleanup"
  /\ cleaner.at = "none" /\ handler \in {"run", "done"} => credential
  /\ ~early /\ cleaner.at \in {"notify", "done"} => handler # "register" /\ ~registered
  /\ ~early /\ cleaner.at = "done" => handler \in {"run", "done"} /\ ~credential

\* The channel of a request is new until the request stores it.
Untouched(r) ==
  req[r] \in {"idle", "store"} => ~box[r].closed /\ ~HasEnd(r) /\ r \notin pending

\* The cleanup will still meet whoever may wait.
ToBeMet(r) ==
  req[r] \in {"write", "wait"} =>
    \/ box[r].closed
    \/ /\ r \in pending
       /\ \/ cleaner.at = "none"
          \/ cleaner.at \in {"range", "tell", "close"} /\ r \in cleaner.todo
          \/ Cleans(r)

\* As long as session and context are there, a channel is closed when nobody
\* can reach it any more.
GivenUp(r) == box[r].closed => closed \/ r \in gone \/ (r \notin pending /\ ~Holds(r))

\* Whoever closes a channel has put the reason into it.
Told(r) ==
  /\ ~Ended(r)
  /\ \/ box[r].closed
     \/ cleaner.at = "close" /\ cleaner.id = r
     \/ Closes(r)
  => r \in gone \cup full \/ HasEnd(r)
NotCut(r) == req[r] = "cut" => r \in gone \cup full

\* After the cleanup only a request that is about to see it has an entry, before
\* it every context of an entry is watched, and whoever takes or puts the end of
\* an answer takes the entry out.
Late(r) ==
  cleaner.at \in {"unregister", "notify", "done"} /\ r \in pending => req[r] \in {"check", "undo"}
Watching(r) == Written(r) /\ r \in pending /\ cleaner.at = "none" => r \in watch
Leaving(r) ==
  cleaner.at = "none" /\ r \in pending /\ (Ended(r) \/ HasEnd(r)) => r \in gone \/ Closes(r)

Right(r) == /\ Untouched(r) /\ ToBeMet(r) /\ GivenUp(r) /\ Told(r) /\ NotCut(r)
            /\ Late(r) /\ Watching(r) /\ Leaving(r)
Inv == Typed /\ Hands /\ Known /\ \A r \in Requests : Right(r)

LEMMA InitRight == Init => Inv
<1> SUFFICES ASSUME Init PROVE Inv
  OBVIOUS
<1>1. <<>> \in Seq(Kinds) /\ "chunk" \in Kinds
  BY DEF Kinds
<1>2. box \in [Requests -> Boxes] /\ \A r \in Requests : ~box[r].closed /\ box[r].items = <<>>
  BY <1>1 DEF Init, Boxes
<1>3. reader \in Readers /\ cleaner \in Cleaners
  BY <1>1 DEF Init, Free, Readers, Cleaners
<1>4. Typed
  BY <1>2, <1>3 DEF Init, Typed, Stages, Causes
<1>5. Hands /\ Known
  BY DEF Init, Hands, Known, Free
<1>6. ASSUME NEW r \in Requests PROVE Right(r)
  BY <1>2, EndsOfNothing DEF Init, Free, Right, Untouched, ToBeMet, GivenUp, Told, NotCut,
         Late, Watching, Leaving, HasEnd, Cleans, Holds, Closes, Ended, Written
<1>7. QED
  BY <1>4, <1>5, <1>6 DEF Inv

LEMMA ManagerKeeps ==
  ASSUME Inv, crash = "none", Register \/ Announce \/ Run \/ Stop
  PROVE  Inv'
<1> USE DEF Inv
<1>1. UNCHANGED <<box, cleaner, req, crash, pending, watch, gone, full, closed>>
  BY DEF Register, Announce, Run, Stop, session, requests
<1>2. reader' = reader \/ (reader.at = "off" /\ reader' = Free("read"))
  BY DEF Register, Announce, Run, Stop, Hands
<1>3. Typed'
  <2>1. registered' \in BOOLEAN /\ credential' \in BOOLEAN
        /\ handler' \in {"register", "announce", "run", "done"}
    BY DEF Register, Announce, Run, Stop, Typed
  <2>2. QED
    BY <1>1, <1>2, <2>1 DEF Typed, Free, Readers, Kinds
<1>4. Hands' /\ Known'
  BY <1>1, <1>2 DEF Register, Announce, Run, Stop, Hands, Known, Free, Written
<1>5. ASSUME NEW r \in Requests PROVE Right(r)'
  BY <1>1, <1>2 DEF Free, Right, Untouched, ToBeMet, GivenUp, Told, NotCut, Late, Watching,
         Leaving, HasEnd, Cleans, Holds, Closes, Ended, Written
<1>6. QED
  BY <1>3, <1>4, <1>5

(***************************************************************************)
(* The steps of cleanup.                                                   *)
(***************************************************************************)
LEMMA BeginKeeps ==
  ASSUME Inv, crash = "none", NEW caller, BeginCleanup(caller)
  PROVE  Inv'
<1> USE DEF Inv
<1>1. UNCHANGED <<manager, requests, box, reader, crash, pending, full>>
  BY DEF BeginCleanup
<1>2. /\ cleaner.at = "none" /\ closed' = TRUE
      /\ cleaner' \in Cleaners /\ cleaner'.at = "range" /\ cleaner'.todo = pending
  BY DEF BeginCleanup, Typed, Cleaners
<1>3. Typed'
  BY <1>1, <1>2 DEF Typed, manager, requests
<1>4. Hands' /\ Known'
  BY <1>1, <1>2 DEF Hands, Known, Written, manager, requests
<1>5. ASSUME NEW r \in Requests PROVE Right(r)'
  BY <1>1, <1>2 DEF requests, Right, Untouched, ToBeMet, GivenUp, Told, NotCut, Late, Watching,
         Leaving, HasEnd,
         Cleans, Holds, Closes, Ended, Written
<1>6. QED
  BY <1>3, <1>4, <1>5

LEMMA NextKeeps ==
  ASSUME Inv, crash = "none", NEW q \in Requests, CleanNext(q)
  PROVE  Inv'
<1> USE DEF Inv
<1>1. UNCHANGED <<manager, requests, box, reader, crash, pending, full, closed>>
  BY DEF CleanNext
<1>2. /\ cleaner.at = "range" /\ q \in pending /\ ~box[q].closed
      /\ cleaner' \in Cleaners /\ cleaner'.at = "tell" /\ cleaner'.id = q
      /\ cleaner'.todo = cleaner.todo \ {q}
  BY DEF CleanNext, Typed, Cleaners
<1>3. Typed'
  BY <1>1, <1>2 DEF Typed, manager, requests
<1>4. Hands' /\ Known'
  <2>1. req[q] \notin {"idle", "store"}
    BY <1>2 DEF Right, Untouched
  <2>2. QED
    BY <1>1, <1>2, <2>1 DEF Hands, Known, Written, manager, requests
<1>5. ASSUME NEW r \in Requests PROVE Right(r)'
  BY <1>1, <1>2 DEF requests, Right, Untouched, ToBeMet, GivenUp, Told, NotCut, Late, Watching,
         Leaving, HasEnd,
         Cleans, Holds, Closes, Ended, Written
<1>6. QED
  BY <1>3, <1>4, <1>5

LEMMA TellKeeps ==
  ASSUME Inv, crash = "none", CleanTell
  PROVE  Inv'
<1> USE DEF Inv
<1> DEFINE q == cleaner.id
<1>1. UNCHANGED <<manager, requests, pending, reader, closed>>
  BY DEF CleanTell, Offer, Panic
<1>2. cleaner.at = "tell" /\ q \in Requests /\ req[q] \notin {"idle", "store"} /\ closed
  BY DEF CleanTell, Hands
<1> HIDE DEF q
<1>3. CASE crash' # "none"
  <2>1. UNCHANGED <<box, full, cleaner>> /\ crash' \in Causes
    BY <1>3 DEF CleanTell, Offer, Panic, Causes
  <2>2. Typed'
    BY <1>1, <2>1 DEF Typed, manager, requests
  <2>3. Hands' /\ Known'
    BY <1>1, <1>2, <2>1 DEF Hands, Known, Written, manager, requests
  <2>4. ASSUME NEW r \in Requests PROVE Right(r)'
    BY <1>1, <2>1 DEF requests, Right, Untouched, ToBeMet, GivenUp, Told, NotCut, Late,
         Watching, Leaving, HasEnd,
         Cleans, Holds, Closes, Ended, Written
  <2>5. QED
    BY <2>2, <2>3, <2>4
<1>4. CASE crash' = "none"
  <2>1. /\ cleaner' \in Cleaners /\ cleaner'.at = "close" /\ cleaner'.id = q
        /\ cleaner'.todo = cleaner.todo
    BY <1>4 DEF CleanTell, Offer, Panic, Typed, Cleaners, q
  <2>2. \/ box' = [box EXCEPT ![q].items = Append(@, "error")] /\ full' = full
        \/ box' = box /\ full' = full \cup {q}
    BY <1>4 DEF CleanTell, Offer, Panic, q
  <2>3. /\ box' \in [Requests -> Boxes]
        /\ \A r \in Requests : box'[r].closed = box[r].closed
        /\ \A r \in Requests : Ends(box[r].items) => Ends(box'[r].items)
        /\ \A r \in Requests : Ends(box'[r].items) => Ends(box[r].items) \/ r = q
        /\ full' \in SUBSET Requests /\ full \subseteq full'
        /\ q \in full' \/ Ends(box'[q].items)
    BY <1>2, <2>2, PutFacts DEF Typed, Kinds, Terminal
  <2>4. Typed'
    BY <1>1, <1>4, <2>1, <2>3 DEF Typed, manager, requests, Causes
  <2>5. Hands' /\ Known'
    BY <1>1, <1>2, <1>4, <2>1 DEF Hands, Known, Written, manager, requests
  <2>6. ASSUME NEW r \in Requests PROVE Right(r)'
    BY <1>1, <1>2, <2>1, <2>3 DEF requests, Right, Untouched, ToBeMet, GivenUp, Told, NotCut,
         Late, Watching, Leaving, HasEnd,
         Cleans, Holds, Closes, Ended, Written, q
  <2>7. QED
    BY <2>4, <2>5, <2>6
<1>5. QED
  BY <1>3, <1>4

LEMMA ClosedKeeps ==
  ASSUME Inv, crash = "none", CleanClose
  PROVE  Inv'
<1> USE DEF Inv
<1> DEFINE q == cleaner.id
<1>1. UNCHANGED <<manager, requests, pending, reader, closed, full>>
  BY DEF CleanClose
<1>2. cleaner.at = "close" /\ q \in Requests /\ req[q] \notin {"idle", "store"} /\ closed
  BY DEF CleanClose, Hands
<1>3. /\ cleaner' \in Cleaners /\ cleaner'.at = "range" /\ cleaner'.id = Nobody
      /\ cleaner'.todo = cleaner.todo
  BY DEF CleanClose, Typed, Cleaners
<1>4. /\ box' \in [Requests -> Boxes] /\ crash' = crash
      /\ \A r \in Requests : box'[r].closed <=> box[r].closed \/ r = q
      /\ \A r \in Requests : box'[r].items = box[r].items
  BY <1>2, CloseFacts DEF CleanClose
<1> HIDE DEF q
<1>5. Typed'
  BY <1>1, <1>3, <1>4 DEF Typed, manager, requests
<1>6. Hands' /\ Known'
  BY <1>1, <1>2, <1>3, <1>4 DEF Hands, Known, Written, manager, requests
<1>7. ASSUME NEW r \in Requests PROVE Right(r)'
  BY <1>1, <1>2, <1>3, <1>4 DEF requests, q, Right, Untouched, ToBeMet, GivenUp, Told, NotCut,
         Late, Watching, Leaving, HasEnd,
         Cleans, Holds, Closes, Ended, Written
<1>8. QED
  BY <1>5, <1>6, <1>7

LEMMA RestKeeps ==
  ASSUME Inv, crash = "none", CleanRest
  PROVE  Inv'
<1> USE DEF Inv
<1>1. UNCHANGED <<manager, requests, box, reader, crash, pending, full, closed>>
  BY DEF CleanRest
<1>2. /\ cleaner.at = "range" /\ cleaner.todo \cap pending = {}
      /\ cleaner' \in Cleaners /\ cleaner'.at = "reset"
  BY DEF CleanRest, Typed, Cleaners
<1>3. Typed'
  BY <1>1, <1>2 DEF Typed, manager, requests
<1>4. Hands' /\ Known'
  BY <1>1, <1>2 DEF Hands, Known, Written, manager, requests
<1>5. ASSUME NEW r \in Requests PROVE Right(r)'
  BY <1>1, <1>2 DEF requests, Right, Untouched, ToBeMet, GivenUp, Told, NotCut, Late, Watching,
         Leaving, HasEnd,
         Cleans, Holds, Closes, Ended, Written
<1>6. QED
  BY <1>3, <1>4, <1>5

LEMMA ResetKeeps ==
  ASSUME Inv, crash = "none", CleanReset
  PROVE  Inv'
<1> USE DEF Inv
<1>1. UNCHANGED <<manager, requests, box, reader, crash, full, closed>>
  BY DEF CleanReset
<1>2. /\ cleaner.at = "reset" /\ pending' = {}
      /\ cleaner' \in Cleaners /\ cleaner'.at = "unregister"
  BY DEF CleanReset, Typed, Cleaners
<1>3. Typed'
  BY <1>1, <1>2 DEF Typed, manager, requests
<1>4. Hands' /\ Known'
  BY <1>1, <1>2 DEF Hands, Known, Written, manager, requests
<1>5. ASSUME NEW r \in Requests PROVE Right(r)'
  BY <1>1, <1>2 DEF requests, Right, Untouched, ToBeMet, GivenUp, Told, NotCut, Late, Watching,
         Leaving, HasEnd,
         Cleans, Holds, Closes, Ended, Written
<1>6. QED
  BY <1>3, <1>4, <1>5

\* handleSessionClosed, wsOnDisconnected and what follows.
LEMMA FarewellKeeps ==
  ASSUME Inv, crash = "none", CleanUnregister \/ CleanNotify \/ CleanupReturns
  PROVE  Inv'
<1> USE DEF Inv
<1>1. UNCHANGED <<requests, box, pending, crash, full, closed, handler>>
  BY DEF CleanUnregister, CleanNotify, CleanupReturns, session
<1>2. /\ cleaner' \in Cleaners /\ cleaner.at \in {"unregister", "notify", "done"}
      /\ cleaner'.at \in {"notify", "done"}
  BY DEF CleanUnregister, CleanNotify, CleanupReturns, session, Typed, Cleaners
<1>3. reader' = reader \/ (reader.at = "cleanup" /\ reader' = [reader EXCEPT !.at = "off"])
  BY DEF CleanUnregister, CleanNotify, CleanupReturns
<1>4. Typed'
  <2>1. registered' \in BOOLEAN /\ credential' \in BOOLEAN
    BY DEF CleanUnregister, CleanNotify, CleanupReturns, Typed
  <2>2. QED
    BY <1>1, <1>2, <1>3, <2>1 DEF Typed, requests, Readers
<1>5. Hands'
  BY <1>1, <1>2, <1>3 DEF Hands, Written, requests, Typed, Readers
<1>6. Known'
  <2>1. CASE CleanUnregister
    BY <2>1, <1>1 DEF CleanUnregister, Known, Typed, Cleaners
  <2>2. CASE CleanNotify
    BY <2>2, <1>1 DEF CleanNotify, Known, Typed, Cleaners
  <2>3. CASE CleanupReturns
    BY <2>3, <1>1, <1>2 DEF CleanupReturns, session, Known
  <2>4. QED
    BY <2>1, <2>2, <2>3
<1>7. ASSUME NEW r \in Requests PROVE Right(r)'
  BY <1>1, <1>2, <1>3 DEF requests, Typed, Readers, Right, Untouched, ToBeMet, GivenUp, Told,
         NotCut, Late, Watching, Leaving, HasEnd,
         Cleans, Holds, Closes, Ended, Written
<1>8. QED
  BY <1>4, <1>5, <1>6, <1>7

(***************************************************************************)
(* The steps of the reader.                                                *)
(***************************************************************************)
LEMMA ReadKeeps ==
  ASSUME Inv, crash = "none", NEW q \in Requests, NEW x \in Kinds, ReadMessage(q, x)
  PROVE  Inv'
<1> USE DEF Inv
<1>1. UNCHANGED <<manager, session, requests, box, pending, full>>
  BY DEF ReadMessage, TornMap, Panic
<1>2. reader.at = "read" /\ Written(q) /\ handler = "done"
  BY DEF ReadMessage, Hands
<1>3. \/ crash' = crash /\ q \in pending /\ reader' = [at |-> "give", id |-> q, item |-> x]
      \/ crash' = crash /\ reader' = reader
      \/ crash' \in Causes /\ cleaner.at = "reset" /\ reader' = reader
  BY DEF ReadMessage, TornMap, Panic, Causes
<1>4. Typed'
  BY <1>1, <1>3 DEF Typed, manager, requests, session, Readers
<1>5. Hands' /\ Known'
  BY <1>1, <1>2, <1>3 DEF Hands, Known, Written, requests, session, manager
<1>6. ASSUME NEW r \in Requests PROVE Right(r)'
  BY <1>1, <1>2, <1>3 DEF Hands, requests, session, Right, Untouched, ToBeMet, GivenUp, Told,
         NotCut, Late, Watching, Leaving, HasEnd,
         Cleans, Holds, Closes, Ended, Written
<1>7. QED
  BY <1>4, <1>5, <1>6

LEMMA GiveKeeps ==
  ASSUME Inv, crash = "none", Give
  PROVE  Inv'
<1> USE DEF Inv
<1> DEFINE q == reader.id
           x == reader.item
<1>1. UNCHANGED <<manager, requests, session, pending>>
  BY DEF Give, Offer, Panic, session
<1>2. reader.at = "give" /\ q \in Requests /\ x \in Kinds /\ Written(q) /\ handler = "done"
  BY DEF Give, Hands, Typed, Readers
<1>3. CASE crash' # "none"
  <2>1. UNCHANGED <<box, full, reader>> /\ crash' \in Causes /\ box[q].closed
    BY <1>3 DEF Give, Offer, Panic, Causes
  <2>2. closed \/ q \in gone
    BY <1>2, <2>1 DEF Right, GivenUp, Holds
  <2>3. Typed'
    BY <1>1, <2>1 DEF Typed, manager, requests, session
  <2>4. Hands' /\ Known'
    BY <1>1, <1>2, <2>1, <2>2 DEF Hands, Known, Written, manager, requests, session
  <2>5. ASSUME NEW r \in Requests PROVE Right(r)'
    BY <1>1, <2>1 DEF requests, session, Right, Untouched, ToBeMet, GivenUp, Told, NotCut,
         Late, Watching, Leaving, HasEnd,
         Cleans, Holds, Closes, Ended, Written
  <2>6. QED
    BY <2>3, <2>4, <2>5
<1>4. CASE crash' = "none"
  <2>1. \/ x \in Terminal /\ reader' = [reader EXCEPT !.at = "end"]
        \/ x \notin Terminal /\ reader' = Free("read")
    BY <1>4 DEF Give, Offer, Panic
  <2>2. \/ box' = [box EXCEPT ![q].items = Append(@, x)] /\ full' = full
        \/ box' = box /\ full' = full \cup {q}
    BY <1>4 DEF Give, Offer, Panic
  <2>3. /\ reader' \in Readers
        /\ \/ x \in Terminal /\ reader'.at = "end" /\ reader'.id = q
           \/ x \notin Terminal /\ reader'.at = "read" /\ reader'.id = Nobody
    BY <1>2, <2>1 DEF Typed, Readers, Free, Kinds
  <2> HIDE DEF q, x
  <2>4. /\ box' \in [Requests -> Boxes]
        /\ \A r \in Requests : box'[r].closed = box[r].closed
        /\ \A r \in Requests : Ends(box[r].items) => Ends(box'[r].items)
        /\ \A r \in Requests : Ends(box'[r].items) =>
             Ends(box[r].items) \/ (r = q /\ x \in Terminal)
        /\ full' \in SUBSET Requests /\ full \subseteq full'
        /\ x \in Terminal => q \in full' \/ Ends(box'[q].items)
    BY <1>2, <2>2, PutFacts DEF Typed
  <2>5. Typed'
    BY <1>1, <1>4, <2>3, <2>4 DEF Typed, manager, requests, session, Causes
  <2>6. Hands' /\ Known'
    BY <1>1, <1>2, <1>4, <2>3 DEF Hands, Known, Written, manager, requests, session
  <2>7. ASSUME NEW r \in Requests PROVE Right(r)'
    BY <1>1, <1>2, <2>3, <2>4, RelayAssumption DEF requests, session, q, Right, Untouched,
         ToBeMet, GivenUp, Told, NotCut, Late, Watching, Leaving, HasEnd,
         Cleans, Holds, Closes, Ended, Written
  <2>8. QED
    BY <2>5, <2>6, <2>7
<1>5. QED
  BY <1>3, <1>4

LEMMA EndKeeps ==
  ASSUME Inv, crash = "none", EndEntry
  PROVE  Inv'
<1> USE DEF Inv
<1> DEFINE q == reader.id
<1>1. UNCHANGED <<manager, requests, session>>
  BY DEF EndEntry
<1>2. /\ reader.at = "end" /\ q \in Requests /\ Written(q) /\ handler = "done"
      /\ reader' \in Readers /\ reader'.at = "read"
  BY DEF EndEntry, Hands, Free, Readers, Kinds
<1> HIDE DEF q
<1>3. CASE Withdraw(q)
  <2>1. /\ pending' = pending \ {q} /\ full' = full /\ crash' = crash
        /\ box' \in [Requests -> Boxes]
        /\ \A r \in Requests : box'[r].closed <=> box[r].closed \/ (r = q /\ q \in pending)
        /\ \A r \in Requests : box'[r].items = box[r].items
    BY <1>2, <1>3, WithdrawFacts
  <2>2. Typed'
    BY <1>1, <1>2, <2>1 DEF Typed, manager, requests, session
  <2>3. Hands' /\ Known'
    BY <1>1, <1>2, <2>1 DEF Hands, Known, Written, manager, requests, session
  <2>4. ASSUME NEW r \in Requests PROVE Right(r)'
    BY <1>1, <1>2, <2>1 DEF requests, session, q, Right, Untouched, ToBeMet, GivenUp, Told,
         NotCut, Late, Watching, Leaving, HasEnd,
         Cleans, Holds, Closes, Ended, Written
  <2>5. QED
    BY <2>2, <2>3, <2>4
<1>4. CASE TornMap
  <2>1. UNCHANGED <<box, full, pending>> /\ cleaner.at = "reset" /\ crash' \in Causes
    BY <1>4 DEF TornMap, Panic, Causes
  <2>2. Typed'
    BY <1>1, <1>2, <2>1 DEF Typed, manager, requests, session
  <2>3. Hands' /\ Known'
    BY <1>1, <1>2, <2>1 DEF Hands, Known, Written, manager, requests, session
  <2>4. ASSUME NEW r \in Requests PROVE Right(r)'
    BY <1>1, <1>2, <2>1 DEF requests, session, q, Right, Untouched, ToBeMet, GivenUp, Told,
         NotCut, Late, Watching, Leaving, HasEnd,
         Cleans, Holds, Closes, Ended, Written
  <2>5. QED
    BY <2>2, <2>3, <2>4
<1>5. QED
  BY <1>3, <1>4 DEF EndEntry, q

LEMMA FailsKeeps ==
  ASSUME Inv, crash = "none", ReadFails
  PROVE  Inv'
<1> USE DEF Inv
<1>1. UNCHANGED <<manager, requests, session, pending, box, crash, full>>
  BY DEF ReadFails
<1>2. reader.at = "read" /\ reader' \in Readers /\ reader'.at = "cleanup" /\ handler = "done"
  BY DEF ReadFails, Typed, Readers, Hands
<1>3. Typed'
  BY <1>1, <1>2 DEF Typed, manager, requests, session
<1>4. Hands' /\ Known'
  BY <1>1, <1>2 DEF Hands, Known, Written, manager, requests, session
<1>5. ASSUME NEW r \in Requests PROVE Right(r)'
  BY <1>1, <1>2 DEF requests, session, Right, Untouched, ToBeMet, GivenUp, Told, NotCut, Late,
         Watching, Leaving, HasEnd,
         Cleans, Holds, Closes, Ended, Written
<1>6. QED
  BY <1>3, <1>4, <1>5

(***************************************************************************)
(* The steps of a request.                                                 *)
(***************************************************************************)
LEMMA SendKeeps ==
  ASSUME Inv, crash = "none", NEW q \in Requests, Send(q)
  PROVE  Inv'
<1> USE DEF Inv
<1>1. UNCHANGED <<manager, session, reader, pending, box, watch, gone, crash, full>>
  BY DEF Send, Own
<1>2. /\ req[q] = "idle" /\ req' \in [Requests -> Stages] /\ req'[q] \in {"store", "failed"}
      /\ \A r \in Requests \ {q} : req'[r] = req[r]
  BY DEF Send, Go, Typed, Stages
<1>3. Typed'
  BY <1>1, <1>2 DEF Typed, manager, session
<1>4. Hands' /\ Known'
  BY <1>1, <1>2 DEF Hands, Known, Written, manager, session
<1>5. ASSUME NEW r \in Requests PROVE Right(r)'
  BY <1>1, <1>2 DEF session, Right, Untouched, ToBeMet, GivenUp, Told, NotCut, Late, Watching,
         Leaving, HasEnd,
         Cleans, Holds, Closes, Ended, Written
<1>6. QED
  BY <1>3, <1>4, <1>5

LEMMA StoreKeeps ==
  ASSUME Inv, crash = "none", NEW q \in Requests, Store(q)
  PROVE  Inv'
<1> USE DEF Inv
<1>1. UNCHANGED <<manager, session, reader, box, watch, gone, full>> /\ req[q] = "store"
  BY DEF Store, Own, Panicked, TornMap, Panic
<1>2. /\ req' \in [Requests -> Stages] /\ \A r \in Requests \ {q} : req'[r] = req[r]
      /\ \/ req'[q] = "check" /\ pending' = pending \cup {q} /\ crash' = crash
         \/ pending' = pending /\ cleaner.at = "reset" /\ crash' = crash /\ req'[q] = "failed"
         \/ pending' = pending /\ cleaner.at = "reset" /\ crash' \in Causes /\ req'[q] = "store"
  BY <1>1 DEF Store, Panicked, TornMap, Panic, Go, Typed, Stages, Causes
<1>3. Typed'
  BY <1>1, <1>2 DEF Typed, manager, session
<1>4. Hands' /\ Known'
  BY <1>1, <1>2 DEF Hands, Known, Written, manager, session
<1>5. ASSUME NEW r \in Requests PROVE Right(r)'
  BY <1>1, <1>2 DEF Hands, session, Right, Untouched, ToBeMet, GivenUp, Told, NotCut, Late,
         Watching, Leaving, HasEnd,
         Cleans, Holds, Closes, Ended, Written
<1>6. QED
  BY <1>3, <1>4, <1>5

LEMMA CheckKeeps ==
  ASSUME Inv, crash = "none", NEW q \in Requests, Check(q)
  PROVE  Inv'
<1> USE DEF Inv
<1>1. UNCHANGED <<manager, session, reader, pending, box, watch, gone, full>> /\ req[q] = "check"
  BY DEF Check, Own, Panicked, TornMap, Panic
<1>2. /\ req' \in [Requests -> Stages] /\ \A r \in Requests \ {q} : req'[r] = req[r]
      /\ \/ q \notin pending /\ req'[q] = "failed" /\ crash' = crash
         \/ q \in pending /\ closed /\ req'[q] = "undo" /\ crash' = crash
         \/ q \in pending /\ ~closed /\ req'[q] = "write" /\ crash' = crash
         \/ cleaner.at = "reset" /\ crash' = crash /\ req'[q] = "failed"
         \/ cleaner.at = "reset" /\ crash' \in Causes /\ req'[q] = "check"
  BY <1>1 DEF Check, Panicked, TornMap, Panic, Go, Typed, Stages, Causes
<1>3. Typed'
  BY <1>1, <1>2 DEF Typed, manager, session
<1>4. Hands' /\ Known'
  BY <1>1, <1>2 DEF Hands, Known, Written, manager, session
<1>5. ASSUME NEW r \in Requests PROVE Right(r)'
  BY <1>1, <1>2 DEF Hands, session, Right, Untouched, ToBeMet, GivenUp, Told, NotCut, Late,
         Watching, Leaving, HasEnd,
         Cleans, Holds, Closes, Ended, Written
<1>6. QED
  BY <1>3, <1>4, <1>5

LEMMA WriteKeeps ==
  ASSUME Inv, crash = "none", NEW q \in Requests, Write(q)
  PROVE  Inv'
<1> USE DEF Inv
<1>1. UNCHANGED <<manager, session, reader, pending, box, gone, crash, full>> /\ req[q] = "write"
  BY DEF Write, Own
<1>2. /\ req' \in [Requests -> Stages] /\ \A r \in Requests \ {q} : req'[r] = req[r]
      /\ \/ req'[q] = "wait" /\ watch' = watch \cup {q}
         \/ req'[q] = "undo" /\ watch' = watch
  BY <1>1 DEF Write, Go, Typed, Stages
<1>3. Typed'
  BY <1>1, <1>2 DEF Typed, manager, session
<1>4. Hands' /\ Known'
  BY <1>1, <1>2 DEF Hands, Known, Written, manager, session
<1>5. ASSUME NEW r \in Requests PROVE Right(r)'
  BY <1>1, <1>2 DEF session, Right, Untouched, ToBeMet, GivenUp, Told, NotCut, Late, Watching,
         Leaving, HasEnd,
         Cleans, Holds, Closes, Ended, Written
<1>6. QED
  BY <1>3, <1>4, <1>5

LEMMA UndoKeeps ==
  ASSUME Inv, crash = "none", NEW q \in Requests, Undo(q)
  PROVE  Inv'
<1> USE DEF Inv
<1>1. UNCHANGED <<manager, session, reader, watch, gone, full>> /\ req[q] = "undo"
  BY DEF Undo, Own, Panicked, TornMap, Panic, Withdraw
<1>2. req' \in [Requests -> Stages] /\ \A r \in Requests \ {q} : req'[r] = req[r]
  BY <1>1 DEF Undo, Panicked, TornMap, Panic, Go, Typed, Stages
<1>3. CASE Withdraw(q) /\ req'[q] = "failed"
  <2>1. /\ pending' = pending \ {q} /\ crash' = crash /\ box' \in [Requests -> Boxes]
        /\ \A r \in Requests : box'[r].closed <=> box[r].closed \/ (r = q /\ q \in pending)
        /\ \A r \in Requests : box'[r].items = box[r].items
    BY <1>3, WithdrawFacts
  <2>2. Typed'
    BY <1>1, <1>2, <2>1 DEF Typed, manager, session
  <2>3. Hands' /\ Known'
    BY <1>1, <1>2, <1>3, <2>1 DEF Hands, Known, Written, manager, session
  <2>4. ASSUME NEW r \in Requests PROVE Right(r)'
    BY <1>1, <1>2, <1>3, <2>1 DEF Hands, session, Right, Untouched, ToBeMet, GivenUp, Told,
         NotCut, Late, Watching, Leaving, HasEnd,
         Cleans, Holds, Closes, Ended, Written
  <2>5. QED
    BY <2>2, <2>3, <2>4
<1>4. CASE Panicked(q)
  <2>1. /\ UNCHANGED <<box, pending>> /\ cleaner.at = "reset" /\ crash' \in Causes
        /\ \/ req'[q] = "undo"
           \/ req'[q] = "failed" /\ crash' = crash
    BY <1>1, <1>4 DEF Panicked, TornMap, Panic, Causes, Typed
  <2>2. Typed'
    BY <1>1, <1>2, <2>1 DEF Typed, manager, session
  <2>3. Hands' /\ Known'
    BY <1>1, <1>2, <2>1 DEF Hands, Known, Written, manager, session
  <2>4. ASSUME NEW r \in Requests PROVE Right(r)'
    BY <1>1, <1>2, <2>1 DEF Hands, session, Right, Untouched, ToBeMet, GivenUp, Told, NotCut,
         Late, Watching, Leaving, HasEnd,
         Cleans, Holds, Closes, Ended, Written
  <2>5. QED
    BY <2>2, <2>3, <2>4
<1>5. QED
  BY <1>3, <1>4 DEF Undo, Go, Typed

LEMMA ReceiveKeeps ==
  ASSUME Inv, crash = "none", NEW q \in Requests, Receive(q)
  PROVE  Inv'
<1> USE DEF Inv
<1> DEFINE s == box[q].items
<1>1. UNCHANGED <<manager, session, reader, pending, watch, gone, crash, full>> /\ req[q] = "wait"
  BY DEF Receive
<1>2. box[q] \in Boxes /\ s \in Seq(Kinds)
  BY DEF Typed, Boxes
<1>3. PICK t \in Seq(Kinds) :
        /\ box' = [box EXCEPT ![q].items = t]
        /\ \/ req' = req /\ (Ends(t) <=> Ends(s))
           \/ req' = [req EXCEPT ![q] = "ok"] /\ t = <<>> /\ Ends(s)
           \/ req' = [req EXCEPT ![q] = "failed"] /\ t = <<>>
                /\ (Ends(s) \/ box[q].closed \/ q \in gone)
           \/ req' = [req EXCEPT ![q] = "cut"] /\ t = <<>> /\ box[q].closed /\ ~Ends(s)
  <2>1. CASE s # <<>> /\ Head(s) = "chunk" /\ box' = [box EXCEPT ![q].items = Tail(@)] /\ req' = req
    <3>1. Head(s) \notin Terminal
      BY <2>1 DEF Terminal
    <3>2. QED
      BY <1>2, <2>1, <3>1, EndsHead
  <2>2. CASE s # <<>> /\ Head(s) \in Terminal /\ (End(q, "ok") \/ End(q, "failed"))
    <3>1. Ends(s) /\ <<>> \in Seq(Kinds)
      BY <1>2, <2>2, EndsHead
    <3>2. QED
      BY <2>2, <3>1 DEF End, Go
  <2>3. CASE s = <<>> /\ box[q].closed /\ (End(q, "failed") \/ End(q, "cut"))
    <3>1. ~Ends(s) /\ <<>> \in Seq(Kinds)
      BY <2>3, EndsOfNothing
    <3>2. QED
      BY <2>3, <3>1 DEF End, Go
  <2>4. CASE q \in gone /\ End(q, "failed")
    <3>1. <<>> \in Seq(Kinds)
      OBVIOUS
    <3>2. QED
      BY <2>4, <3>1 DEF End, Go
  <2>5. QED
    BY <2>1, <2>2, <2>3, <2>4, <1>2, EndsHead DEF Receive, Kinds, Terminal
<1>4. /\ box' \in [Requests -> Boxes]
      /\ \A r \in Requests : box'[r].closed = box[r].closed
      /\ \A r \in Requests \ {q} : box'[r].items = box[r].items
      /\ box'[q].items = t
  <2> DEFINE b == [box[q] EXCEPT !.items = t]
  <2>1. b \in Boxes /\ b.items = t /\ b.closed = box[q].closed
    BY <1>2 DEF Boxes
  <2>2. box' = [box EXCEPT ![q] = b]
    BY <1>3
  <2> HIDE DEF b
  <2>3. QED
    BY <2>1, <2>2 DEF Typed
<1>5. req' \in [Requests -> Stages] /\ \A r \in Requests \ {q} : req'[r] = req[r]
  BY <1>3 DEF Typed, Stages
<1>6. \/ req'[q] = "wait" /\ (Ends(t) <=> Ends(s))
      \/ req'[q] = "ok" /\ Ends(s) /\ ~Ends(t)
      \/ req'[q] = "failed" /\ ~Ends(t) /\ (Ends(s) \/ box[q].closed \/ q \in gone)
      \/ req'[q] = "cut" /\ ~Ends(t) /\ box[q].closed /\ ~Ends(s)
  BY <1>1, <1>3, EndsOfNothing DEF Typed
<1> HIDE DEF s
<1>7. Typed'
  BY <1>1, <1>4, <1>5 DEF Typed, manager, session
<1>8. Hands' /\ Known'
  BY <1>1, <1>5, <1>6 DEF Hands, Known, Written, manager, session
<1>9. ASSUME NEW r \in Requests PROVE Right(r)'
  BY <1>1, <1>4, <1>5, <1>6 DEF Hands, session, s, Right, Untouched, ToBeMet, GivenUp, Told,
         NotCut, Late, Watching, Leaving, HasEnd,
         Cleans, Holds, Closes, Ended, Written
<1>10. QED
  BY <1>7, <1>8, <1>9

LEMMA WatchKeeps ==
  ASSUME Inv, crash = "none", NEW q \in Requests, Watch(q)
  PROVE  Inv'
<1> USE DEF Inv
<1>1. UNCHANGED <<manager, session, reader, req, gone, full>> /\ watch' = watch \ {q}
  BY DEF Watch, Own, TornMap, Panic, Withdraw
<1>2. CASE q \in gone /\ Withdraw(q)
  <2>1. /\ pending' = pending \ {q} /\ crash' = crash /\ box' \in [Requests -> Boxes]
        /\ \A r \in Requests : box'[r].closed <=> box[r].closed \/ (r = q /\ q \in pending)
        /\ \A r \in Requests : box'[r].items = box[r].items
    BY <1>2, WithdrawFacts
  <2>2. Typed'
    BY <1>1, <2>1 DEF Typed, manager, session
  <2>3. Hands' /\ Known'
    BY <1>1, <2>1 DEF Hands, Known, Written, manager, session
  <2>4. ASSUME NEW r \in Requests PROVE Right(r)'
    BY <1>1, <1>2, <2>1 DEF Hands, session, Right, Untouched, ToBeMet, GivenUp, Told, NotCut,
         Late, Watching, Leaving, HasEnd,
         Cleans, Holds, Closes, Ended, Written
  <2>5. QED
    BY <2>2, <2>3, <2>4
<1>3. CASE closed /\ UNCHANGED <<pending, box>> /\ crash' \in Causes
  <2>1. Typed'
    BY <1>1, <1>3 DEF Typed, manager, session
  <2>2. Hands' /\ Known'
    BY <1>1, <1>3 DEF Hands, Known, Written, manager, session
  <2>3. ASSUME NEW r \in Requests PROVE Right(r)'
    BY <1>1, <1>3 DEF Hands, session, Right, Untouched, ToBeMet, GivenUp, Told, NotCut, Late,
         Watching, Leaving, HasEnd,
         Cleans, Holds, Closes, Ended, Written
  <2>4. QED
    BY <2>1, <2>2, <2>3
<1>4. QED
  BY <1>2, <1>3 DEF Watch, TornMap, Panic, Hands, Typed, Causes

LEMMA CancelKeeps ==
  ASSUME Inv, crash = "none", NEW q \in Requests, Cancel(q)
  PROVE  Inv'
<1> USE DEF Inv
<1>1. UNCHANGED <<manager, session, reader, pending, box, req, watch, crash, full>>
      /\ gone' = gone \cup {q}
  BY DEF Cancel, Own
<1>2. Typed'
  BY <1>1 DEF Typed, manager, session
<1>3. Hands' /\ Known'
  BY <1>1 DEF Hands, Known, Written, manager, session
<1>4. ASSUME NEW r \in Requests PROVE Right(r)'
  BY <1>1 DEF session, Right, Untouched, ToBeMet, GivenUp, Told, NotCut, Late, Watching,
         Leaving, HasEnd,
         Cleans, Holds, Closes, Ended, Written
<1>5. QED
  BY <1>2, <1>3, <1>4

(***************************************************************************)
(* The theorems.                                                           *)
(***************************************************************************)
LEMMA StepKeeps == Inv /\ [Next]_vars => Inv'
<1> SUFFICES ASSUME Inv, [Next]_vars PROVE Inv'
  OBVIOUS
<1>1. CASE UNCHANGED vars
  BY <1>1 DEF vars, Inv, Typed, Hands, Known, Right, Untouched, ToBeMet, GivenUp, Told, NotCut,
         Late, Watching, Leaving, HasEnd,
         Cleans, Holds, Closes, Ended, Written
<1>2. CASE Next
  <2>1. crash = "none"
    BY <1>2 DEF Next
  <2>2. CASE Register \/ Announce \/ Run \/ Stop
    BY <2>1, <2>2, ManagerKeeps
  <2>3. CASE \E caller \in {"run", "Stop", "heartbeat"} : BeginCleanup(caller)
    BY <2>1, <2>3, BeginKeeps
  <2>4. CASE Clean
    BY <2>1, <2>4, NextKeeps, TellKeeps, ClosedKeeps, RestKeeps, ResetKeeps,
         FarewellKeeps DEF Clean
  <2>5. CASE Read \/ ReadFails
    BY <2>1, <2>5, GiveKeeps, EndKeeps, FailsKeeps DEF Read
  <2>6. ASSUME NEW r \in Requests, Ask(r) \/ Cancel(r) PROVE Inv'
    BY <2>1, <2>6, SendKeeps, StoreKeeps, CheckKeeps, WriteKeeps, UndoKeeps, ReceiveKeeps,
       WatchKeeps, CancelKeeps DEF Ask
  <2>7. ASSUME NEW r \in Requests, NEW item \in Kinds, ReadMessage(r, item) PROVE Inv'
    BY <2>1, <2>7, ReadKeeps
  <2>8. QED
    BY <1>2, <2>2, <2>3, <2>4, <2>5, <2>6, <2>7 DEF Next
<1>3. QED
  BY <1>1, <1>2

\* The invariant is inductive.
LEMMA AlwaysRight == Spec => []Inv
BY InitRight, StepKeeps, PTL DEF Spec

\* A request that waits when the cleanup has done with the entries finds its
\* channel closed, however its own store and check of s.closed interleaved with
\* the cleanup, for any number of requests.
THEOREM NobodyWaitsForever == Spec => []NoWaiterLost
<1>1. Inv => NoWaiterLost
  BY DEF Inv, Right, ToBeMet, Cleans, NoWaiterLost
<1>2. QED
  BY <1>1, AlwaysRight, PTL

\* dispatch sends on a closed channel only if the request's context or the
\* session is done, and closeOnce lets nobody close a channel twice.
THEOREM PanicsExplained == Spec => []PanicsOnlyWhenGivenUp
<1>1. Inv => PanicsOnlyWhenGivenUp
  BY DEF Inv, Typed, Causes, Hands, PanicsOnlyWhenGivenUp
<1>2. QED
  BY <1>1, AlwaysRight, PTL

\* NonStream takes a closed channel for the end of a stream only if something
\* that the channel could not hold was dropped, or the context is done.
THEOREM CutAnswersExplained == Spec => []NoCutAnswer
<1>1. Inv => NoCutAnswer
  BY DEF Inv, Right, NotCut, NoCutAnswer
<1>2. QED
  BY <1>1, AlwaysRight, PTL

\* Whoever's request has ended has no entry in s.pending, or somebody is about
\* to take it out.
THEOREM EntriesLeave == Spec => []NoEntryLeft
<1>1. Inv => NoEntryLeft
  <2> SUFFICES ASSUME Inv, NEW r \in pending, Ended(r)
               PROVE  \/ r \in gone \cap watch
                      \/ reader.at \in {"give", "end"} /\ reader.id = r
                      \/ cleaner.at \in {"range", "tell", "close", "reset"}
    BY DEF NoEntryLeft
  <2>1. r \in Requests /\ Right(r) /\ Written(r) /\ req[r] \notin {"check", "undo"}
    BY DEF Inv, Typed, Ended, Written
  <2>2. CASE cleaner.at = "none"
    BY <2>1, <2>2 DEF Right, Leaving, Watching, Closes
  <2>3. CASE cleaner.at # "none"
    BY <2>1, <2>3 DEF Right, Late, Inv, Typed, Cleaners
  <2>4. QED
    BY <2>2, <2>3
<1>2. QED
  BY <1>1, AlwaysRight, PTL

\* Registration and credential end with the session, unless it ends before
\* handleWebsocket has announced it.
THEOREM CredentialGoes == Spec => []CredentialFollows
<1>1. Inv => CredentialFollows
  BY DEF Inv, Typed, Hands, Known, CredentialFollows
<1>2. QED
  BY <1>1, AlwaysRight, PTL
=============================================================================
