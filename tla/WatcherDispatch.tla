--------------------------- MODULE WatcherDispatch ---------------------------
(***************************************************************************)
(* The watcher (internal/watcher): what it knows of the credentials and    *)
(* the updates it gives to the service.  File events, reloads of the       *)
(* configuration and runtime providers each work out updates under         *)
(* clientsMutex and hand them over under dispatchMu; one loop delivers     *)
(* them.  A file holds one credential, with the file's content.            *)
(***************************************************************************)
EXTENDS Integers, FiniteSets, SequencesExt

CONSTANTS
  Files, Keys, Runtimes,  \* credentials: of auth files, configured keys, runtime providers
  Contents, None,         \* what a credential says, or that there is none
  Start, Reloads, Calls,  \* the first load, later ones, and calls of runtime providers
  FirstKeys, Changes,     \* the first configuration; [keys, filter, force]: later ones, with the
                          \* credentials whose provider's excluded models changed
  Capacity,               \* of the service's queue
  MaxInputs               \* bound: edits of files, changes of the configuration, calls

Ids == Files \cup Keys \cup Runtimes
Events == "events"
Procs == {Events, Start} \cup Reloads \cup Calls

ASSUME WatcherAssumption ==
  /\ IsFiniteSet(Ids)
  /\ Files \cap Keys = {} /\ (Files \cup Keys) \cap Runtimes = {}
  /\ Start # Events /\ Reloads \cap Calls = {}
  /\ {Events, Start} \cap (Reloads \cup Calls) = {}
  /\ FirstKeys \in [Keys -> Contents \cup {None}]
  /\ Changes \subseteq [keys : [Keys -> Contents \cup {None}], filter : SUBSET Ids, force : BOOLEAN]
  /\ None \notin Contents \cup Files /\ Capacity \in Nat \ {0} /\ MaxInputs \in Nat

VARIABLES
  disk,      \* disk[f]: the content of the file
  keys,      \* keys[k]: the key in w.config
  events,    \* file events that were not taken yet
  known,     \* lastAuthHashes (and fileAuthsByPath): the content that was loaded
  recent,    \* lastRemoveTimes: a removal was handled before
  runtime,   \* runtimeAuths
  current,   \* currentAuths
  proc,      \* proc[p]: where the goroutine p is, and its locals
  pending,   \* pendingOrder with pendingUpdates
  batch,     \* what the dispatch loop still has to send
  queue,     \* the service's queue
  got,       \* got[i]: the last update of i that the service took
  told,      \* history: how many updates of i were handed over
  inputs,    \* history: inputs so far
  astray,    \* history: see ConsumerFollows
  raced      \* history: see CurrentFollowsDisk

vars == <<disk, keys, events, known, recent, runtime, current, proc, pending, batch, queue, got,
          told, inputs, astray, raced>>
sources == <<disk, keys, runtime, inputs>>
delivery == <<pending, batch, queue, got, told>>

Value == Contents \cup {None}
NoCredential == [i \in Ids |-> None]

Rest(at) == [at |-> at, file |-> None, content |-> None, snap |-> NoCredential,
             force |-> FALSE, filter |-> {}, over |-> {}, updates |-> {}]

Init ==
  /\ disk \in [Files -> Value] /\ keys = FirstKeys
  /\ runtime = [w \in Runtimes |-> None]
  /\ events = <<>> /\ known = [f \in Files |-> None] /\ recent = {}
  /\ current = NoCredential
  /\ proc = [p \in Procs |-> Rest(CASE p = Events -> "idle" [] p = Start -> "rescan" [] OTHER -> "begin")]
  /\ pending = <<>> /\ batch = <<>> /\ queue = <<>>
  /\ got = [i \in Ids |-> [n |-> 0, to |-> None]]
  /\ told = [i \in Ids |-> 0]
  /\ inputs = 0 /\ astray = {} /\ raced = {}

\* An update adds, modifies or (to None) deletes.
Update(i, c) == [id |-> i, to |-> c]
About(updates) == {u.id : u \in updates}
Asleep(p) == Rest(IF p = Events THEN "idle" ELSE "done")

\* p leaves clientsMutex with these updates; none are handed over if there are none.
Leave(p, updates) ==
  /\ proc' = [proc EXCEPT ![p] = IF updates = {} THEN Asleep(p)
                                 ELSE [Rest("dispatch") EXCEPT !.updates = updates]]
  /\ astray' = (astray \ About(updates))
               \cup {i \in About(updates) : \E q \in Procs \ {p} : i \in About(proc[q].updates)}

(***************************************************************************)
(* File events (events.go, clients.go).                                    *)
(***************************************************************************)
Goto(p, at) == proc' = [proc EXCEPT ![p].at = at]
Drop(p) == proc' = [proc EXCEPT ![p] = Asleep(p)]
File == proc[Events].file

Input == inputs < MaxInputs /\ inputs' = inputs + 1

\* A file is written (created, replaced) or removed, and an event says so.
Edit(f) ==
  /\ Input
  /\ \E c \in Value :
       /\ c = None => disk[f] # None
       /\ disk' = [disk EXCEPT ![f] = c]
       /\ events' = Append(events, [file |-> f, removal |-> c = None])
  /\ proc' = [p \in Procs |-> IF proc[p].at = "prepare" THEN [proc[p] EXCEPT !.over = @ \cup {f}]
                              ELSE proc[p]]
  /\ UNCHANGED <<keys, known, recent, runtime, current, delivery, astray, raced>>

\* authFileUnchanged.
Unchanged(f) == disk[f] # None /\ disk[f] = known[f]

Work(f, at) == proc' = [proc EXCEPT ![Events].at = at, ![Events].file = f]

\* handleEvent takes an event and looks at the file, after a delay if it was
\* removed: it may have been replaced.  A second removal is dropped if it
\* comes within the debounce window.
HandleEvent ==
  /\ proc[Events].at = "idle" /\ events # <<>>
  /\ events' = Tail(events)
  /\ LET f == Head(events).file
         removal == Head(events).removal
     IN  \E dropped \in (IF removal /\ f \in recent THEN BOOLEAN ELSE {FALSE}) :
         /\ recent' = IF removal THEN recent \cup {f} ELSE recent
         /\ raced' = IF dropped THEN raced \cup {f} ELSE raced
         /\ CASE dropped -> UNCHANGED proc
              [] ~dropped /\ removal /\ disk[f] # None -> Work(f, "check")
              [] ~dropped /\ removal /\ disk[f] = None ->
                   IF known[f] # None THEN Work(f, "remove") ELSE UNCHANGED proc
              [] ~removal -> IF Unchanged(f) THEN UNCHANGED proc ELSE Work(f, "read")
  /\ UNCHANGED <<sources, known, current, delivery, astray>>

Locals == UNCHANGED <<sources, events, known, recent, current, delivery, astray, raced>>

Check ==
  /\ proc[Events].at = "check"
  /\ IF Unchanged(File) THEN Drop(Events) ELSE Goto(Events, "read")
  /\ Locals

\* addOrUpdateClient reads the file once more,
Read ==
  /\ proc[Events].at = "read"
  /\ IF disk[File] = None THEN Drop(Events)
     ELSE proc' = [proc EXCEPT ![Events].at = "apply", ![Events].content = disk[File]]
  /\ Locals

Put(f, c) == IF current[f] = c THEN {} ELSE {Update(f, c)}

\* and applies it under clientsMutex unless a scan has done so.
Apply ==
  /\ proc[Events].at = "apply"
  /\ LET c == proc[Events].content
     IN  IF known[File] = c THEN Drop(Events) /\ UNCHANGED <<known, current, astray, raced>>
         ELSE /\ known' = [known EXCEPT ![File] = c]
              /\ current' = [current EXCEPT ![File] = c]
              /\ raced' = raced \ {File}
              /\ Leave(Events, Put(File, c))
  /\ UNCHANGED <<sources, events, recent, delivery>>

\* removeClient.
RemoveClient ==
  /\ proc[Events].at = "remove"
  /\ known' = [known EXCEPT ![File] = None]
  /\ current' = IF known[File] = None THEN current ELSE [current EXCEPT ![File] = None]
  /\ raced' = IF known[File] = None THEN raced ELSE raced \ {File}
  /\ Leave(Events, IF known[File] = None THEN {} ELSE {Update(File, None)})
  /\ UNCHANGED <<sources, events, recent, delivery>>

(***************************************************************************)
(* Reloads (config_reload.go, clients.go, refreshAuthState).               *)
(***************************************************************************)
\* The configuration changes.
Begin(r) ==
  /\ proc[r].at = "begin" /\ Input
  /\ \E c \in Changes :
       /\ keys' = c.keys
       /\ proc' = [p \in Procs |->
                     CASE p = r -> [proc[r] EXCEPT !.at = IF c.filter = {} THEN "snapshot" ELSE "filter",
                                                !.filter = c.filter, !.force = c.force]
                       [] p # r /\ proc[p].at = "prepare" -> [proc[p] EXCEPT !.over = @ \cup Keys]
                       [] OTHER -> proc[p]]
  /\ UNCHANGED <<disk, runtime, events, known, recent, current, delivery, astray, raced>>

\* The credentials of providers whose excluded models changed are left out of
\* currentAuths, to be added afresh.
Filter(r) ==
  /\ proc[r].at = "filter"
  /\ current' = [i \in Ids |-> IF i \in proc[r].filter THEN None ELSE current[i]]
  /\ astray' = astray \cup {i \in proc[r].filter : current[i] # None}
  /\ proc' = [proc EXCEPT ![r].at = "snapshot", ![r].filter = {}]
  /\ UNCHANGED <<sources, events, known, recent, delivery, raced>>

\* The first load scans the files.
Rescan(r) ==
  /\ proc[r].at = "rescan"
  /\ known' = disk
  /\ Goto(r, "snapshot")
  /\ UNCHANGED <<sources, events, recent, current, delivery, astray, raced>>

Outstanding == {e.file : e \in Range(events)} \cup ({File} \ {None})

\* snapshotCoreAuths holds no lock.
Snapshot(r) ==
  /\ proc[r].at = "snapshot"
  /\ proc' = [proc EXCEPT ![r].at = "prepare", ![r].over = Outstanding,
       ![r].snap = [i \in Ids |-> CASE i \in Files -> disk[i] [] i \in Keys -> keys[i] [] OTHER -> None]]
  /\ Locals

\* prepareAuthUpdatesLocked.
Diff(new, force) ==
  {Update(i, new[i]) : i \in {j \in Ids : new[j] # current[j] \/ (force /\ new[j] # None)}}

\* What is excused after a reload: what changed while it looked, and a file whose
\* removal was dropped, as long as lastAuthHashes still has it (a reload does not
\* refresh the hashes: the file is skipped if it comes back with that content).
Excused(r) ==
  proc[r].over \cup {f \in raced \cap Files : known[f] # proc[r].snap[f]}

\* Mutant: credentials of runtime providers are forgotten by a reload.
PrepareFilesOnly(r) ==
  /\ proc[r].at = "prepare"
  /\ current' = proc[r].snap
  /\ raced' = Excused(r)
  /\ Leave(r, Diff(proc[r].snap, proc[r].force))
  /\ UNCHANGED <<sources, events, known, recent, delivery>>

Prepare(r) ==
  /\ proc[r].at = "prepare"
  /\ LET new == [i \in Ids |-> IF i \in Runtimes THEN runtime[i] ELSE proc[r].snap[i]]
     IN  /\ current' = new
         /\ Leave(r, Diff(new, proc[r].force))
  /\ raced' = Excused(r)
  /\ UNCHANGED <<sources, events, known, recent, delivery>>

(***************************************************************************)
(* Runtime providers, and the dispatcher.                                  *)
(***************************************************************************)
RuntimeUpdate(p) ==
  /\ proc[p].at = "begin" /\ Input
  /\ \E w \in Runtimes, c \in Value :
       /\ runtime' = [runtime EXCEPT ![w] = c]
       /\ current' = [current EXCEPT ![w] = c]
       /\ Leave(p, {Update(w, c)})
  /\ UNCHANGED <<disk, keys, events, known, recent, delivery, raced>>

Numbered(updates) == {[id |-> u.id, to |-> u.to, n |-> told[u.id] + 1] : u \in updates}

\* Mutant: an update that is pending already is kept.
DispatchKeeping(p) ==
  /\ proc[p].at = "dispatch"
  /\ LET new == {u \in Numbered(proc[p].updates) : \A k \in DOMAIN pending : pending[k].id # u.id}
     IN  \E order \in SetToSeqs(new) : pending' = pending \o order
  /\ told' = [i \in Ids |-> IF i \in About(proc[p].updates) THEN told[i] + 1 ELSE told[i]]
  /\ Drop(p)
  /\ UNCHANGED <<sources, events, known, recent, current, batch, queue, got, astray, raced>>

\* dispatchAuthUpdates: a new update takes the place of one that is pending; the
\* order within a call is that of a map.
Dispatch(p) ==
  /\ proc[p].at = "dispatch"
  /\ LET new == Numbered(proc[p].updates)
         Newest(u) == IF u.id \in About(new) THEN CHOOSE v \in new : v.id = u.id ELSE u
         added == {u \in new : \A k \in DOMAIN pending : pending[k].id # u.id}
     IN  \E order \in SetToSeqs(added) :
           pending' = [k \in DOMAIN pending |-> Newest(pending[k])] \o order
  /\ told' = [i \in Ids |-> IF i \in About(proc[p].updates) THEN told[i] + 1 ELSE told[i]]
  /\ Drop(p)
  /\ UNCHANGED <<sources, events, known, recent, current, batch, queue, got, astray, raced>>

Loop == UNCHANGED <<sources, events, known, recent, current, proc, told, astray, raced>>

\* Mutant: a second loop overtakes the one that is still sending.
NextBatchOvertaking ==
  /\ pending # <<>>
  /\ batch' = pending \o batch /\ pending' = <<>>
  /\ Loop /\ UNCHANGED <<queue, got>>

\* nextPendingBatch takes all that is pending.
NextBatch ==
  /\ batch = <<>> /\ pending # <<>>
  /\ batch' = pending /\ pending' = <<>>
  /\ Loop /\ UNCHANGED <<queue, got>>

\* dispatchLoop: one update after another, when the service's queue has room.
Send ==
  /\ batch # <<>> /\ Len(queue) < Capacity
  /\ queue' = Append(queue, Head(batch)) /\ batch' = Tail(batch)
  /\ Loop /\ UNCHANGED <<pending, got>>

\* The service takes an update.
Receive ==
  /\ queue # <<>>
  /\ queue' = Tail(queue)
  /\ got' = [got EXCEPT ![Head(queue).id] = [n |-> Head(queue).n, to |-> Head(queue).to]]
  /\ Loop /\ UNCHANGED <<pending, batch>>

FileEvent == HandleEvent \/ Check \/ Read \/ Apply \/ RemoveClient
Reload(r) == Filter(r) \/ Rescan(r) \/ Snapshot(r) \/ Prepare(r)
Deliver == NextBatch \/ Send \/ Receive

Next == \/ \E f \in Files : Edit(f)
        \/ FileEvent
        \/ \E r \in Reloads : Begin(r)
        \/ \E r \in Reloads \cup {Start} : Reload(r)
        \/ \E p \in Calls : RuntimeUpdate(p)
        \/ \E p \in Procs : Dispatch(p)
        \/ Deliver

\* The dispatch loop and the service's consumer go on.
Spec == Init /\ [][Next]_vars /\ WF_vars(Deliver)

(***************************************************************************)
(* Properties.                                                             *)
(***************************************************************************)
D == INSTANCE WatcherDelivery WITH seen <- [i \in Ids |-> got[i].n]

\* For every credential the service sees updates in the order in which they were
\* handed over, may skip some for a newer one, and comes to see the newest:
\* coalescing, batches and a full queue never bring back an older one.
DeliversInOrder == D!Spec

\* Nothing is under way.
Quiet == /\ events = <<>> /\ pending = <<>> /\ batch = <<>> /\ queue = <<>>
         /\ \A p \in Procs : proc[p].at \in {"idle", "begin", "done"}

\* At rest the service has what currentAuths says, except for credentials whose
\* last two updates were on their way at the same time (they are worked out
\* under one lock and handed over under another), and those that a reload left
\* out of currentAuths and did not find again (nobody tells of their end).
ConsumerFollows == Quiet => \A i \in Ids \ astray : got[i].to = current[i]

\* At rest, once the first load is done, currentAuths has what the files and the
\* configuration say and every runtime credential, except for files whose
\* removal was dropped within a second of the one before until a later event or
\* the first load corrects lastAuthHashes, and those whose content the last
\* reload read while it was changing.
CurrentFollowsDisk ==
  Quiet => /\ \A i \in Files \ raced : current[i] = disk[i]
           /\ \A i \in Keys \ raced : current[i] = keys[i]
           /\ \A i \in Runtimes : current[i] = runtime[i]
=============================================================================
