---------------------------- MODULE UsageManager ----------------------------
(***************************************************************************)
(* The usage manager (sdk/cliproxy/usage/manager.go): request goroutines   *)
(* publish records, one dispatcher goroutine takes them off the queue and  *)
(* calls the plugins, and Stop closes the queue.  The condition variable   *)
(* has one waiter, the dispatcher; a signal with nobody waiting is lost.   *)
(***************************************************************************)
EXTENDS Naturals, Sequences, FiniteSets, SequencesExt

CONSTANTS
  Published,   \* the records; each is published by a goroutine of its own
  Plugins    \* the plugins that may be registered

VARIABLES
  queue, closed,
  started,      \* m.once was used: the dispatcher goroutine exists
  plugins,      \* m.plugins
  publisher,    \* publisher[r]: where the goroutine that publishes r is
  dispatcher,   \* where the dispatcher is, with the item and plugins in hand
  stopper,      \* where the call of Stop is
  accepted,     \* history: the records appended to the queue
  since,        \* history: since[p], how many records p was registered too late for
  got           \* history: got[p], the records plugin p was called with

history == <<accepted, since, got>>
managerVars == <<queue, closed, started, plugins, publisher, dispatcher, stopper, history>>

Run(at, item, todo) == [at |-> at, item |-> item, todo |-> todo]
NoItem == "none"
Ready == Run("ready", NoItem, <<>>)

ManagerInit ==
  /\ queue = <<>> /\ closed = FALSE /\ started = FALSE
  /\ plugins = <<>>
  /\ publisher = [r \in Published |-> "idle"]
  /\ dispatcher = Ready
  /\ stopper = "idle"
  /\ accepted = <<>>
  /\ since = [p \in Plugins |-> 0]
  /\ got = [p \in Plugins |-> <<>>]

\* How many accepted records have left the queue, and the dispatcher's hands.
InHand == IF dispatcher.at \in {"snapshot", "invoke"} THEN 1 ELSE 0
Handed == Len(accepted) - Len(queue) - InHand

(***************************************************************************)
(* Callers.                                                                *)
(***************************************************************************)
\* Publish makes sure the dispatcher runs ...
PublishStart(r) ==
  /\ publisher[r] = "idle"
  /\ started' = TRUE
  /\ publisher' = [publisher EXCEPT ![r] = "append"]
  /\ UNCHANGED <<queue, closed, plugins, dispatcher, stopper, history>>

\* ... appends the record under m.mu, unless the manager is closed ...
PublishAppend(r) ==
  /\ publisher[r] = "append"
  /\ IF closed
     THEN /\ publisher' = [publisher EXCEPT ![r] = "done"]
          /\ UNCHANGED <<queue, accepted>>
     ELSE /\ queue' = Append(queue, r)
          /\ accepted' = Append(accepted, r)
          /\ publisher' = [publisher EXCEPT ![r] = "signal"]
  /\ UNCHANGED <<closed, started, plugins, dispatcher, stopper, since, got>>

Woken == IF dispatcher.at = "waiting" THEN Ready ELSE dispatcher

\* ... and signals after it has released the mutex.
PublishSignal(r) ==
  /\ publisher[r] = "signal"
  /\ dispatcher' = Woken
  /\ publisher' = [publisher EXCEPT ![r] = "done"]
  /\ UNCHANGED <<queue, closed, started, plugins, stopper, history>>

Register(p) ==
  /\ ~Contains(plugins, p)
  /\ plugins' = Append(plugins, p)
  /\ since' = [since EXCEPT ![p] = IF dispatcher.at = "invoke" THEN Handed + 1 ELSE Handed]
  /\ UNCHANGED <<queue, closed, started, publisher, dispatcher, stopper, accepted, got>>

Start ==
  /\ ~started
  /\ started' = TRUE
  /\ UNCHANGED <<queue, closed, plugins, publisher, dispatcher, stopper, history>>

\* Stop marks the manager closed under m.mu, then broadcasts, then returns.
StopClose ==
  /\ stopper = "idle"
  /\ closed' = TRUE
  /\ stopper' = "broadcast"
  /\ UNCHANGED <<queue, started, plugins, publisher, dispatcher, history>>

\* Mutant: the waiting dispatcher is not told.
StopSilently ==
  /\ stopper = "broadcast"
  /\ stopper' = "returned"
  /\ UNCHANGED <<queue, closed, started, plugins, publisher, dispatcher, history>>

StopBroadcast ==
  /\ stopper = "broadcast"
  /\ dispatcher' = Woken
  /\ stopper' = "returned"
  /\ UNCHANGED <<queue, closed, started, plugins, publisher, history>>

(***************************************************************************)
(* The dispatcher goroutine (run and dispatch).                            *)
(***************************************************************************)
Wait ==
  /\ started /\ dispatcher.at = "ready"
  /\ queue = <<>> /\ ~closed
  /\ dispatcher' = Run("waiting", NoItem, <<>>)
  /\ UNCHANGED <<queue, closed, started, plugins, publisher, stopper, history>>

\* Mutant: a closed manager stops at once, whatever is queued.
ExitAtOnce ==
  /\ started /\ dispatcher.at = "ready"
  /\ closed
  /\ dispatcher' = Run("exited", NoItem, <<>>)
  /\ UNCHANGED <<queue, closed, started, plugins, publisher, stopper, history>>

Exit ==
  /\ started /\ dispatcher.at = "ready"
  /\ queue = <<>> /\ closed
  /\ dispatcher' = Run("exited", NoItem, <<>>)
  /\ UNCHANGED <<queue, closed, started, plugins, publisher, stopper, history>>

Take ==
  /\ started /\ dispatcher.at = "ready"
  /\ queue # <<>>
  /\ dispatcher' = Run("snapshot", Head(queue), <<>>)
  /\ queue' = Tail(queue)
  /\ UNCHANGED <<closed, started, plugins, publisher, stopper, history>>

\* dispatch copies the plugin list under pluginsMu.
Snapshot ==
  /\ dispatcher.at = "snapshot"
  /\ dispatcher' = Run("invoke", dispatcher.item, plugins)
  /\ UNCHANGED <<queue, closed, started, plugins, publisher, stopper, history>>

\* One plugin is called; a panic in it is recovered and changes nothing here.
\* Mutant: a panicking plugin ends the hand-out of the record.
InvokeFirstOnly ==
  /\ dispatcher.at = "invoke" /\ dispatcher.todo # <<>>
  /\ got' = [got EXCEPT ![Head(dispatcher.todo)] = Append(@, dispatcher.item)]
  /\ dispatcher' = [dispatcher EXCEPT !.todo = <<>>]
  /\ UNCHANGED <<queue, closed, started, plugins, publisher, stopper, accepted, since>>

Invoke ==
  /\ dispatcher.at = "invoke" /\ dispatcher.todo # <<>>
  /\ got' = [got EXCEPT ![Head(dispatcher.todo)] = Append(@, dispatcher.item)]
  /\ dispatcher' = [dispatcher EXCEPT !.todo = Tail(@)]
  /\ UNCHANGED <<queue, closed, started, plugins, publisher, stopper, accepted, since>>

Finish ==
  /\ dispatcher.at = "invoke" /\ dispatcher.todo = <<>>
  /\ dispatcher' = Ready
  /\ UNCHANGED <<queue, closed, started, plugins, publisher, stopper, history>>

DispatcherStep == Wait \/ Exit \/ Take \/ Snapshot \/ Invoke \/ Finish
PublisherStep(r) == PublishStart(r) \/ PublishAppend(r) \/ PublishSignal(r)

ManagerNext ==
  \/ \E r \in Published : PublisherStep(r)
  \/ \E p \in Plugins : Register(p)
  \/ Start
  \/ StopClose
  \/ StopBroadcast
  \/ DispatcherStep

ManagerSpec == ManagerInit /\ [][ManagerNext]_managerVars

\* The dispatcher runs when it can and a call that has begun goes on: it only
\* holds short mutexes, and plugins return.  No call need ever be made.
Fairness ==
  /\ WF_managerVars(DispatcherStep)
  /\ \A r \in Published : WF_managerVars(PublishAppend(r) \/ PublishSignal(r))
  /\ WF_managerVars(StopBroadcast)

FairSpec == ManagerSpec /\ Fairness

(***************************************************************************)
(* Properties.                                                             *)
(***************************************************************************)
\* A registered plugin was called with every record handed out since it was
\* registered, each once and in the order of acceptance: panics of others,
\* registrations during a dispatch and Stop tear no hole.
EveryRecordInOrder ==
  \A p \in ToSet(plugins) :
    LET called == dispatcher.at = "invoke" /\ ~Contains(dispatcher.todo, p)
    IN  got[p] = SubSeq(accepted, since[p] + 1, IF called THEN Handed + 1 ELSE Handed)

\* The manager is an ordered, complete hand-out of what it accepted: every
\* record is handed out, also those queued when Stop is called.
Delivery ==
  INSTANCE UsageDelivery WITH Records <- Published, handed <- Handed, open <- ~closed
DeliversAll == Delivery!Spec

\* Once Stop was called the dispatcher ends, whoever was waiting or publishing.
StopEndsDispatcher ==
  (stopper = "returned" /\ started) ~> dispatcher.at = "exited"

\* Together: a Stop neither cuts the hand-out short nor leaves the dispatcher behind.
DeliversAndEnds == DeliversAll /\ StopEndsDispatcher
=============================================================================
