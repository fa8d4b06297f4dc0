-------------------------- MODULE AuthRegistration --------------------------
(***************************************************************************)
(* How one credential reaches the three places that hold its state: the    *)
(* conductor (m.auths, under m.mu), the model registry and the scheduler,  *)
(* each with a lock of its own (sdk/cliproxy/service.go and                *)
(* sdk/cliproxy/auth/conductor.go).  Four kinds of goroutine write them,   *)
(* one locked step at a time: the consumer of the watcher's updates, the   *)
(* callback of a changed model catalogue, the token refresh and the        *)
(* requests that record their results or resynchronise the scheduler.      *)
(* The service's executors, hooks and persistence are left out.            *)
(***************************************************************************)
EXTENDS Naturals, Sequences

CONSTANTS
  AuthModels,    \* those that its versions may have
  Versions,      \* of the credential's configuration
  NoVersion,
  ModelsOf(_, _),\* the models of a version under a catalogue
  Requests,
  MaxCatalog, MaxUpdates, MaxResults, MaxRefreshes   \* bounds

ASSUME RegistrationAssumption ==
  /\ NoVersion \notin Versions /\ MaxCatalog \in Nat
  /\ \A v \in Versions, c \in 0 .. MaxCatalog : ModelsOf(v, c) \subseteq AuthModels

VARIABLES
  core,       \* the credential in m.auths
  registered, \* the models registered for it
  marks,      \* those of them that are suspended or over quota in the registry
  sched,      \* the snapshot in the scheduler
  catalog,    \* the version of the model catalogue
  notified,   \* the version its callback last ran for
  queue,      \* updates, first to handle first
  work,       \* work[w]: what the worker w does next, and its locals
  req,        \* req[r], likewise
  left,       \* what is left of the bounds
  raced       \* history: another writer was at work since the last update began

registrationVars ==
  <<core, registered, marks, sched, catalog, notified, queue, work, req, left, raced>>

Workers == {"updater", "catalog", "token"}

\* ModelStates: absent, clean or with an error.
NoStates == [m \in AuthModels |-> "none"]
NoAuth == [known |-> FALSE, disabled |-> TRUE, version |-> NoVersion, states |-> NoStates]
Delete == [disabled |-> TRUE, version |-> NoVersion]
Updates == [disabled : BOOLEAN, version : Versions] \cup {Delete}
Idle == [at |-> "idle", auth |-> NoAuth, models |-> {}, again |-> FALSE]
Silent == [at |-> "idle", auth |-> NoAuth, model |-> "none", ok |-> TRUE]

(***************************************************************************)
(* The locked steps.                                                       *)
(***************************************************************************)
\* authScheduler.upsertAuth: the supported models are read from the registry.
Upserted(auth) ==
  IF auth.disabled THEN [in |-> FALSE, supported |-> {}, bad |-> {}]
  ELSE [in |-> TRUE, supported |-> registered,
        bad |-> {m \in AuthModels : auth.states[m] = "bad"}]

\* An update of an enabled credential that brings no states inherits them.
Inheriting(auth, existing) ==
  IF ~auth.disabled /\ existing.known /\ ~existing.disabled /\ auth.states = NoStates
  THEN [auth EXCEPT !.states = existing.states] ELSE auth

\* ReconcileRegistryModelStates, given the registered models.
Reconciled(auth, models) ==
  [auth EXCEPT !.states = [m \in AuthModels |->
     IF @[m] = "none" \/ m \notin models THEN "none" ELSE "clean"]]

\* registerModelsForAuth for a disabled credential, or one without models,
\* unregisters.  The mutant lacks the first guard.
ResolvedAnyway(auth) == ModelsOf(auth.version, catalog)
Resolved(auth) == IF auth.disabled THEN {} ELSE ModelsOf(auth.version, catalog)

Overlapping(wk) == wk["updater"].at # "idle" /\ \E w \in {"catalog", "token"} : wk[w].at # "idle"

Goto(w, l) == work' = [work EXCEPT ![w].at = l]
GotoWith(w, l, auth) ==
  work' = [work EXCEPT ![w].at = l, ![w].auth = auth, ![w].models = {}]
Watch == raced' = (raced \/ Overlapping(work'))
\* What the steps of registration leave alone.
Stable == UNCHANGED <<catalog, notified, queue, req, left>>

RegistrationInit ==
  /\ core = NoAuth
  /\ registered = {} /\ marks = {}
  /\ sched = [in |-> FALSE, supported |-> {}, bad |-> {}]
  /\ catalog = 0 /\ notified = 0
  /\ queue = <<>>
  /\ work = [w \in Workers |-> Idle]
  /\ req = [r \in Requests |-> Silent]
  /\ left = [updates |-> MaxUpdates, results |-> MaxResults, refreshes |-> MaxRefreshes]
  /\ raced = FALSE

(***************************************************************************)
(* Registration: registerModelsForAuth, ReconcileRegistryModelStates and   *)
(* RefreshSchedulerEntry, which an update runs once and a changed          *)
(* catalogue twice, with a look at the latest credential in between.       *)
(***************************************************************************)
Resolve(w) ==
  /\ work[w].at = "resolve"
  /\ work' = [work EXCEPT ![w].at = "register", ![w].auth = NoAuth,
                         ![w].models = Resolved(work[w].auth)]
  /\ Watch /\ Stable /\ UNCHANGED <<core, registered, marks, sched>>

Register(w) ==
  /\ work[w].at = "register"
  /\ registered' = work[w].models /\ marks' = {}
  /\ Goto(w, "supported")
  /\ Watch /\ Stable /\ UNCHANGED <<core, sched>>

\* ReconcileRegistryModelStates reads the registry, then takes m.mu.
ReadSupported(w) ==
  /\ work[w].at = "supported"
  /\ work' = [work EXCEPT ![w].at = "reconcile", ![w].models = registered]
  /\ Watch /\ Stable /\ UNCHANGED <<core, registered, marks, sched>>

\* Mutant: the scheduler is not told.
AfterReconcileDone(w) == IF work[w].again THEN "latest" ELSE "idle"
AfterReconcile(w) == IF work[w].again THEN "latest" ELSE "entry"

ReconcileStates(w) ==
  /\ work[w].at = "reconcile"
  /\ core' = Reconciled(core, work[w].models)
  /\ IF core' = core THEN GotoWith(w, AfterReconcile(w), NoAuth)
                     ELSE GotoWith(w, "reupsert", core')
  /\ Watch /\ Stable /\ UNCHANGED <<registered, marks, sched>>

UpsertReconciled(w) ==
  /\ work[w].at = "reupsert"
  /\ sched' = Upserted(work[w].auth)
  /\ GotoWith(w, AfterReconcile(w), NoAuth)
  /\ Watch /\ Stable /\ UNCHANGED <<core, registered, marks>>

ReadEntry(w) ==
  /\ work[w].at = "entry"
  /\ GotoWith(w, "upsert", core)
  /\ Watch /\ Stable /\ UNCHANGED <<core, registered, marks, sched>>

UpsertEntry(w) ==
  /\ work[w].at = "upsert"
  /\ sched' = Upserted(work[w].auth)
  /\ work' = [work EXCEPT ![w] = Idle]
  /\ Watch /\ Stable /\ UNCHANGED <<core, registered, marks>>

(***************************************************************************)
(* The updates of the watcher.                                             *)
(***************************************************************************)
Emit ==
  /\ left.updates > 0
  /\ \E u \in Updates : queue' = Append(queue, u)
  /\ left' = [left EXCEPT !.updates = @ - 1]
  /\ UNCHANGED <<core, registered, marks, sched, catalog, notified, work, req, raced>>

\* Mutant: a removal does not unregister.
TakeKeeping ==
  /\ queue # <<>> /\ work["updater"].at = "idle"
  /\ queue' = Tail(queue)
  /\ LET u == Head(queue)
         auth == [known |-> TRUE, disabled |-> u.disabled, version |-> u.version,
                  states |-> NoStates]
     IN  IF u = Delete THEN Goto("updater", "lookup")
         ELSE GotoWith("updater", "update", Inheriting(auth, core))
  /\ raced' = Overlapping(work')
  /\ UNCHANGED <<core, registered, marks, sched, catalog, notified, req, left>>

\* consumeAuthUpdates: an update starts with a look at the existing credential,
\* a removal with its unregistration.
Take ==
  /\ queue # <<>> /\ work["updater"].at = "idle"
  /\ queue' = Tail(queue)
  /\ LET u == Head(queue)
         auth == [known |-> TRUE, disabled |-> u.disabled, version |-> u.version,
                  states |-> NoStates]
     IN  IF u = Delete
         THEN registered' = {} /\ marks' = {} /\ Goto("updater", "lookup")
         ELSE /\ GotoWith("updater", "update", Inheriting(auth, core))
              /\ UNCHANGED <<registered, marks>>
  /\ raced' = Overlapping(work')
  /\ UNCHANGED <<core, sched, catalog, notified, req, left>>

\* applyCoreAuthRemoval: an unknown credential needs no more.
LookUp ==
  /\ work["updater"].at = "lookup"
  /\ IF core.known THEN GotoWith("updater", "disable", [core EXCEPT !.disabled = TRUE])
                   ELSE work' = [work EXCEPT !["updater"] = Idle]
  /\ Watch /\ Stable /\ UNCHANGED <<core, registered, marks, sched>>

\* Manager.Update or Register, then its upsert, for an update or a removal.
Update ==
  /\ work["updater"].at \in {"update", "disable"}
  /\ core' = Inheriting(work["updater"].auth, core)
  /\ GotoWith("updater", IF work["updater"].at = "update" THEN "updated" ELSE "upsert", core')
  /\ Watch /\ Stable /\ UNCHANGED <<registered, marks, sched>>

UpsertUpdated ==
  /\ work["updater"].at = "updated"
  /\ sched' = Upserted(work["updater"].auth)
  /\ Goto("updater", "resolve")
  /\ Watch /\ Stable /\ UNCHANGED <<core, registered, marks>>

(***************************************************************************)
(* A new catalogue and its callback.                                       *)
(***************************************************************************)
ChangeCatalog ==
  /\ catalog < MaxCatalog /\ catalog' = catalog + 1
  /\ UNCHANGED <<core, registered, marks, sched, notified, queue, work, req, left, raced>>

Callback ==
  /\ notified < catalog /\ work["catalog"].at = "idle"
  /\ notified' = catalog
  /\ IF core.known /\ ~core.disabled
     THEN work' = [work EXCEPT !["catalog"] =
                     [at |-> "resolve", auth |-> core, models |-> {}, again |-> TRUE]]
     ELSE UNCHANGED work
  /\ Watch /\ UNCHANGED <<core, registered, marks, sched, catalog, queue, req, left>>

Latest ==
  /\ work["catalog"].at = "latest"
  /\ work' = [work EXCEPT !["catalog"] =
                [at |-> IF core.disabled THEN "drop" ELSE "resolve", auth |-> core,
                 models |-> {}, again |-> FALSE]]
  /\ Watch /\ Stable /\ UNCHANGED <<core, registered, marks, sched>>

Drop ==
  /\ work["catalog"].at = "drop"
  /\ registered' = {} /\ marks' = {}
  /\ Goto("catalog", "entry")
  /\ Watch /\ Stable /\ UNCHANGED <<core, sched>>

(***************************************************************************)
(* Token refresh: markRefreshPending, then refreshAuth, which asks the     *)
(* provider with a copy of the credential and writes that back.            *)
(***************************************************************************)
MarkPending ==
  /\ left.refreshes > 0 /\ work["token"].at = "idle"
  /\ core.known /\ ~core.disabled
  /\ left' = [left EXCEPT !.refreshes = @ - 1]
  /\ Goto("token", "pending")
  /\ Watch /\ UNCHANGED <<core, registered, marks, sched, catalog, notified, queue, req>>

CloneForRefresh ==
  /\ work["token"].at = "pending"
  /\ GotoWith("token", "refreshing", core)
  /\ Watch /\ Stable /\ UNCHANGED <<core, registered, marks, sched>>

Refreshed ==
  /\ work["token"].at = "refreshing"
  /\ core' = Inheriting(work["token"].auth, core)
  /\ GotoWith("token", "upsert", core')
  /\ Watch /\ Stable /\ UNCHANGED <<registered, marks, sched>>

\* A failure only notes the error and upserts, both under m.mu.
RefreshFailed ==
  /\ work["token"].at = "refreshing"
  /\ sched' = Upserted(core)
  /\ work' = [work EXCEPT !["token"] = Idle]
  /\ Watch /\ Stable /\ UNCHANGED <<core, registered, marks>>

(***************************************************************************)
(* Requests.                                                               *)
(***************************************************************************)
\* MarkResult under m.mu.
Record(r, m, ok) ==
  /\ left.results > 0 /\ req[r].at = "idle" /\ core.known
  /\ left' = [left EXCEPT !.results = @ - 1]
  /\ core' = [core EXCEPT !.states[m] = IF ok THEN "clean" ELSE "bad"]
  /\ req' = [req EXCEPT ![r] = [at |-> "push", auth |-> core', model |-> m, ok |-> ok]]
  /\ UNCHANGED <<registered, marks, sched, catalog, notified, queue, work, raced>>

\* refreshSchedulerOnPickMiss takes its snapshots.
Snapshot(r) ==
  /\ left.results > 0 /\ req[r].at = "idle" /\ core.known
  /\ left' = [left EXCEPT !.results = @ - 1]
  /\ req' = [req EXCEPT ![r] = [Silent EXCEPT !.at = "push", !.auth = core]]
  /\ UNCHANGED <<core, registered, marks, sched, catalog, notified, queue, work, raced>>

\* The upsert of either, after m.mu is released.
Push(r) ==
  /\ req[r].at = "push"
  /\ sched' = Upserted(req[r].auth)
  /\ req' = [req EXCEPT ![r] = IF req[r].model = "none" THEN Silent
                               ELSE [req[r] EXCEPT !.at = "mark"]]
  /\ UNCHANGED <<core, registered, marks, catalog, notified, queue, work, left, raced>>

\* The registry's marks of a result.
Mark(r) ==
  /\ req[r].at = "mark"
  /\ marks' = IF req[r].ok THEN marks \ {req[r].model}
                          ELSE marks \cup ({req[r].model} \cap registered)
  /\ req' = [req EXCEPT ![r] = Silent]
  /\ UNCHANGED <<core, registered, sched, catalog, notified, queue, work, left, raced>>

RegistrationNext ==
  \/ Emit \/ Take \/ LookUp \/ Update \/ UpsertUpdated
  \/ ChangeCatalog \/ Callback \/ Latest \/ Drop
  \/ MarkPending \/ CloneForRefresh \/ Refreshed \/ RefreshFailed
  \/ \E w \in Workers : Resolve(w) \/ Register(w) \/ ReadSupported(w) \/ ReconcileStates(w)
                          \/ UpsertReconciled(w) \/ ReadEntry(w) \/ UpsertEntry(w)
  \/ \E r \in Requests : \/ \E m \in AuthModels, ok \in BOOLEAN : Record(r, m, ok)
                         \/ Snapshot(r) \/ Push(r) \/ Mark(r)

RegistrationSpec == RegistrationInit /\ [][RegistrationNext]_registrationVars

(***************************************************************************)
(* Properties.                                                             *)
(***************************************************************************)
AtRest == queue = <<>> /\ notified = catalog /\ \A w \in Workers : work[w].at = "idle"

\* When no worker has anything left to do, the scheduler serves the models that
\* the registry has for the credential, however the workers' steps interleaved
\* and whichever requests still have a snapshot to push.
SchedulerSeesRegistry == AtRest /\ sched.in => sched.supported = registered

\* When no worker has anything left to do and the last update ran alone, the
\* registry has the models that the credential has under the current catalogue,
\* whatever the races before that update left behind.
RegistryFollowsCore ==
  AtRest /\ ~raced => registered = IF core.disabled THEN {} ELSE ModelsOf(core.version, catalog)

\* Together: conductor, registry and scheduler agree at rest.
AllAgree == SchedulerSeesRegistry /\ RegistryFollowsCore

\* Once the removal of a credential has run, alone, the scheduler serves it for
\* no model, although a request may still push a snapshot of it that is enabled.
RemovedNotServed ==
  core.known /\ core.disabled /\ work["updater"].at = "idle" /\ ~raced =>
    ~sched.in \/ sched.supported = {}
=============================================================================
