# Verification of CPAplus

CPAplus is a proxy in Go that serves OpenAI, Claude, Gemini and Codex compatible
APIs from a pool of credentials. This directory holds TLA+ models of the parts in
which its own logic lives, TLC configurations that check them on small instances,
and proofs, checked by TLAPS, of what matters most. `PROJECT.json` lists for every
definition the lines of the source it stands for, for every run what it checks,
and for every property a mutant of the code that breaks it.

## 1. Inventory

| Part | State it keeps | Operations | Talks to |
|---|---|---|---|
| Model registry (`internal/registry/model_registry.go`) | per client its models and provider; per model counts, provider counts, quota and suspension marks; a cached listing | register, reconcile, unregister, mark, list, clean up; all under one mutex | service (registrations), conductor (marks), API (listings), scheduler (supported models) |
| Model catalogue updater (`internal/registry/model_updater.go`) | the current catalogue | periodic download, callback with the changed providers | service |
| Conductor (`sdk/cliproxy/auth/conductor.go`) | `m.auths` under `m.mu`; executors; retry settings | Register, Update, Execute and its variants, MarkResult, reconciliation, token refresh | scheduler, registry, refresh loop, stores |
| Scheduler (`sdk/cliproxy/auth/scheduler.go`) | per provider the credentials and lazily built shards per model; cursors; under `s.mu` | upsert, remove, rebuild, resync, single and mixed pick | conductor, registry |
| Selectors, session affinity (`selector.go`, `session_cache.go`) | cursors; session to credential with a TTL | pick, bind, invalidate | conductor |
| Token auto-refresh (`auto_refresh_loop.go`) | schedule heap, dirty set, wake channel, jobs channel, timer | loop goroutine, workers | conductor, executors, Codex quota check |
| Service (`sdk/cliproxy/service.go`) | queue of updates, gateway, hooks | consumer of updates, registration of models, catalogue callback, start and stop | everything |
| Watcher (`internal/watcher`) | last credentials, pending updates, debounce timers | file events, diffing, coalescing dispatch | service |
| Usage manager (`sdk/cliproxy/usage/manager.go`) | queue, plugins, closed flag, condition variable | Publish, Register, Start, Stop, dispatcher goroutine | executors, plugins |
| Usage queue (`internal/redisqueue`) | slice with a head, enabled flag, retention | enqueue, pop, prune, compact, clear | usage manager, RESP and HTTP readers |
| Usage statistics (`internal/usage`) | aggregates, SQLite | record, snapshot, import, trim | usage manager, management API |
| Websocket relay (`internal/wsrelay`) | the manager's sessions under a mutex; per session a `sync.Map` of pending requests with a channel each, the closed flag, the connection | connect, request, stream, dispatch, cleanup, Stop | service (a credential per session), AI Studio executor |
| Upstream websocket sessions (`internal/runtime/executor/codex_websockets_executor.go`, `xai_websockets_executor.go`) | a store of sessions; per session `reqMu`, the connection with its credential, the active channel with its `done` | ExecuteStream, the reader of a connection, close by handler or with the credential | Responses websocket handler, conductor, providers |
| OAuth sessions, token stores, HTTP API, executors, translators, caches, logging, configuration, UI | see `PROJECT.json` | I/O, conversion, or small | |

What is hard, and where: goroutines that read state under one lock and write it
under another (refresh, registration, results, watcher); incremental indexes that
must equal a rebuild (registry counts, scheduler shards); signals that can be lost
(refresh loop, usage manager); caches and clocks (listing cache, cooldowns,
retention); fairness of rotation; whole objects written back after a network call;
and channels that one goroutine closes while another sends. `PROJECT.json` lists each such hazard at its line with the properties aimed
at it, or the reason why none is.

What makes each part correct: the registry's counts say what its clients' lists
say and its listing is never stale; the scheduler's views are those of a rebuild,
its picks are usable and its rotations fair; the refresh loop never forgets a
credential and never spins; every usage record reaches every plugin once and in
order; the queue is a FIFO that hands out nothing expired; after all updates the
conductor, the registry and the scheduler agree about a credential; every request
ends, with each of its asks recorded once; a result leaves memory, file, registry and
scheduler with one opinion; the service ends with the newest state of every file; no
request waits for a relay session that is closed; the requests of an upstream session
take turns, get their own answers under their own credential, and leave no connection
behind.

## 2. Modules

| Module | Models | Specification it implements |
|---|---|---|
| `ModelRegistry` | the registry, one action per exported mutator | - |
| `AuthScheduler` | the scheduler; one action per method under `s.mu` | - |
| `AuthSchedulerProofs` | theorems about it | - |
| `AuthRegistration` | one credential in conductor, registry and scheduler; one action per locked step of the update consumer, the catalogue callback, the token refresh and requests | - |
| `RegistryProofs` | theorems about `ModelRegistry` and `AuthRegistration` | - |
| `Cooldowns` | what one answer of a provider, a reconciliation and a quota check make of a credential's model states; pure operators | - |
| `AuthResults` | one credential's results, reconciliation, quota check and file, at every lock that they take | - |
| `RequestExecution` | the rounds, retries and waits of requests that share credentials and a session | - |
| `ConductorProofs` | theorems about `AuthResults` and `RequestExecution` | - |
| `WatcherDispatch` | file events, reloads, runtime providers and the dispatch loop of the watcher | `WatcherDelivery` |
| `WatcherDispatchProofs` | theorems about it, and the safety part of the refinement | - |
| `AutoRefresh` | the loop, its workers and outside updates | - |
| `AutoRefreshProofs` | theorems about it | - |
| `RelaySession` | one session of the websocket relay with its reader, requests, cleanup, registration and credential | - |
| `RelaySessionProofs` | theorems about it | - |
| `UpstreamSession` | one execution session of the websocket executors for Codex and xAI | - |
| `UpstreamSessionProofs` | its inductive invariant and theorems about it, one lemma for each action | - |
| `UsageManager` | publishers, dispatcher and Stop at the granularity of mutex and condition variable | `UsageDelivery` |
| `RedisQueue` | the queue with its representation | `UsageFifo` |
| `UsageProofs` | theorems about it with the refinement, and about `UsageManager` with the safety part of its refinement | - |
| `MC...` | the instances for TLC | |

Each module names, for its variables, the Go fields they stand for, and its
actions carry the names of the functions where they can. A definition that ends in
a word like `...Lazily` or `...Keeping` and is announced as a mutant is no part of
the model: it is what a plausible mistake would make of the definition after it.

**ModelRegistry.** `clientModels[c]` is a bag (the code keeps repeated entries),
`reg[m]` one `ModelRegistration`: `count`, `prov`, `info`, `quota`, `susp`. A
re-registration runs the code's loops in their order as operators
(`MoveOverlap`, additions, removals, `RefreshBinding`) on the registrations. The
cached listing keeps what it was built from and when it expires; readers take
their clock before the lock, so a listing can be built with an earlier time.

**AuthScheduler.** `meta[a]` is the last upserted snapshot, `shards[p][m]` the
shard with its entries, its views (`all` and `ws` of each priority, as sets in the
order of ids) and its blocked queue. `Reindex` is `rebuildIndexesLocked` with the
restored cursors; `Upsert` reaches it only under the code's conditions. The
strategy of a pick is arbitrary because it is read outside the lock and can be
overridden. `wait` and `turn` count how often a credential and a provider are
passed over; nothing reads them. Left out: virtual-parent groups, the shard of the
empty model, the text of errors.

**AuthRegistration.** `core` is the entry in `m.auths`, `registered` and `marks` its part
of the registry, `sched` its snapshot in the scheduler. Each worker runs a little
program, `work[w].at` is its next locked step, and the locals it carries over a
release of the lock (snapshots, resolved models) are in `work[w]`. `raced` is
history: it says that another writer was at work since the last update began.

**Cooldowns, AuthResults.** A credential is a record of its model states (`next`,
`recover`, backoff `level`, the last `error`) with the flags that the code keeps
beside them; times are instants of a small clock. `AfterAnswer` is what
`MarkResult` makes of a state for each class of answer (success, error of the
request itself, quota with or without a hint, authorization, not found, transient,
Codex usage limit), `Aggregated` is `updateAggregatedAvailability`, `Reconciled` is
what an upsert drops. In `AuthResults` `core` is the entry of `m.auths`, `sched` its
snapshot in the scheduler, `file` what the file says of it, `quota` and `suspended`
the registry's marks; requests (`req`), the consumer of updates (`upd`) and the quota
check (`chk`) each run step by step, a step per lock. Edits of the file are inputs.

**RequestExecution.** `request[r]` holds where `Execute` or `ExecuteStream` is and its
locals (tried set, attempt, last error, how long it waits). Credentials keep only
what a request sees of their state for its model, with times counted down by
`CountDown`.
What `pickNextMixed` finds ready is every set that agrees with `m.auths` except for
credentials whose results are still on their way to the scheduler: this is what
`AuthScheduler` and `AuthResults` allow. A stream records its first error when it
reads it and its success when it closes.

**WatcherDispatch.** `disk` and `events` are the directory and fsnotify's events,
`known` is `lastAuthHashes` (with `fileAuthsByPath`), `current` is `currentAuths`.
`proc[p]` is one goroutine, with what it carries from one lock to the next: the
events' goroutine reads a file, applies it under `clientsMutex` and hands its updates
over under `dispatchMu`; a reload leaves out affected credentials, takes its snapshot
without a lock, compares it under `clientsMutex`, and hands over. `pending` is
`pendingOrder` with `pendingUpdates`. Updates carry a number, their place in the order
in which they were handed over, which nothing reads: it is what `WatcherDelivery`
speaks of.

**AutoRefresh.** The schedule heap is a function from credentials to their next
check; the dirty set, the wake channel (capacity one), the jobs channel and the
timer are as in the code. Reads under `manager.mu` and writes under `l.mu` are
separate steps, and so are the write of a credential under `m.mu` and the dirty mark
that is made once `m.mu` is released: a worker between the two is at "note", another
goroutine that called `Update` is one of `writers`. A token's expiry, lead time and interval are one moment at which it
is due.

**UsageManager.** `Publish` appends, unlocks and signals in separate steps, the
dispatcher waits, wakes, takes and invokes plugins one by one, `Stop` closes and
broadcasts. **RedisQueue** has the slice, the head and the compaction; enqueue and
pop read flag, clock and queue in separate steps.

**RelaySession.** `pending` is the `sync.Map` of a session and `box[r]` the channel of
a request, which outlives its entry: whoever looked the entry up still holds it, so
`reader.id` and `cleaner.id` are such references. `reader` is the goroutine of `run`
with `dispatch` taken apart where another goroutine can come between (look-up, send,
removal of the entry), `cleaner` the one call of `cleanup` that does anything, step by
step through `Range`, `req[r]` where `request` is and then `NonStream` or `Stream`, which
reads the channel, and `watch` the goroutines left behind to watch contexts. A panic
outside of a request's own goroutine ends the process (`crash`). `Range` meets the
entries that were there when it began and stay; it may or may not meet later ones. The
assignment of a new map in `cleanup` is unsynchronised: an access at that moment may
find the old map, the new one, or panic.

**UpstreamSession.** `conn` and `authID` are the fields of `codexWebsocketSession`,
`active` says whose channel `activeCh` is, `holder` who holds `reqMu`. `at[a]` is where
`ExecuteStream` of the attempt `a` is, then the goroutine that it leaves behind;
`mine[a]` is the connection in its hands and `box[a]` its channel. `reader[c]` is
`readUpstreamLoop` of a connection: the look at the active channel, the send, the
closing and the removal of the connection are steps of their own, since the locks are
released between them. `wire[c]` and `begun` are the provider, which answers the
requests of a connection one after the other. Both executors are one module: `executor`
says whose session it is, and `Xai` marks where they differ (a refused handshake, the
look at the credential; a warm-up, which ends with `response.created`; an error that
leaves the connection; that one also tells the handler of an error and the other sets a
deadline for reads changes nothing here). `Begin` may come with any credential: the
handler lets the pinned one go after a failure of the session, and also when the pick
itself is refused because somebody else put the credential to rest. `warm` has the
requests with `generate:false`; `heard` and `begun` forget a request when it ends. `readerConn` always equals `conn`, and a dial
never finds a connection installed by another, so neither is a variable or a branch.
`cut`, `late`, `warmed`, `strayed`, `unpinned` and `overtaken` are history, and so is `dialled` but for two
uses: a connection is dialled once, and a removal finds the session by a credential that
it had when the store was scanned.

## 3. Runs

| Run | Instance | Shows |
|---|---|---|
| `registry` | 2 clients, 1 model, 2 providers, multiplicity up to 2, 1 handler type, times 0..3, window 2 | counts, provider counts, provider information, no stale listing, marks gone after every registration, an identical one included |
| `scheduler` | 3 credentials, 2 providers, 1 model, 2 priorities, times 0..2 | exact indexes, right picks, fair rotations |
| `registration` | 2 models, 2 versions, 2 catalogues, 2 updates, 1 refresh, 1 result or resync | scheduler and registry agree at rest; an update that runs alone repairs; a removed credential stays unserved |
| `refresh` | 2 credentials (1 without executor), 1 worker, 1 job slot, 2 outside changes, times 0..2 | no forgotten credential, no lost mark, no tight loop, progress |
| `refresh_recheck` | 1 credential | a finding |
| `usage` | 3 records, 2 plugins, Stop | implements `UsageDelivery`, dispatcher ends |
| `redis` | 4 records, 2 poppers, times 0..3, compaction at 2 | implements `UsageFifo`, nothing expired is handed out |
| `results` | 2 models, 2 requests in flight, 3 results, edits or checks | memory, file, scheduler and registry agree at rest; an enabled credential serves; the aggregate is sound |
| `requests` | 2 credentials, a plain and a streaming request, 3 configurations, 4 kinds of failure | every ask recorded once, a waited-out cooldown pays off, every request ends |
| `relay` | 2 requests, channels of 1, 3 messages, a failing connection, Stop, a failing ping, contexts that end | no waiter and no entry forgotten, no unexplained panic, no cut answer taken for a whole one, credential gone with the session |
| `upstream` | 2 requests, at most one of them a warm-up, 2 connections, 2 credentials, channels of 2, either executor | own answers, own credential, nobody stranded, nothing left open, no unexplained panic, every request ends, with all exceptions named |
| `watcher` | 1 file, 1 configured key, 1 runtime credential, the first load, 1 reload, 3 inputs, queue of 1 | implements `WatcherDelivery`; service, watcher and files agree at rest |

**Bounds.** Two registry clients are what overlapping providers need, and two
occurrences what an overage of an occurrence needs; a window of 2 in times up to 3
lets two windows overlap and the first expire alone. Three credentials are the
least for which a filtered pick can jump over a candidate, and weights of a mixed
pick can differ (2 against 1); the first goes through every kind of snapshot, the
others change readiness, provider and existence. In `registration` one update
against a second, a catalogue and a refresh already gives every pair of writers.
One job slot and one worker make the jobs channel full; compaction at 2 (1024 in the
code) makes it happen within four records. A plain and a
streaming request on two credentials already take each other's credential, binding
and cooldown away; one credential allows a retry more than the other, one is
subject to the usage limit. Three inputs of the watcher are what a dropped second
removal needs (remove, create, remove), and a reload beside the first load and a file
event gives every pair of its goroutines; a file has one content or none. In `relay` two
requests let the reader hold one while the other is stored or cleaned up, three
messages are a stream for one and an answer for the other, and a channel of one (8 in
the code) fills up; both requests are alike, hence the symmetry. In `upstream` a
second request is what meets the leftovers of one that was cut off, and two connections
are what two readers of one channel need; the properties never compare more than two
requests. Its constraint takes the first credential to be 1 and connections to be dialled
in order, since they are alike, and lets one request be a warm-up, the first or the
second: as the first it leaves its answer behind, as the second it finds one. `MaxActs`, `MaxAttempts`,
`MaxInputs`, `MaxMessages`, `MaxTime`, `MaxChanges`, `MaxUpdates`,
`MaxResults`, `MaxRefreshes` and `MaxCatalog` bound what is unbounded in the code
and only cut behaviours short. `CHECK_DEADLOCK FALSE` stands where such a bound, or
a Stop, ends all activity.

**Fairness.** `UsageManager` assumes that the dispatcher, publishers that began and
a Stop that began keep running (they are goroutines that only wait on the mutex and
the condition variable; Register and new publications are not fair). `AutoRefresh`
assumes the same of the loop, the workers and signals, and that time passes; the
credentials' outside changes are not fair. `RequestExecution` assumes that as long as
there is work some of it is done (`WF_vars(Work)`): providers answer or fail, streams
end, and time passes; HTTP clients have timeouts, and a client may go away but need
not. `WatcherDispatch` assumes that the dispatch loop and the service's consumer go
on. `UpstreamSession` assumes that attempts, readers and the closer of the session go
on, that a dial ends (it has a time limit), that a read of a closed connection fails,
and that a provider answers or its connection fails: the executor for Codex sets a
deadline for every read, the one for xAI relies on the provider. Nothing makes a
healthy connection fail, a client leave or send. All other specifications are without
fairness, and only safety is checked there.

## 4. Findings

* `refresh_recheck`: the recheck of a usage-limited Codex credential is scheduled,
  filtered out by `shouldRefresh`, and never run.

**Known deviations.** Met while modelling, part of the models, and not run on their
own:

* A token refresh writes back the clone it took before the network call
  (`conductor.go:4292`) and re-enables a credential that was disabled meanwhile, though
  `README.md:51` leaves that to the quota recovery. `AllAgree` therefore starts from an
  update that runs alone.
* A Codex attempt whose handshake is refused returns with `reqMu` locked, whether it fell
  back to HTTP or reports the status (`codex_websockets_executor.go:466`), and the next
  request of the session waits for ever; xAI unlocks. It is the exception of
  `AttemptsEnd`. The retry of a failed write ("Retry once with a new websocket
  connection", line 495) is heard by nobody when the reader of the old connection closes
  the channel that the retry goes on with.
* A client inside a quota window and suspended for another reason is subtracted twice
  (`model_registry.go:822`), so a model with a healthy client can be left out of the
  listing, which its doc comment (line 755) excludes.
* A catalogue refresh beside an update leaves stale models registered
  (`service.go:1090`): it reads the latest credential and registers its models without
  a lock against the consumer of updates, although `service.go:1086` says "Re-apply the
  latest auth snapshot so concurrent auth updates cannot leave stale model registrations
  behind." The second half of
  `AllAgree`, `RegistryFollowsCore`, therefore speaks of updates that run alone.
* `Stop` of the usage manager returns before the queue is drained
  (`usage/manager.go:131`); records queued at exit are lost.
* Every result saves the whole credential from memory (`conductor.go:2511`), over an
  edit of the file that the watcher has not applied yet. `AuthResults` says what
  memory and file agree about afterwards, not that the edit survives.
* A reload that overlaps with a change of a file can put the older content back
  (`dispatcher.go:86`); a second removal within a second is dropped and leaves the
  credential behind (`events.go:105`); of two updates on their way at the same time
  the older may be delivered last (`dispatcher.go:98`); a configured key that a reload
  removes while it changes the excluded models of its provider stays with the service
  (`clients.go:47`). A reload refreshes `currentAuths` but not `lastAuthHashes`, so that a
  file whose removal was dropped, and which comes back with the content it had, counts as
  unchanged and is not loaded, even when a reload in between has noticed that it was gone
  (`Excused`). The properties of `WatcherDispatch` name these cases as their
  exceptions and hold everywhere else.
* A message for a request of the relay that is given up at that moment is sent on a
  channel that is already closed, and the panic ends the process (`session.go:109`); the
  same happens to a message that meets the replacement of the map (`session.go:182`).
  `PanicsOnlyWhenGivenUp` says that this is the only way. A message that finds its
  channel full is dropped, and `NonStream` takes the closed channel of a stream for its
  end (`http.go:58`): `NoCutAnswer` excepts exactly the requests that lost a message so.
  A session that ends between its registration and its announcement leaves its
  credential behind (`manager.go:156`), the exception (`early`) of `CredentialFollows`.

* The reader of an upstream connection tells and closes whatever channel is active when
  its connection fails (`codex_websockets_executor.go:1335`), which may be that of an
  attempt with another connection. From then on answers of the old request can be taken
  for the next one's (`cut`, an exception of `AnswersAreOwn`), and Codex, which does
  not look at the credential of a connection, can send a request under that of the one
  before (`OwnCredential`). With readers of two connections a channel can be closed
  twice, or sent to after it was closed, which ends the process
  (`CrashNeedsTwoConnections`). An attempt that takes a connection whose reader is
  leaving (`late`) is told nothing and waits for its context.
* A warm-up of xAI (`generate:false`) ends with `response.created`
  (`xai_websockets_executor.go:674`) and leaves the connection as it is. If the provider
  sends more of that answer, the next request takes it for its own (`warmed`, the other
  exception of `AnswersAreOwn`).
* Codex sends a request under the credential of the one before when the handler has
  changed the credential and the session has not failed. That happens: the handler lets
  the pinned credential go on any 429 or 503, also on one that the pick itself returns
  because another session's answer put the credential to rest
  (`openai_responses_websocket.go:281`), the connection stays, and
  `ensureUpstreamConn` takes it without a look at `authID`
  (`codex_websockets_executor.go:1297`). `unpinned`, an exception of `OwnCredential`, has
  these connections; xAI compares, and has no exception.
* A session that is closed while an attempt dials gets its connection afterwards, and
  nobody closes it (`overtaken`, the exception of `NoOrphan`).

## 5. Proofs

`RegistryProofs` proves for all finite sets of clients, models, providers and
handler types, every multiplicity bound and every window (the assumption of
`ModelRegistry` on its constants) that `TypeOK` and
`RegistryAddsUp` (`CountIsOccurrences`, `ProviderCountIsOccurrences` and
`InfoMatchesProviders` together) are invariants. The
inductive invariant `IInv` is `TypeOK` with `Counted`, the three statements read as
equations over one model's registration: the code adjusts counts by differences, so
an equation for `Count` alone does not survive the loop that moves a provider's
occurrences, which trusts the provider counts. The argument goes bottom-up: sizes
of slot sets change by the difference of two multiplicities (`SlotsUpdate`), each
helper of the code has a lemma on what it does to one registration (`...Facts`),
`RebindTotals` combines them for a re-registration, and each action has a step
lemma. `CacheCoherent` is an invariant with `CacheBuilt`, which says that a valid listing is
the one that a build at some earlier moment would make of the registrations as they are now;
every mutator that could make that false invalidates, and `BuiltEntry` then has to be shown
constant up to its expiry, which is the earliest end of a quota window. `RebindStartsFresh`
says that a mark stands only if it was made since the client's last registration, a
registration of the same models included; `marked` is the history that it needs. Its proof
has a lemma for every helper: `ReconcileFresh` that a registration leaves no mark of the
client, `UnregisterFresh` that a removal takes them along, and `RemoveMarksNobody`,
`ReconcileMarksNobody` and the rest that nobody else gets one.

Its second half is about `AuthRegistration`, for any models, versions and catalogues,
any number of requests and every bound: `AllAgree` and `RemovedNotServed`. The invariant
`RegistrationInv` has four parts. `Unborn` says that nobody but the consumer has anything
to do with a credential that was never registered. `Sees` says that while the scheduler's
supported models differ from the registered ones, somebody who will upsert the credential
is still on the way. `Follows` holds while no two writers raced: the updater is alone, or
the callback and the token refresh are at work on an enabled credential whose
configuration stays as it is (`Calm`), and the registry has the wanted models except at
the steps between a change and its registration (`Cleared`, `Right`). A step's effect on
each part depends only on where the worker stood and where it goes (`Turn`), so every
action uses the same lemmas `BornTurn`, `SeesTurn` and `FollowsTurn`. `AllAgree`
follows at rest from `Sees` and `Follows`, `RemovedNotServed` when the updater is idle, from
`Sees`, `Calm` and `Right`, since nobody else is then at work on a disabled credential. Names in
`AuthRegistration`, `RequestExecution` and `UsageManager` differ from those of the first
component of their proof module, which extends both.

`AuthSchedulerProofs` proves for every finite set of credentials (ids in their
order as numbers), all providers, models, integer priorities and snapshots that
`ShardsMatch` (`EntriesMatchAuths` and `IndexesMatchEntries`) and `SinglePickIsRight` are
invariants.
The inductive invariant `IInv` (theorem `ShardsRight`) says of every shard that its
indexes are those of its entries, that it holds an entry for exactly those it
serves, and that each entry is what `EntryAt` made of the current snapshot now or
earlier (`EntryRight`): a ready one is still usable, a waiting one will be seen by
`promoteExpiredLocked` once its snapshot's times are over. The first two alone say
nothing about a pick, since an entry may lag behind the clock: `PromoteFacts` shows
that after `ensureModelLocked` nobody usable waits (`Promoted`), `ReindexFacts` and
`UpdatedShardFacts` that upserts keep a shard right although they rebuild only
sometimes, `PickAtKeeps` that a pick moves at most a cursor, and `PickFromFacts` what
is picked from exact indexes.

The mixed picks and the rotations build on this. A mixed pick reads the cursor as a slot
of the segments that the weights cut out of their sum. `MapThenSumSet` is recursive, and
the library's induction theorems cannot be used, but its recursion runs over sets that
shrink: what is needed of it (`Total`: the sum of a union of disjoint sets, of equal
functions, of intervals) is proved with the least number for which it fails (`LeastValue`,
`UpTheNaturals`). Then the segments are `Consecutive` and every slot is in one
(`SlotFound`), from which `MixedPickIsRight` follows; it uses that the provider list has
no repetitions, which `normalizeProviderKeys` sees to and the assumption of
`AuthScheduler` now says. `MixedFair` is not inductive, for it does not say where the
cursor is: `TurnInv` says that the turns that passed a provider by, and the slots from the
cursor to its own segment, are together no more than the slots of the others (`Paid`); a
turn of another brings the cursor closer by one, and whatever changes a weight starts the
count again. `RotationFair` likewise needs `RotInv`: the times a credential was passed
over and the `Gap` between the cursor and its place in the view are together less than
the view (`Waits`), a pick that passes it by makes the gap smaller (`ComesCloser`), and a
rebuild that leaves the members of a view alone leaves its `Place` (`Steady`), though the
cursor points past the end after a pick and is reduced by the rebuild. That a credential is in
one view only, that of its provider and its priority, is `InOneView`.

`AutoRefreshProofs` proves for all credentials, numbers of workers, sizes of the jobs
channel, clocks, intervals and backoffs that `NeverForgotten` is an
invariant, which joins `DirtyIsSignalled` and `NeverLate`. `Typed` is the type invariant, with the shapes that the loop and the workers
have between two steps (a loop that puts an entry has a credential in hand, its clock is
not ahead of time, a busy worker has a credential). `DirtyIsSignalled` is inductive with
it: the lemma `OthersAnnounce` says that whoever marks a credential dirty is left with a
signal to give, and only the loop, which then drains the dirty set, takes signals away.
Between its write and its mark a credential is neither in the schedule at the right time
nor dirty: then the writer is on its way to mark it (`Unnoted`), and the invariant says so.
`NeverLate` is inductive with `Typed` too, because it says who is about to look at a
credential that is not in the schedule (`Watched`): the case that needs an argument is
an entry written from an old reading of the clock or of the credential. An older clock
gives an earlier check (`NextCheckGrows`), and a credential that changed since it was
read is dirty again. `NoTightLoop` follows from `Spaced`: a credential that was dispatched
and did not change since is still due, and is disabled or has a time before which it is
not refreshed (`Rests`), at least the least of the three backoffs after the dispatch,
which the claim (`MarkPending`), a failure and a refresh without a new token each set.

`ConductorProofs` proves all five invariants of the run of `AuthResults` for any models,
workers, cooldowns and lengths of the run. `Kept` is one inductive invariant for four of them: the
file has what memory has or somebody is still to write or read it (`FileFollowed`), only
those who are about to replace a disabled status leave it with an enabled credential
(`StatusServes`, `ModelsServe`), every snapshot on its way to the scheduler is the latest
unless two crossed (`Latest`), and a credential rests as a whole only while all its models
do (`AllRest`). They rest on a layer of lemmas about `Cooldowns`: what every answer makes
of a model's state and of the aggregate (`AfterAnswerFacts` and its parts); that the
backoff's power of two is a number at all is shown by counting subsets (`Power`), for want
of induction. `MarksRight` says for every model
which no two goroutines raced for that a mark in the registry has its reason in memory or
a result that is to clear it (`Reasoned`), and that a registration finds none.

Its second half is about `RequestExecution`, for any number of requests and credentials,
any configuration and any retry settings. Every step of a request either records a result
(`RecordsResult`) or leaves the credentials and the other requests alone (`Moved`), so both
invariants are proved for the one who moves. `Ledger` keeps `RecordedOnce` inductive with
one addition: while the failure of a stream is pushed, the request remembers it. `Assured`
does the same for `WaitIsWorthIt`: from the end of a round to the next pick, as long as
nobody records a result, there is an enabled credential whose rest is over with the wait,
and of which the scheduler cannot hold an old snapshot (`Promised`); waiting brings both
nearer alike (`CountDownInv`), and a pick that misses would have found it.

`WatcherDispatchProofs` proves, for any files, keys, runtime credentials, reloads and size
of the service's queue, the two invariants of the run and the safety part of
`WatcherDelivery`. `Delivered` follows a credential's updates from the service's queue over
the batch to `pending`: their numbers grow along the line, all are newer than what the
service saw, and the newest that was handed over is among them unless the service has it.
`Followed` adds that the last thing said about a credential is what `currentAuths` says,
wherever it is: in the hands of the one goroutine that is to hand it over, or on the line.
`DiskRight` is the watcher's side: the last event of a file says whether it is there
(`EventsRight`), `lastAuthHashes` has the content of every file that nobody is still to look
at (`KnownRight`), the snapshot of a reload holds except for what it noted (`SnapRight`),
and `currentAuths` has what was loaded (`CurrentRight`). Its proof found what the
run's instance is too small to show: at larger bounds `CurrentFollowsDisk` was false
because of the hashes that a reload does not refresh (section 4), and `Excused` now says so.

`RelaySessionProofs` proves all five invariants of the relay for any number of requests
and messages and any size of the channels. The inductive invariant `Inv` adds to the
types who holds what (`Hands`): whoever has looked an entry up has one of a request
that has stored it. For every request `ToBeMet` says that the cleanup, once begun, still
has the entry on its list, which is what the look at `s.closed` after the store is for;
`GivenUp` that an open session closes a channel only when nobody can reach it, which
makes a panic a matter of sessions or contexts that are done; `Told` that the reason is
in a channel, or was dropped for want of room, before it is closed; `Late`, `Watching`
and `Leaving` who will take an entry out; and `Known` follows `handleWebsocket`, `Stop`
and the last steps of the cleanup.

`UpstreamSessionProofs` proves the five invariants of the run, and `OneAttemptAtATime`, for
any number of attempts, connections and credentials and any size of the channels. A cut-off
attempt, an exception in `AnswersAreOwn` and `OwnCredential`, is one whose channel was
closed while its own connection was still at work; `Excused(a)` says that one, or a warm-up
that did not wait for its end, came before `a`, which no later step undoes. Its inductive
invariant says for each attempt whose turn it is (`Turn`), what connection it has
(`Connection`), when its channel is the active one (`Channel`), who will tell it (`Told`),
whose credential it sends under (`Credential`) and whose messages it finds (`Answer`); for
each connection, what its reader has in hand (`Reader`) and which requests the provider
still owes an answer (`Requests`); and for the session, that the next attempt of Codex finds
the connection of an answered attempt, with its credential, or none, or one that was kept
over a change of credential (`Between`). It compares no credentials, so it is right only as
long as the handler changes the credential after a failure of the session, which takes the
connection away unless somebody else's reader ended the attempt; without such a failure it
is wrong (section 4), and the theorem says that there are no other ways to be wrong. For xAI
the comparison itself is the reason. `Answer` and `Requests` need each other: an answer left
over on a connection at work belongs to an attempt that was cut off. The attempt with the
lock is alone (`Alone`), so an attempt's step is proved for that attempt and the others are
left as they are (`OthersStay`, `ConnectionsStay`), and likewise a reader's step for what it
has in hand (`ApartKeeps`). `OneAttemptAtATime` is proved with two more facts about the lock
(`LockKept`), and is in no run.

`UsageProofs` proves for all records, poppers, windows, compaction bounds and clocks
that the slice with its head implements `UsageFifo` (`RefinesFifo`), and the other two
properties of the run. Below the steps there is a layer about one slice: what it keeps
(`Live`) after the head moves, an item is appended, expired ones are pruned and the slice
is compacted (`ShiftFacts`, `AppendFacts`, `PruneFacts`, `CompactFacts`); `EnqueueFacts`
and `PopFacts` put them together for a call, and `FifoStep` reads each step as one of the
abstract queue, with the number of pruned records as the witness. The invariant `RInv`
adds to the types that a call under way has read the clock in the past (`Stamped`) and
that the slice is `Ordered`: the one dispatcher reads the clock for one record after
another, so times never fall and numbers grow. The refinement needs the former, since
what is expired for a call must be so for the abstract queue now; `PopFresh` needs the
latter, since the prune stops at the first fresh record. The second half of the module is
about `UsageManager`, for all publishers and plugins. `QueueIsLast` says that the queue is
the end of what was accepted and the dispatcher's record the one before it; `Called` that
a registered plugin got every record from its registration to where the dispatcher is
(`Reached`), and that those still to be called are registered, so that one who comes during
a dispatch is not called in it. `EveryRecordInOrder` follows, and that every step accepts a
record, hands out the oldest, or closes (`ManagerHandsOut`).

Every invariant and action property of the passing runs is stated by a theorem. Only TLC
checks liveness (`DueIsRefreshed`, `DeliversAndEnds`, `RequestsEnd`, `DeliversInOrder` with
its fairness, `AttemptsEnd`), since fairness is beyond TLAPS, and the counterexample of the
run `refresh_recheck`.

## 6. What is not modelled

`PROJECT.json` gives the reason for every component. In short:

* Most of the code by size converts formats (`internal/translator`,
  `internal/thinking`), speaks HTTP or websockets to providers
  (`internal/runtime/executor`), parses and edits the configuration
  (`internal/config`, `internal/api/handlers/management`), or draws a terminal UI. It
  keeps no state from call to call beyond what the components above keep for it; a
  model of it would copy it line by line, so the models cover a small share of the
  lines.
* The conductor's fallback to antigravity credits, pools of upstream models behind an
  alias, and virtual-parent groups of the scheduler.
* A watcher whose directory changes, files that hold several credentials, remote
  token stores, and `Stop` of the watcher. The timers that delay reloads are left out:
  a reload may start at any time.
* A session of the websocket executors that replaces another under the same id (it shares
  nothing with it but the handler, which goes on listening to the first), requests
  without a session, `Execute` without streaming, the pings, and xAI's transcript and
  mapping of response ids. Its `compaction_trigger` requests are answered over HTTP and do
  not touch the session.
* The replacement of a relay session by another of the same provider, which takes a
  provider factory that the service does not give, and the usage statistics' SQL.

Candidates for further theorems are the invariants that section 5 leaves to TLC.
