---------------------------- MODULE ModelRegistry ----------------------------
(***************************************************************************)
(* The global model registry (internal/registry/model_registry.go): which  *)
(* client (credential) serves which model under which provider, with the   *)
(* reference counts kept per model, the transient quota and suspension     *)
(* marks, and the cached model listing.                                    *)
(*                                                                         *)
(* Every operation of the code runs under r.mutex, so each is one action.  *)
(* ModelInfo payloads are abstracted: of a registration's metadata only    *)
(* the set of providers that have an entry of their own is kept.           *)
(***************************************************************************)
EXTENDS Integers, FiniteSets, FiniteSetsExt

CONSTANTS
  Clients,      \* client (credential) ids
  Models,       \* model ids
  Providers,    \* non-empty provider identifiers
  NoProvider,   \* the empty provider identifier
  Handlers,     \* handler types of the model listing
  MaxMult,      \* bound: how often one client lists the same model
  MaxTime,      \* bound of the clock
  QuotaWindow   \* modelQuotaExceededWindow

ASSUME ConstantsAssumption ==
  /\ NoProvider \notin Providers
  /\ IsFiniteSet(Clients)
  /\ MaxMult \in Nat \ {0}
  /\ MaxTime \in Nat
  /\ QuotaWindow \in Nat \ {0}

Time == 0 .. MaxTime
NoTime == -1                           \* no quota mark
Never == MaxTime + QuotaWindow + 1     \* a cache entry that does not expire
Reasons == {"none", "quota", "other"}  \* suspension reason, "none" = no entry
ProvidersOrNone == Providers \cup {NoProvider}

VARIABLES
  clientModels,    \* clientModels[c][m]: how often c lists m (a bag)
  clientProvider,  \* r.clientProviders
  reg,             \* r.models[m], NoReg when the map has no entry
  cache,           \* r.availableModelsCache
  now,             \* the clock
  marked           \* history: the <<client, model>> pairs marked since the
                   \* client last re-registered, or left, with that model

vars == <<clientModels, clientProvider, reg, cache, now, marked>>

NoReg == [count |-> 0,
          prov  |-> [p \in Providers |-> 0],
          info  |-> {},
          quota |-> [c \in Clients |-> NoTime],
          susp  |-> [c \in Clients |-> "none"]]

NoEntry == [valid |-> FALSE, models |-> {}, expires |-> Never]
Bags == [Models -> 0 .. MaxMult]
EmptyBag == [m \in Models |-> 0]

Monus(a, b) == IF a <= b THEN 0 ELSE a - b
Least(a, b) == IF a <= b THEN a ELSE b

(***************************************************************************)
(* What the helpers do to the registration r of one model.                 *)
(***************************************************************************)
\* n occurrences leave provider p: the entry goes away with the last one,
\* and the provider's own model information with it.
\* Mutant: the departing provider's model information stays.
LeaveProviderInfo(r, p, n) ==
  [r EXCEPT !.prov = [q \in Providers |->
                        IF q = p THEN Monus(r.prov[q], n) ELSE r.prov[q]]]

LeaveProvider(r, p, n) ==
  [r EXCEPT !.prov = [q \in Providers |->
                        IF q = p THEN Monus(r.prov[q], n) ELSE r.prov[q]],
            !.info = IF p \in Providers /\ r.prov[p] \in 1 .. n
                     THEN r.info \ {p} ELSE r.info]

\* n calls of addModelRegistration.
AddRegistration(r, p, n) ==
  [r EXCEPT !.count = r.count + n,
            !.prov = [q \in Providers |->
                        IF q = p THEN r.prov[q] + n ELSE r.prov[q]],
            !.info = IF n > 0 THEN r.info \cup ({p} \cap Providers) ELSE r.info]

\* n calls of removeModelRegistration; the last client takes the entry away.
RemoveRegistration(r, c, p, n) ==
  IF n = 0 THEN r
  ELSE IF r.count <= n THEN NoReg
  ELSE [LeaveProvider(r, p, n) EXCEPT !.count = r.count - n,
                                      !.quota[c] = NoTime,
                                      !.susp[c] = "none"]

\* The reconcile path of RegisterClient for one model, whose multiplicity for
\* client c goes from old to new while c's provider goes from p0 to p1.
\* Mutant: all new occurrences leave the old provider, not only the overlap.
MoveAll(r, p0, p1, old, new) ==
  IF p0 # p1 /\ p0 # NoProvider /\ new > 0 /\ old > 0
  THEN LeaveProvider(r, p0, new) ELSE r

MoveOverlap(r, p0, p1, old, new) ==
  IF p0 # p1 /\ p0 # NoProvider /\ new > 0 /\ old > 0
  THEN LeaveProvider(r, p0, Least(old, new)) ELSE r

\* Mutant: a registration that changes nothing for the model returns early.
RefreshChangedOnly(r, c, p0, p1, old, new) ==
  IF new = 0 \/ r.count = 0 \/ (p0 = p1 /\ old = new) THEN r
  ELSE [r EXCEPT !.info = r.info \cup ({p1} \cap Providers),
                 !.quota[c] = NoTime,
                 !.susp[c] = "none",
                 !.prov = [q \in Providers |->
                             IF q = p1 /\ p0 # p1
                             THEN r.prov[q] + Least(old, new) ELSE r.prov[q]]]

RefreshBinding(r, c, p0, p1, old, new) ==
  IF new = 0 \/ r.count = 0 THEN r
  ELSE [r EXCEPT !.info = r.info \cup ({p1} \cap Providers),
                 !.quota[c] = NoTime,
                 !.susp[c] = "none",
                 !.prov = [q \in Providers |->
                             IF q = p1 /\ p0 # p1
                             THEN r.prov[q] + Least(old, new) ELSE r.prov[q]]]

\* Mutant: a lower multiplicity of a kept model is not subtracted.
ReconcileNoOverage(r, c, p0, p1, old, new) ==
  LET moved   == MoveOverlap(r, p0, p1, old, new)
      removed == RemoveRegistration(moved, c, p0, IF new = 0 THEN old ELSE 0)
      added   == AddRegistration(removed, p1, Monus(new, old))
  IN  RefreshBinding(added, c, p0, p1, old, new)

Reconcile(r, c, p0, p1, old, new) ==
  LET moved   == MoveOverlap(r, p0, p1, old, new)
      removed == RemoveRegistration(moved, c, p0, Monus(old, new))
      added   == AddRegistration(removed, p1, Monus(new, old))
  IN  RefreshBinding(added, c, p0, p1, old, new)

(***************************************************************************)
(* Queries.                                                                *)
(***************************************************************************)
HasClient(c) == \E m \in Models : clientModels[c][m] > 0

InQuotaWindow(r, c, t) == r.quota[c] # NoTime /\ t < r.quota[c] + QuotaWindow

Expired(r, t) == {c \in Clients : InQuotaWindow(r, c, t)}
Suspended(r, why) == {c \in Clients : r.susp[c] \in why}

\* The condition under which buildAvailableModelsLocked lists a model at time t.
Listed(r, t) ==
  LET expired == Cardinality(Expired(r, t))
      cooling == Cardinality(Suspended(r, {"quota"}))
      other   == Cardinality(Suspended(r, {"other"}))
  IN  \/ r.count - expired - other > 0
      \/ r.count > 0 /\ (expired > 0 \/ cooling > 0) /\ other = 0

ListedModels(t) == {m \in Models : Listed(reg[m], t)}

\* When the quota windows that are open at time t end.
Recoveries(t) ==
  {u \in 0 .. Never : \E m \in Models, c \in Clients :
     InQuotaWindow(reg[m], c, t) /\ u = reg[m].quota[c] + QuotaWindow}

\* Mutant: the entry outlives the quota windows it was computed in.
BuiltEntryForever(t) ==
  [valid |-> TRUE, models |-> ListedModels(t), expires |-> Never]

BuiltEntry(t) ==
  [valid   |-> TRUE,
   models  |-> ListedModels(t),
   expires |-> IF Recoveries(t) = {} THEN Never ELSE Min(Recoveries(t))]

CacheHit(h, t) == cache[h].valid /\ (cache[h].expires = Never \/ t < cache[h].expires)

\* GetModelProviders, as a set.
ModelProviders(m) == {p \in Providers : reg[m].prov[p] > 0}

(***************************************************************************)
(* Operations.                                                             *)
(***************************************************************************)
InvalidateCache == cache' = [h \in Handlers |-> NoEntry]

Init ==
  /\ clientModels = [c \in Clients |-> EmptyBag]
  /\ clientProvider = [c \in Clients |-> NoProvider]
  /\ reg = [m \in Models |-> NoReg]
  /\ cache = [h \in Handlers |-> NoEntry]
  /\ now = 0
  /\ marked = {}

\* First registration of a client.
AddClient(c, p, bag) ==
  /\ ~HasClient(c)
  /\ bag # EmptyBag
  /\ reg' = [m \in Models |-> AddRegistration(reg[m], p, bag[m])]
  /\ clientModels' = [clientModels EXCEPT ![c] = bag]
  /\ clientProvider' = [clientProvider EXCEPT ![c] = p]
  /\ InvalidateCache
  /\ UNCHANGED <<now, marked>>

\* The pairs of client c with the models it lists or is about to list in bag.
Listing(c, bag) == {c} \X {m \in Models : clientModels[c][m] > 0 \/ bag[m] > 0}

\* Registration of a client that is already there.
ReconcileClient(c, p, bag) ==
  /\ HasClient(c)
  /\ bag # EmptyBag
  /\ reg' = [m \in Models |-> Reconcile(reg[m], c, clientProvider[c], p,
                                        clientModels[c][m], bag[m])]
  /\ clientModels' = [clientModels EXCEPT ![c] = bag]
  /\ clientProvider' = [clientProvider EXCEPT ![c] = p]
  /\ marked' = marked \ Listing(c, bag)
  /\ InvalidateCache
  /\ UNCHANGED now

\* UnregisterClient, and RegisterClient with no usable model.
UnregisterClient(c) ==
  /\ reg' = [m \in Models |-> RemoveRegistration(reg[m], c, clientProvider[c],
                                                 clientModels[c][m])]
  /\ clientModels' = [clientModels EXCEPT ![c] = EmptyBag]
  /\ clientProvider' = [clientProvider EXCEPT ![c] = NoProvider]
  /\ marked' = marked \ Listing(c, EmptyBag)
  /\ InvalidateCache
  /\ UNCHANGED now

\* None of the four marks asks whether c is registered for m.
SetModelQuotaExceeded(c, m) ==
  /\ reg[m].count > 0
  /\ reg' = [reg EXCEPT ![m].quota[c] = now]
  /\ marked' = marked \cup {<<c, m>>}
  /\ InvalidateCache
  /\ UNCHANGED <<clientModels, clientProvider, now>>

ClearModelQuotaExceeded(c, m) ==
  /\ reg[m].count > 0
  /\ reg' = [reg EXCEPT ![m].quota[c] = NoTime]
  /\ InvalidateCache
  /\ UNCHANGED <<clientModels, clientProvider, now, marked>>

SuspendClientModel(c, m, why) ==
  /\ reg[m].count > 0
  /\ reg[m].susp[c] = "none"
  /\ reg' = [reg EXCEPT ![m].susp[c] = why]
  /\ marked' = marked \cup {<<c, m>>}
  /\ InvalidateCache
  /\ UNCHANGED <<clientModels, clientProvider, now>>

ResumeClientModel(c, m) ==
  /\ reg[m].count > 0
  /\ reg[m].susp[c] # "none"
  /\ reg' = [reg EXCEPT ![m].susp[c] = "none"]
  /\ InvalidateCache
  /\ UNCHANGED <<clientModels, clientProvider, now, marked>>

\* A listing that misses the cache rebuilds and stores it; its clock was read
\* at time t, before it had the lock.
GetAvailableModels(h, t) ==
  /\ t <= now
  /\ ~CacheHit(h, t)
  /\ cache' = [cache EXCEPT ![h] = BuiltEntry(t)]
  /\ UNCHANGED <<clientModels, clientProvider, reg, now, marked>>

CleanupExpiredQuotas ==
  LET stale(m, c) == reg[m].quota[c] # NoTime /\ ~InQuotaWindow(reg[m], c, now)
  IN  /\ \E m \in Models, c \in Clients : stale(m, c)
      /\ reg' = [m \in Models |->
                   [reg[m] EXCEPT !.quota = [c \in Clients |->
                      IF stale(m, c) THEN NoTime ELSE reg[m].quota[c]]]]
      /\ InvalidateCache
      /\ UNCHANGED <<clientModels, clientProvider, now, marked>>

Tick ==
  /\ now < MaxTime
  /\ now' = now + 1
  /\ UNCHANGED <<clientModels, clientProvider, reg, cache, marked>>

Next ==
  \/ \E c \in Clients, p \in ProvidersOrNone, bag \in Bags :
       \/ AddClient(c, p, bag)
       \/ ReconcileClient(c, p, bag)
  \/ \E c \in Clients : UnregisterClient(c)
  \/ \E c \in Clients, m \in Models :
       \/ SetModelQuotaExceeded(c, m)
       \/ ClearModelQuotaExceeded(c, m)
       \/ \E why \in {"quota", "other"} : SuspendClientModel(c, m, why)
       \/ ResumeClientModel(c, m)
  \/ \E h \in Handlers, t \in Time : GetAvailableModels(h, t)
  \/ CleanupExpiredQuotas
  \/ Tick

Spec == Init /\ [][Next]_vars

(***************************************************************************)
(* Properties.                                                             *)
(***************************************************************************)
Registration ==
  [count : Nat, prov : [Providers -> Nat], info : SUBSET Providers,
   quota : [Clients -> Time \cup {NoTime}], susp : [Clients -> Reasons]]

\* Every variable holds a value of the shape the registry's maps have.
TypeOK ==
  /\ clientModels \in [Clients -> Bags]
  /\ clientProvider \in [Clients -> ProvidersOrNone]
  /\ reg \in [Models -> Registration]
  /\ cache \in [Handlers -> [valid : BOOLEAN, models : SUBSET Models,
                             expires : 0 .. Never]]
  /\ now \in Time
  /\ marked \subseteq Clients \X Models

\* The occurrences of model m in the clients' lists, as a set of slots.
Slots(m) == {s \in Clients \X (1 .. MaxMult) : s[2] <= clientModels[s[1]][m]}
ProviderSlots(m, p) == {s \in Slots(m) : clientProvider[s[1]] = p}

\* A model's Count is the number of occurrences of that model in the clients'
\* lists, whatever sequence of registrations, re-registrations with another
\* provider or other multiplicities, and removals led there
\* (RegisterClient's reconcile path, model_registry.go:299-421).
CountIsOccurrences ==
  \A m \in Models : reg[m].count = Cardinality(Slots(m))

\* The same for the per-provider counts that GetModelProviders routes by: a
\* provider is credited with exactly the occurrences of its own clients.
ProviderCountIsOccurrences ==
  \A m \in Models, p \in Providers :
    reg[m].prov[p] = Cardinality(ProviderSlots(m, p))

\* A provider has model information of its own exactly while it has clients
\* for the model, so GetModelInfo never answers with a departed provider's.
InfoMatchesProviders ==
  \A m \in Models : reg[m].info = ModelProviders(m)

\* Together: the registry's books agree with the lists they are kept from.
RegistryAddsUp ==
  CountIsOccurrences /\ ProviderCountIsOccurrences /\ InfoMatchesProviders

\* A listing served from the cache is the one a rebuild would give now: no
\* change of registration, quota or suspension, and no passing of a quota
\* window, leaves a stale listing behind (GetAvailableModels).
CacheCoherent ==
  \A h \in Handlers : CacheHit(h, now) => cache[h].models = ListedModels(now)

\* Re-registering an existing client, with the very same models and provider or
\* with others, and unregistering it start afresh: whatever quota mark or
\* suspension a client has on a model was set after it last re-registered, or
\* left, with that model in its old list or its new one ("must not survive this
\* reconciliation step", model_registry.go:395-397).  A first registration does
\* not clear what was marked while the client was away.
RebindStartsFresh ==
  \A c \in Clients, m \in Models :
    reg[m].quota[c] # NoTime \/ reg[m].susp[c] # "none" => <<c, m>> \in marked
=============================================================================
