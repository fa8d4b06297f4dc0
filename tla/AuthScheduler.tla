---------------------------- MODULE AuthScheduler ----------------------------
(***************************************************************************)
(* The credential scheduler (sdk/cliproxy/auth/scheduler.go).  For every   *)
(* provider and model a shard, built when first asked for, indexes the     *)
(* credentials that are ready by priority and keeps a round-robin cursor   *)
(* per view; the others wait for their retry time.  The shards are kept up *)
(* to date incrementally, from snapshots of the credentials.  Everything   *)
(* runs under s.mu, so each operation is one action.                       *)
(*                                                                         *)
(* A view lists its credentials in the order of their ids: it is the set   *)
(* of them here, and an index into it is a rank.                           *)
(***************************************************************************)
EXTENDS Integers, Sequences, FiniteSets, FiniteSetsExt

CONSTANTS
  Auths,        \* credential ids, numbers for their order
  Providers,    \* a sequence: the provider list of a mixed request
  NoProvider,
  WsProviders,  \* the providers that prefer websocket transport
  Models,
  Priorities,
  Snapshots,    \* Snapshots[a]: the snapshots of a that may be upserted
  MaxTime       \* bound of the clock

ProviderSet == {Providers[i] : i \in DOMAIN Providers}

\* What the scheduler reads of a credential.
Snapshot ==
  [provider : ProviderSet, disabled : BOOLEAN, priority : Priorities, ws : BOOLEAN,
   supported : SUBSET Models, off : BOOLEAN, quota : BOOLEAN, until : Nat, recover : Nat]

\* The provider list has no repetitions (normalizeProviderKeys).
ASSUME SchedulerAssumption ==
  /\ Providers \in Seq(ProviderSet)
  /\ \A i, j \in DOMAIN Providers : Providers[i] = Providers[j] => i = j
  /\ Auths \subseteq Nat /\ IsFiniteSet(Auths)
  /\ Priorities \subseteq Int /\ IsFiniteSet(Priorities)
  /\ MaxTime \in Nat
  /\ NoProvider \notin ProviderSet
  /\ \A a \in Auths : \A s \in Snapshots[a] : s \in Snapshot

VARIABLES
  meta,       \* meta[a]: the snapshot last upserted, NoMeta when disabled or unknown
  shards,     \* shards[p][m]
  mixed,      \* mixed[m]: the mixed-provider cursor
  known,      \* the providers that have a providerScheduler
  now,
  wait,       \* history: wait[m][a], how often a was passed over in its view
  turn        \* history: turn[m][p], how often p was passed over by mixed picks

vars == <<meta, shards, mixed, known, now, wait, turn>>

Nobody == -1
Strategies == {"roundRobin", "fillFirst"}
NoMeta == [provider |-> NoProvider, disabled |-> TRUE, priority |-> 0, ws |-> FALSE,
           supported |-> {}, off |-> FALSE, quota |-> FALSE, until |-> 0, recover |-> 0]
NoEntry == [state |-> "none", next |-> 0]
Unbuilt == [built |-> FALSE,
            entry |-> [a \in Auths |-> NoEntry],
            view  |-> [pr \in Priorities |-> [k \in {"all", "ws"} |->
                         [auths |-> {}, cursor |-> 0]]],
            blocked |-> {}]

(***************************************************************************)
(* isAuthBlockedForModel, on a snapshot; until, recover and quota are      *)
(* those of the model's state (NextRetryAfter, Quota.NextRecoverAt and     *)
(* Quota.Exceeded); off says that the credential or its model state has    *)
(* StatusDisabled.                                                         *)
(***************************************************************************)
Blocked(s, t) == s.off \/ s.until > t

EntryAt(s, t) ==
  CASE s.off                  -> [state |-> "disabled", next |-> 0]
    [] ~s.off /\ s.until > t  -> [state |-> IF s.quota THEN "cooldown" ELSE "blocked",
                                  next |-> IF s.recover > t THEN s.recover ELSE s.until]
    [] ~s.off /\ s.until <= t -> [state |-> "ready", next |-> 0]

Serves(s, p, m) == s.provider = p /\ m \in s.supported

(***************************************************************************)
(* Shards.                                                                 *)
(***************************************************************************)
Rank(view, a) == Cardinality({b \in view : b < a})

\* Mutant: the cursors are not kept.
ReindexAfresh(sh, md) ==
  LET ready(pr) == {a \in Auths : sh.entry[a].state = "ready" /\ md[a].priority = pr}
      members(pr, k) == {a \in ready(pr) : k = "ws" => md[a].ws}
  IN  [sh EXCEPT
        !.view = [pr \in Priorities |-> [k \in {"all", "ws"} |->
                    [auths |-> members(pr, k), cursor |-> 0]]],
        !.blocked = {a \in Auths : sh.entry[a].state \in {"blocked", "cooldown"}}]

\* rebuildIndexesLocked: a view that stays or becomes non-empty keeps its
\* cursor, modulo its new length.
Reindex(sh, md) ==
  LET ready(pr) == {a \in Auths : sh.entry[a].state = "ready" /\ md[a].priority = pr}
      members(pr, k) == {a \in ready(pr) : k = "ws" => md[a].ws}
  IN  [sh EXCEPT
        !.view = [pr \in Priorities |-> [k \in {"all", "ws"} |->
                    [auths  |-> members(pr, k),
                     cursor |-> IF members(pr, k) = {} THEN 0
                                ELSE sh.view[pr][k].cursor % Cardinality(members(pr, k))]]],
        !.blocked = {a \in Auths : sh.entry[a].state \in {"blocked", "cooldown"}}]

RemoveEntry(sh, a, md) ==
  IF sh.entry[a] = NoEntry THEN sh
  ELSE Reindex([sh EXCEPT !.entry[a] = NoEntry], md)

\* Mutant: a change of priority alone does not rebuild the index.
UpsertEntryLazily(sh, a, md) ==
  LET e  == EntryAt(md[a], now)
      up == [sh EXCEPT !.entry[a] = e]
  IN  IF sh.entry[a] = e /\ meta[a].ws = md[a].ws
      THEN up ELSE Reindex(up, md)

\* The index is rebuilt only when what it depends on has changed.
UpsertEntry(sh, a, md) ==
  LET e  == EntryAt(md[a], now)
      up == [sh EXCEPT !.entry[a] = e]
  IN  IF sh.entry[a] = e /\ meta[a].priority = md[a].priority /\ meta[a].ws = md[a].ws
      THEN up ELSE Reindex(up, md)

\* Mutant: an entry is promoted one tick late.
PromoteLate(sh) ==
  LET over == {a \in sh.blocked : sh.entry[a].next # 0 /\ sh.entry[a].next < now}
  IN  IF over = {} THEN sh
      ELSE Reindex([sh EXCEPT !.entry = [a \in Auths |->
             IF a \in over THEN EntryAt(meta[a], now) ELSE sh.entry[a]]], meta)

Promote(sh) ==
  LET over == {a \in sh.blocked : sh.entry[a].next # 0 /\ sh.entry[a].next <= now}
  IN  IF over = {} THEN sh
      ELSE Reindex([sh EXCEPT !.entry = [a \in Auths |->
             IF a \in over THEN EntryAt(meta[a], now) ELSE sh.entry[a]]], meta)

\* ensureModelLocked.
Ensured(p, m) ==
  IF p \notin known THEN shards[p][m]
  ELSE IF shards[p][m].built THEN Promote(shards[p][m])
  ELSE Reindex([Unbuilt EXCEPT !.built = TRUE, !.entry = [a \in Auths |->
         IF Serves(meta[a], p, m) THEN EntryAt(meta[a], now) ELSE NoEntry]], meta)

(***************************************************************************)
(* Selection from a shard, among the credentials in ok: those the request  *)
(* has not tried, or the one it is pinned to.                              *)
(***************************************************************************)
PrioritiesWith(sh, k, ok) == {pr \in Priorities : sh.view[pr][k].auths \cap ok # {}}

\* highestReadyPriorityLocked, as a set: empty when there is none.
HighestReady(sh, pref, ok) ==
  LET ws  == PrioritiesWith(sh, "ws", ok)
      all == PrioritiesWith(sh, "all", ok)
  IN  IF pref /\ ws # {} THEN {Max(ws)} ELSE IF all # {} THEN {Max(all)} ELSE {}

ViewKind(sh, pr, pref, ok) == IF pref /\ sh.view[pr]["ws"].auths \cap ok # {} THEN "ws" ELSE "all"
ReadyCount(sh, pr, pref, ok) == Cardinality(sh.view[pr][ViewKind(sh, pr, pref, ok)].auths \cap ok)

\* pickRoundRobin: the first in ok from the cursor on, cyclically.
NextInTurn(view, ok) ==
  LET n == Cardinality(view.auths)
      dist(a) == (Rank(view.auths, a) + n - (view.cursor % n)) % n
  IN  CHOOSE a \in view.auths \cap ok : \A b \in view.auths \cap ok : dist(a) <= dist(b)

\* Whether a pick from p may prefer websockets.
Preferences(p) == IF p \in WsProviders THEN BOOLEAN ELSE {FALSE}

Missed(sh) == [auth |-> Nobody, view |-> "none", shard |-> sh]

\* pickReadyAtPriorityLocked, where the priority has somebody in ok.
PickAt(sh, pr, pref, ok, how) ==
  LET k == ViewKind(sh, pr, pref, ok)
      v == sh.view[pr][k]
      a == IF how = "fillFirst" THEN Min(v.auths \cap ok) ELSE NextInTurn(v, ok)
  IN  IF how = "fillFirst" THEN [Missed(sh) EXCEPT !.auth = a]
      ELSE [auth |-> a, view |-> k,
            shard |-> [sh EXCEPT !.view[pr][k].cursor = Rank(v.auths, a) + 1]]

PickFrom(sh, pref, ok, how) ==
  LET best == HighestReady(sh, pref, ok)
  IN  IF best = {} THEN Missed(sh) ELSE PickAt(sh, Max(best), pref, ok, how)

(***************************************************************************)
(* Selection from the providers of a mixed request: each has a segment of  *)
(* as many slots as it has candidates, and the cursor is a slot.           *)
(***************************************************************************)
\* Mutant: the first provider with a candidate decides the priority.
MixedBestFirst(en, pref, ok) ==
  LET best(i) == HighestReady(en[Providers[i]], pref /\ Providers[i] \in WsProviders, ok)
      with    == {i \in DOMAIN Providers : best(i) # {}}
  IN  IF with = {} THEN {} ELSE best(Min(with))

MixedBest(en, pref, ok) ==
  UNION {HighestReady(en[p], pref /\ p \in WsProviders, ok) : p \in ProviderSet}

Weight(en, i, pr, pref, ok) ==
  ReadyCount(en[Providers[i]], pr, pref /\ Providers[i] \in WsProviders, ok)

SegmentStart(en, i, pr, pref, ok) ==
  MapThenSumSet(LAMBDA j : Weight(en, j, pr, pref, ok), 1 .. i - 1)

MixedSlot(m, en, pr, pref, ok) ==
  mixed[m] % SegmentStart(en, Len(Providers) + 1, pr, pref, ok)

\* The first provider with a candidate, or the one whose segment has the slot.
MixedProvider(m, en, pr, pref, ok, how) ==
  IF how = "fillFirst"
  THEN Min({i \in DOMAIN Providers : Weight(en, i, pr, pref, ok) > 0})
  ELSE CHOOSE i \in DOMAIN Providers :
         MixedSlot(m, en, pr, pref, ok) \in
           SegmentStart(en, i, pr, pref, ok) .. SegmentStart(en, i + 1, pr, pref, ok) - 1

\* Mutant: the cursor stays in its provider's segment.
MixedCursorStuck(m, en, pr, pref, ok, how) ==
  IF how = "fillFirst" THEN mixed[m] ELSE MixedSlot(m, en, pr, pref, ok)

MixedCursor(m, en, pr, pref, ok, how) ==
  IF how = "fillFirst" THEN mixed[m] ELSE MixedSlot(m, en, pr, pref, ok) + 1

EnsuredAll(m) == [p \in ProviderSet |-> Ensured(p, m)]

\* pickMixed without a pinned credential, from the ensured shards en: what it
\* picks, and from which provider.
MixedPick(m, en, pref, ok, how) ==
  LET best == MixedBest(en, pref, ok)
      pr   == Max(best)
      p    == Providers[MixedProvider(m, en, pr, pref, ok, how)]
  IN  IF best = {}
      THEN [auth |-> Nobody, view |-> "none", shards |-> en, provider |-> NoProvider,
            cursor |-> mixed[m]]
      ELSE LET r == PickAt(en[p], pr, pref /\ p \in WsProviders, ok, how)
           IN  [auth |-> r.auth, view |-> r.view, shards |-> [en EXCEPT ![p] = r.shard],
                provider |-> p, cursor |-> MixedCursor(m, en, pr, pref, ok, how)]

(***************************************************************************)
(* History.  A wait starts anew when those taking turns change.            *)
(***************************************************************************)
\* The credentials a takes turns with.
Circle(sh, m, a) ==
  LET views == {sh[x[1]][m].view[x[2]]["all"].auths : x \in ProviderSet \X Priorities}
  IN  UNION {v \in views : a \in v}

\* The waits when a was picked by turns from a view, those in ok being candidates.
Waited(m, a, view, ok) ==
  [b \in Auths |->
     IF Circle(shards', m, b) # Circle(shards, m, b) \/ b = a \/ b \notin ok THEN 0
     ELSE IF view = "all" /\ a \in Circle(shards, m, b) THEN wait[m][b] + 1 ELSE wait[m][b]]

\* How many candidates each provider gives a mixed request for m that excludes nobody.
Weights(sh, m) ==
  LET best(p) == PrioritiesWith(sh[p][m], "all", Auths)
      top     == UNION {best(p) : p \in ProviderSet}
  IN  [p \in ProviderSet |->
         IF top = {} THEN 0 ELSE Cardinality(sh[p][m].view[Max(top)]["all"].auths)]

\* The turns passed by, after a pick from p by turns, or one of another kind
\* (NoProvider).
Turned(m, q) ==
  [p \in ProviderSet |->
     IF Weights(shards', m) # Weights(shards, m) \/ p = q \/ Weights(shards, m)[p] = 0 THEN 0
     ELSE IF q = NoProvider THEN turn[m][p] ELSE turn[m][p] + 1]

NoTurns == [m \in Models |-> [p \in ProviderSet |-> 0]]

(***************************************************************************)
(* Operations.                                                             *)
(***************************************************************************)
Init ==
  /\ meta = [a \in Auths |-> NoMeta]
  /\ shards = [p \in ProviderSet |-> [m \in Models |-> Unbuilt]]
  /\ mixed = [m \in Models |-> 0]
  /\ known = {}
  /\ now = 0
  /\ wait = [m \in Models |-> [a \in Auths |-> 0]]
  /\ turn = NoTurns

\* Mutant: the shards of the previous provider keep the credential.
UpdatedShardKeeping(a, s, md, p, m) ==
  CASE s.disabled \/ (p = s.provider /\ m \notin s.supported) -> RemoveEntry(shards[p][m], a, md)
    [] ~s.disabled /\ Serves(s, p, m) /\ shards[p][m].built ->
         UpsertEntry(shards[p][m], a, md)
    [] OTHER -> shards[p][m]

\* providerScheduler.upsertAuthLocked and removeAuthLocked, on one shard.
UpdatedShard(a, s, md, p, m) ==
  CASE s.disabled \/ ~Serves(s, p, m) -> RemoveEntry(shards[p][m], a, md)
    [] ~s.disabled /\ Serves(s, p, m) /\ shards[p][m].built -> UpsertEntry(shards[p][m], a, md)
    [] OTHER -> shards[p][m]

\* upsertAuth with a snapshot, which removes a disabled credential.  resync is
\* a sequence of these.
Upsert(a, s) ==
  LET md == [meta EXCEPT ![a] = IF s.disabled THEN NoMeta ELSE s]
  IN  /\ meta' = md
      /\ shards' = [p \in ProviderSet |-> [m \in Models |-> UpdatedShard(a, s, md, p, m)]]
      /\ known' = IF s.disabled THEN known ELSE known \cup {s.provider}
      /\ wait' = [m \in Models |-> Waited(m, Nobody, "none", Auths)]
      /\ turn' = [m \in Models |-> Turned(m, NoProvider)]
      /\ UNCHANGED <<mixed, now>>

\* rebuild: everything is made anew, the cursors are reset.
Rebuild ==
  /\ shards' = [p \in ProviderSet |-> [m \in Models |-> Unbuilt]]
  /\ mixed' = [m \in Models |-> 0]
  /\ known' = {meta[a].provider : a \in Auths} \ {NoProvider}
  /\ wait' = [m \in Models |-> [a \in Auths |-> 0]]
  /\ turn' = NoTurns
  /\ UNCHANGED <<meta, now>>

\* The strategy is read before s.mu is taken, and a request may override it:
\* every pick takes either.
SetSelector ==
  /\ mixed' = [m \in Models |-> 0]
  /\ turn' = NoTurns
  /\ UNCHANGED <<meta, shards, known, now, wait>>

\* pickSingle; a mixed pick of a pinned credential is one on its provider.
PickSingle(p, m, pref, ok, how) ==
  LET r == PickFrom(Ensured(p, m), pref, ok, how)
  IN  /\ shards' = [shards EXCEPT ![p][m] = r.shard]
      /\ wait' = [wait EXCEPT ![m] = Waited(m, r.auth, r.view, ok)]
      /\ turn' = [turn EXCEPT ![m] = Turned(m, NoProvider)]
      /\ UNCHANGED <<meta, mixed, known, now>>

PickMixed(m, pref, ok, how) ==
  \E r \in {MixedPick(m, en, pref, ok, how) : en \in {EnsuredAll(m)}} :
    /\ shards' = [p \in ProviderSet |-> [shards[p] EXCEPT ![m] = r.shards[p]]]
    /\ mixed' = [mixed EXCEPT ![m] = r.cursor]
    /\ wait' = [wait EXCEPT ![m] = Waited(m, r.auth, r.view, ok)]
    /\ turn' = [turn EXCEPT ![m] =
                  IF how = "roundRobin" /\ ~pref /\ ok = Auths THEN Turned(m, r.provider)
                  ELSE [p \in ProviderSet |-> 0]]
    /\ UNCHANGED <<meta, known, now>>

Tick ==
  /\ now < MaxTime /\ now' = now + 1
  /\ UNCHANGED <<meta, shards, mixed, known, wait, turn>>

Next ==
  \/ \E a \in Auths : \E s \in Snapshots[a] : Upsert(a, s)
  \/ Rebuild
  \/ SetSelector
  \/ \E m \in Models, ok \in SUBSET Auths, how \in Strategies :
       \/ \E p \in ProviderSet : \E pref \in Preferences(p) :
            PickSingle(p, m, pref, ok, how)
       \/ \E pref \in BOOLEAN : PickMixed(m, pref, ok, how)
  \/ Tick

Spec == Init /\ [][Next]_vars

(***************************************************************************)
(* Properties.                                                             *)
(***************************************************************************)
\* The views and the blocked queue of a shard are what a rebuild from its
\* entries and the latest snapshots would make them, although upsertEntryLocked
\* rebuilds only when it sees a reason to.
IndexesMatchEntries ==
  \A p \in ProviderSet, m \in Models : LET sh == shards[p][m] IN
    /\ sh.blocked = {a \in Auths : sh.entry[a].state \in {"blocked", "cooldown"}}
    /\ \A pr \in Priorities :
         LET ready == {a \in Auths : sh.entry[a].state = "ready" /\ meta[a].priority = pr}
         IN  /\ sh.view[pr]["all"].auths = ready
             /\ sh.view[pr]["ws"].auths = {a \in ready : meta[a].ws}

\* A built shard has an entry for exactly the credentials of its provider that
\* serve its model, whatever came and went, changed provider or models.
EntriesMatchAuths ==
  \A p \in ProviderSet, m \in Models :
    shards[p][m].built =>
      {a \in Auths : shards[p][m].entry[a] # NoEntry} = {a \in Auths : Serves(meta[a], p, m)}

\* Together: a shard holds what it should, and its indexes say so.
ShardsMatch == EntriesMatchAuths /\ IndexesMatchEntries

\* Certainly not waiting for anything.
Usable(a, p, m) ==
  Serves(meta[a], p, m) /\ ~meta[a].off /\ meta[a].until <= now /\ meta[a].recover <= now

SingleIsRight(p, m, pref, ok, how) ==
  LET a == PickFrom(Ensured(p, m), pref, ok, how).auth
  IN  /\ a # Nobody => a \in ok /\ Serves(meta[a], p, m) /\ ~Blocked(meta[a], now)
      /\ \A b \in ok : Usable(b, p, m) =>
           /\ a # Nobody
           /\ IF pref /\ meta[b].ws
              THEN meta[a].ws /\ meta[a].priority >= meta[b].priority
              ELSE (pref /\ meta[a].ws) \/ meta[a].priority >= meta[b].priority

MixedIsRight(m, en, pref, ok, how) ==
  LET a == MixedPick(m, en, pref, ok, how).auth
  IN  /\ a # Nobody => /\ a \in ok /\ ~Blocked(meta[a], now)
                       /\ \E p \in ProviderSet : Serves(meta[a], p, m)
      /\ \A b \in ok, p \in ProviderSet : Usable(b, p, m) =>
           a # Nobody /\ (~pref => meta[a].priority >= meta[b].priority)

\* Whatever the next request to one provider is, it is given a candidate that
\* serves the model and is not blocked now, and never misses one that waits for
\* nothing or is given one of a lower priority than such a candidate's, except
\* for a websocket credential where the client wants one.
SinglePickIsRight ==
  \A p \in ProviderSet, m \in Models, ok \in SUBSET Auths, how \in Strategies :
    \A pref \in Preferences(p) : SingleIsRight(p, m, pref, ok, how)

\* The same for requests to all providers, where only requests that do not
\* prefer websockets are sure to get the highest priority.
MixedPickIsRight ==
  \A m \in Models, ok \in SUBSET Auths, how \in Strategies, pref \in BOOLEAN :
    \A en \in {EnsuredAll(m)} : MixedIsRight(m, en, pref, ok, how)

\* While the members of its view stay the same, no credential is passed over as
\* often as there are credentials in the view, however many upserts and filtered
\* picks come in between: every rebuild keeps the rotation's place.
RotationFair ==
  \A m \in Models, a \in Auths :
    wait[m][a] # 0 => wait[m][a] < Cardinality(Circle(shards, m, a))

\* Between two mixed picks of a provider the others are picked at most as often
\* as they have candidates.
MixedFair ==
  \A m \in Models, p \in ProviderSet :
    turn[m][p] <= MapThenSumSet(LAMBDA q : Weights(shards, m)[q], ProviderSet \ {p})
=============================================================================
