------------------------ MODULE AuthSchedulerProofs -------------------------
(***************************************************************************)
(* Proofs about AuthScheduler: for all credentials, providers, models,     *)
(* priorities and snapshots the incremental indexes are exact, the shards  *)
(* hold the right credentials, every pick is right, from one provider or   *)
(* from all, and both rotations are fair: that of the credentials in a     *)
(* view and that of the providers in mixed picks.                          *)
(***************************************************************************)
EXTENDS AuthScheduler, FiniteSetTheorems, TLAPS

(***************************************************************************)
(* Least and greatest elements.                                            *)
(***************************************************************************)

\* A function into the naturals takes its least value somewhere.
LEMMA LeastValue ==
  ASSUME NEW S, S # {}, NEW f \in [S -> Nat]
  PROVE  \E x \in S : \A y \in S : f[x] <= f[y]
<1> DEFINE R == {ss \in Nat \X Nat : ss[1] < ss[2]}
           T == {f[x] : x \in S}
<1>1. OpToRel(<, Nat) = R
  BY Zenon DEF OpToRel
<1>2. T \subseteq Nat /\ T # {}
  OBVIOUS
<1>3. \E x \in T : \A y \in T : ~ (<<y, x>> \in R)
  <2> HIDE DEF R, T
  <2>1. IsWellFoundedOn(R, Nat)
    BY <1>1, NatLessThanWellFounded
  <2>2. QED
    BY <2>1, <1>2, WFMin
<1>4. PICK v \in T : \A w \in T : ~ (<<w, v>> \in R)
  BY <1>3
<1>5. PICK x \in S : f[x] = v
  BY <1>4
<1>6. ASSUME NEW y \in S PROVE f[x] <= f[y]
  <2>1. ~ (<<f[y], f[x]>> \in R)
    BY <1>4, <1>5
  <2>2. f[x] \in Nat /\ f[y] \in Nat
    OBVIOUS
  <2>3. QED
    BY <2>1, <2>2
<1>7. QED
  BY <1>6

LEMMA MinOfNaturals ==
  ASSUME NEW S \in SUBSET Nat, S # {}
  PROVE  Min(S) \in S /\ \A y \in S : Min(S) <= y
<1> DEFINE f == [x \in S |-> x]
<1>1. f \in [S -> Nat]
  OBVIOUS
<1>2. PICK x \in S : \A y \in S : f[x] <= f[y]
  <2> HIDE DEF f
  <2>1. QED
    BY <1>1, LeastValue
<1>3. \A y \in S : x =< y
  BY <1>2
<1>4. QED
  BY <1>3 DEF Min

\* The greatest of finitely many integers: the one with fewest above it.
LEMMA MaxOfIntegers ==
  ASSUME NEW S \in SUBSET Int, IsFiniteSet(S), S # {}
  PROVE  Max(S) \in S /\ \A y \in S : Max(S) >= y
<1> DEFINE Above(x) == {y \in S : y > x}
           f == [x \in S |-> Cardinality(Above(x))]
<1>1. ASSUME NEW x \in S PROVE IsFiniteSet(Above(x)) /\ Cardinality(Above(x)) \in Nat
  BY FS_Subset, FS_CardinalityType
<1>2. f \in [S -> Nat]
  BY <1>1
<1>3. PICK x \in S : \A y \in S : f[x] <= f[y]
  <2> HIDE DEF f
  <2>1. QED
    BY <1>2, LeastValue
<1>4. ASSUME NEW y \in S, ~(x >= y) PROVE FALSE
  <2>1. y > x
    BY <1>4
  <2>2. Above(y) \subseteq Above(x) /\ y \in Above(x) /\ y \notin Above(y)
    <3>1. \A z \in S : z \in Int
      OBVIOUS
    <3>2. \A z \in S : z > y => z > x
      BY <2>1, <3>1
    <3>3. ~(y > y)
      BY <3>1
    <3>4. QED
      BY <2>1, <3>2, <3>3
  <2>3. Cardinality(Above(y)) <= Cardinality(Above(x))
        /\ Cardinality(Above(x)) # Cardinality(Above(y))
    <3> HIDE DEF Above
    <3>1. QED
      BY <2>2, <1>1, FS_Subset
  <2>4. Cardinality(Above(x)) <= Cardinality(Above(y))
    BY <1>3
  <2>5. QED
    BY <2>3, <2>4, <1>1
<1>5. QED
  BY <1>4 DEF Max

(***************************************************************************)
(* The inductive invariant: what a shard's entries say is right for the    *)
(* latest snapshots, except that a wait may be over without notice.        *)
(***************************************************************************)
Kinds == {"all", "ws"}
Waiting == {"blocked", "cooldown"}
EntryType == [state : {"none", "disabled", "ready"} \cup Waiting, next : Nat]
ViewType == [auths : SUBSET Auths, cursor : Nat]
ShardType == [built : BOOLEAN, entry : [Auths -> EntryType],
              view : [Priorities -> [Kinds -> ViewType]], blocked : SUBSET Auths]
MetaType == [Auths -> Snapshot \cup {NoMeta}]

ReadyAt(sh, md, pr) == {a \in Auths : sh.entry[a].state = "ready" /\ md[a].priority = pr}

\* One shard of IndexesMatchEntries.
Indexed(sh, md) ==
  /\ sh.blocked = {a \in Auths : sh.entry[a].state \in Waiting}
  /\ \A pr \in Priorities :
       /\ sh.view[pr]["all"].auths = ReadyAt(sh, md, pr)
       /\ sh.view[pr]["ws"].auths = {a \in ReadyAt(sh, md, pr) : md[a].ws}

\* e is what EntryAt made of s at t or before.
EntryRight(e, s, t) ==
  /\ e.state # "none"
  /\ e.state = "ready" => ~Blocked(s, t)
  /\ e.state = "disabled" => s.off
  /\ e.state \in Waiting => e.next # 0 /\ (e.next <= s.until \/ e.next <= s.recover)

\* A built shard has entries for those that it serves.
EntryHeld(e, built, s, p, m, t) ==
  IF built /\ Serves(s, p, m) THEN EntryRight(e, s, t) ELSE e = NoEntry

HeldRight(sh, p, m, md, t) ==
  \A a \in Auths : EntryHeld(sh.entry[a], sh.built, md[a], p, m, t)

ShardRight(sh, p, m, md, t) ==
  sh \in ShardType /\ Indexed(sh, md) /\ HeldRight(sh, p, m, md, t)

\* Nobody usable is left waiting.
Promoted(sh, p, m) == \A a \in Auths : Usable(a, p, m) => sh.entry[a].state = "ready"

IInv ==
  /\ now \in Nat /\ known \subseteq ProviderSet
  /\ meta \in MetaType /\ \A a \in Auths : meta[a].provider \in known \cup {NoProvider}
  /\ shards \in [ProviderSet -> [Models -> ShardType]]
  /\ \A p \in ProviderSet, m \in Models : ShardRight(shards[p][m], p, m, meta, now)

(***************************************************************************)
(* What the helpers return.                                                *)
(***************************************************************************)
LEMMA NoMetaFacts ==
  /\ NoMeta.provider = NoProvider /\ NoMeta.until = 0 /\ NoMeta.recover = 0
  /\ NoMeta.off \in BOOLEAN /\ NoMeta.quota \in BOOLEAN
  /\ \A p \in ProviderSet, m \in Models : ~Serves(NoMeta, p, m)
BY SchedulerAssumption DEF NoMeta, Serves

LEMMA EntryAtFacts ==
  ASSUME NEW s \in Snapshot \cup {NoMeta}, NEW t \in Nat
  PROVE  /\ EntryAt(s, t) \in EntryType
         /\ EntryRight(EntryAt(s, t), s, t)
         /\ ~s.off /\ s.until <= t => EntryAt(s, t).state = "ready"
<1>1. s.until \in Nat /\ s.recover \in Nat /\ s.off \in BOOLEAN /\ s.quota \in BOOLEAN
  BY NoMetaFacts DEF Snapshot
<1>2. CASE s.off
  BY <1>1, <1>2 DEF EntryAt, EntryType, EntryRight, Waiting, Blocked
<1>3. CASE ~s.off /\ s.until > t
  <2>1. EntryAt(s, t) = [state |-> IF s.quota THEN "cooldown" ELSE "blocked",
                         next  |-> IF s.recover > t THEN s.recover ELSE s.until]
    BY <1>1, <1>3 DEF EntryAt
  <2>2. QED
    BY <1>1, <1>3, <2>1 DEF EntryType, EntryRight, Waiting, Blocked
<1>4. CASE ~s.off /\ s.until <= t
  <2>1. EntryAt(s, t) = [state |-> "ready", next |-> 0]
    BY <1>1, <1>4 DEF EntryAt
  <2>2. QED
    BY <1>1, <1>4, <2>1 DEF EntryType, EntryRight, Waiting, Blocked
<1>5. QED
  BY <1>1, <1>2, <1>3, <1>4

\* A rebuild keeps the entries and makes the indexes exact.
LEMMA ReindexFacts ==
  ASSUME NEW sh \in ShardType, NEW md \in MetaType
  PROVE  /\ Reindex(sh, md) \in ShardType
         /\ Reindex(sh, md).built = sh.built
         /\ Reindex(sh, md).entry = sh.entry
         /\ Indexed(Reindex(sh, md), md)
<1> DEFINE members(pr, k) == {a \in ReadyAt(sh, md, pr) : k = "ws" => md[a].ws}
           cursor(pr, k) == IF members(pr, k) = {} THEN 0
                            ELSE sh.view[pr][k].cursor % Cardinality(members(pr, k))
           view == [pr \in Priorities |-> [k \in Kinds |->
                      [auths |-> members(pr, k), cursor |-> cursor(pr, k)]]]
           blocked == {a \in Auths : sh.entry[a].state \in Waiting}
<1>1. Reindex(sh, md) = [sh EXCEPT !.view = view, !.blocked = blocked]
  BY DEF Reindex, ReadyAt, Kinds, Waiting
<1>2. ASSUME NEW pr \in Priorities, NEW k \in Kinds
      PROVE  cursor(pr, k) \in Nat /\ members(pr, k) \in SUBSET Auths
  <2>1. members(pr, k) \in SUBSET Auths
    BY DEF ReadyAt
  <2>2. IsFiniteSet(members(pr, k))
    BY <2>1, FS_Subset, SchedulerAssumption
  <2>3. Cardinality(members(pr, k)) \in Nat
        /\ (Cardinality(members(pr, k)) = 0 <=> members(pr, k) = {})
    <3> HIDE DEF members
    <3>1. QED
      BY <2>2, FS_CardinalityType, FS_EmptySet
  <2>4. sh.view[pr][k].cursor \in Nat
    BY DEF ShardType, ViewType
  <2>5. cursor(pr, k) \in Nat
    <3> HIDE DEF members
    <3>1. CASE members(pr, k) = {}
      BY <3>1
    <3>2. CASE members(pr, k) # {}
      BY <3>2, <2>3, <2>4
    <3>3. QED
      BY <3>1, <3>2
  <2>6. QED
    BY <2>1, <2>5
<1>3. view \in [Priorities -> [Kinds -> ViewType]]
  <2> HIDE DEF members, cursor
  <2>1. QED
    BY <1>2 DEF ViewType
<1>4. /\ Reindex(sh, md).built = sh.built /\ Reindex(sh, md).entry = sh.entry
      /\ Reindex(sh, md).view = view /\ Reindex(sh, md).blocked = blocked
      /\ Reindex(sh, md) \in ShardType
  <2> HIDE DEF view
  <2>1. QED
    BY <1>1, <1>3 DEF ShardType
<1>5. \A pr \in Priorities : ReadyAt(Reindex(sh, md), md, pr) = ReadyAt(sh, md, pr)
  BY <1>4 DEF ReadyAt
<1>6. \A pr \in Priorities :
        /\ view[pr]["all"].auths = ReadyAt(sh, md, pr)
        /\ view[pr]["ws"].auths = {a \in ReadyAt(sh, md, pr) : md[a].ws}
  <2> HIDE DEF cursor
  <2>1. QED
    BY DEF Kinds
<1>7. QED
  <2> HIDE DEF view
  <2>1. QED
    BY <1>4, <1>5, <1>6 DEF Indexed

\* Entries that are right stay right as time passes.
LEMMA EntryRightLater ==
  ASSUME NEW s \in Snapshot \cup {NoMeta}, NEW e \in EntryType, NEW t \in Nat, EntryRight(e, s, t)
  PROVE  EntryRight(e, s, t + 1)
<1>1. s.until \in Nat
  BY NoMetaFacts DEF Snapshot
<1>2. QED
  BY <1>1 DEF EntryRight, Blocked

\* A shard that has not been asked for is right whatever the credentials are.
LEMMA UnbuiltRight ==
  ASSUME NEW p, NEW m, NEW md \in MetaType, NEW t
  PROVE  Unbuilt \in ShardType /\ Unbuilt.built = FALSE /\ ShardRight(Unbuilt, p, m, md, t)
<1>1. NoEntry \in EntryType /\ NoEntry.state = "none"
  BY DEF NoEntry, EntryType
<1>2. Unbuilt \in ShardType
  BY <1>1 DEF Unbuilt, ShardType, ViewType, Kinds
<1>3. /\ Unbuilt.built = FALSE /\ Unbuilt.blocked = {}
      /\ \A a \in Auths : Unbuilt.entry[a] = NoEntry
      /\ \A pr \in Priorities : /\ Unbuilt.view[pr]["all"].auths = {}
                                /\ Unbuilt.view[pr]["ws"].auths = {}
  BY DEF Unbuilt
<1>4. \A pr \in Priorities : ReadyAt(Unbuilt, md, pr) = {}
  BY <1>1, <1>3 DEF ReadyAt
<1>5. Indexed(Unbuilt, md)
  BY <1>1, <1>3, <1>4 DEF Indexed, Waiting
<1>6. HeldRight(Unbuilt, p, m, md, t)
  BY <1>3 DEF HeldRight, EntryHeld
<1>7. QED
  BY <1>2, <1>3, <1>5, <1>6 DEF ShardRight

\* promoteExpiredLocked leaves a right shard in which nobody waits in vain.
LEMMA PromoteFacts ==
  ASSUME IInv, NEW p \in ProviderSet, NEW m \in Models, NEW sh, sh.built,
         ShardRight(sh, p, m, meta, now)
  PROVE  /\ Promote(sh).built
         /\ ShardRight(Promote(sh), p, m, meta, now)
         /\ Promoted(Promote(sh), p, m)
<1> DEFINE over == {a \in sh.blocked : sh.entry[a].next # 0 /\ sh.entry[a].next <= now}
           entry == [a \in Auths |-> IF a \in over THEN EntryAt(meta[a], now) ELSE sh.entry[a]]
           up == [sh EXCEPT !.entry = entry]
           r == Promote(sh)
<1>1. /\ now \in Nat /\ meta \in MetaType /\ sh \in ShardType
      /\ \A a \in Auths : meta[a] \in Snapshot \cup {NoMeta}
      /\ \A a \in Auths : sh.entry[a] \in EntryType
  BY DEF IInv, ShardRight, ShardType, MetaType
<1>2. over \subseteq Auths
  BY <1>1 DEF ShardType
<1>3. \A a \in over : Serves(meta[a], p, m)
  <2>1. \A a \in over : sh.entry[a].state \in Waiting
    BY DEF ShardRight, Indexed
  <2>2. NoEntry.state \notin Waiting
    BY DEF NoEntry, Waiting
  <2>3. QED
    BY <1>2, <2>1, <2>2 DEF ShardRight, HeldRight, EntryHeld
<1>4. /\ entry \in [Auths -> EntryType]
      /\ \A a \in Auths :
           IF Serves(meta[a], p, m) THEN EntryRight(entry[a], meta[a], now) ELSE entry[a] = NoEntry
  <2> SUFFICES ASSUME NEW a \in Auths
               PROVE  /\ entry[a] \in EntryType
                      /\ IF Serves(meta[a], p, m) THEN EntryRight(entry[a], meta[a], now)
                         ELSE entry[a] = NoEntry
    OBVIOUS
  <2>1. CASE a \in over
    <3>1. entry[a] = EntryAt(meta[a], now)
      BY <2>1
    <3>2. QED
      BY <2>1, <3>1, <1>1, <1>3, EntryAtFacts
  <2>2. CASE a \notin over
    <3>1. entry[a] = sh.entry[a]
      BY <2>2
    <3>2. QED
      BY <3>1, <1>1 DEF ShardRight, HeldRight, EntryHeld
  <2>3. QED
    BY <2>1, <2>2
<1>5. \A a \in Auths : Usable(a, p, m) => entry[a].state = "ready"
  <2> SUFFICES ASSUME NEW a \in Auths, Usable(a, p, m) PROVE entry[a].state = "ready"
    OBVIOUS
  <2>1. Serves(meta[a], p, m) /\ ~meta[a].off /\ meta[a].until <= now /\ meta[a].recover <= now
    BY DEF Usable
  <2>2. CASE a \in over
    <3>1. entry[a] = EntryAt(meta[a], now)
      BY <2>2
    <3>2. QED
      BY <3>1, <2>1, <1>1, EntryAtFacts
  <2>3. CASE a \notin over
    <3>1. entry[a] = sh.entry[a] /\ EntryRight(sh.entry[a], meta[a], now)
      BY <2>1, <2>3 DEF ShardRight, HeldRight, EntryHeld
    <3>2. meta[a].until \in Nat /\ meta[a].recover \in Nat
      BY <1>1, NoMetaFacts DEF Snapshot
    <3>3. sh.entry[a].state \notin Waiting
      <4>1. SUFFICES ASSUME sh.entry[a].state \in Waiting PROVE FALSE
        OBVIOUS
      <4>2. sh.entry[a].next # 0 /\ sh.entry[a].next <= now
        <5>1. sh.entry[a].next \in Nat
          BY <1>1 DEF EntryType
        <5>2. QED
          BY <4>1, <3>1, <3>2, <2>1, <1>1, <5>1 DEF EntryRight
      <4>3. a \in sh.blocked
        BY <4>1 DEF ShardRight, Indexed
      <4>4. QED
        BY <4>2, <4>3, <2>3
    <3>4. QED
      BY <3>1, <3>3, <2>1, <1>1 DEF EntryRight, EntryType
  <2>4. QED
    BY <2>2, <2>3
<1>6. CASE over = {}
  <2>1. r = sh
    BY <1>6 DEF Promote
  <2>2. \A a \in Auths : entry[a] = sh.entry[a]
    BY <1>6
  <2>3. QED
    BY <2>1, <2>2, <1>5 DEF Promoted
<1>7. CASE over # {}
  <2>1. r = Reindex(up, meta)
    BY <1>7 DEF Promote
  <2>2. up \in ShardType /\ up.built /\ up.entry = entry
    <3> HIDE DEF entry
    <3>1. QED
      BY <1>1, <1>4 DEF ShardType
  <2>3. r \in ShardType /\ r.built /\ r.entry = entry /\ Indexed(r, meta)
    <3> HIDE DEF up, entry, r
    <3>1. QED
      BY <2>1, <2>2, <1>1, ReindexFacts
  <2>4. HeldRight(r, p, m, meta, now)
    <3> HIDE DEF entry, r
    <3>1. QED
      BY <2>3, <1>4 DEF HeldRight, EntryHeld
  <2>5. QED
    <3> HIDE DEF entry, r
    <3>1. r.built /\ ShardRight(r, p, m, meta, now) /\ Promoted(r, p, m)
      BY <2>3, <2>4, <1>5 DEF ShardRight, Promoted
    <3>2. QED
      BY <3>1 DEF r
<1>8. QED
  BY <1>6, <1>7

\* The shard a request sees is right and has everything usable ready.
LEMMA EnsuredFacts ==
  ASSUME IInv, NEW p \in ProviderSet, NEW m \in Models
  PROVE  ShardRight(Ensured(p, m), p, m, meta, now) /\ Promoted(Ensured(p, m), p, m)
<1>1. /\ now \in Nat /\ meta \in MetaType
      /\ \A a \in Auths : meta[a] \in Snapshot \cup {NoMeta}
      /\ ShardRight(shards[p][m], p, m, meta, now)
  BY DEF IInv, MetaType
<1>2. CASE p \notin known
  <2>1. \A a \in Auths : ~Serves(meta[a], p, m)
    BY <1>2, SchedulerAssumption DEF IInv, Serves
  <2>2. QED
    BY <2>1, <1>1, <1>2 DEF Ensured, Promoted, Usable
<1>3. CASE p \in known /\ shards[p][m].built
  <2>1. Ensured(p, m) = Promote(shards[p][m])
    BY <1>3 DEF Ensured
  <2>2. QED
    BY <2>1, <1>1, <1>3, PromoteFacts
<1>4. CASE p \in known /\ ~shards[p][m].built
  <2> DEFINE entry == [a \in Auths |-> IF Serves(meta[a], p, m) THEN EntryAt(meta[a], now)
                                       ELSE NoEntry]
             new == [Unbuilt EXCEPT !.built = TRUE, !.entry = entry]
             r == Ensured(p, m)
  <2>1. r = Reindex(new, meta)
    BY <1>4 DEF Ensured
  <2>2. NoEntry \in EntryType
    BY DEF NoEntry, EntryType
  <2>3. \A a \in Auths :
          /\ entry[a] \in EntryType
          /\ IF Serves(meta[a], p, m) THEN EntryRight(entry[a], meta[a], now)
             ELSE entry[a] = NoEntry
          /\ Usable(a, p, m) => entry[a].state = "ready"
    BY <1>1, <2>2, EntryAtFacts DEF Usable
  <2>4. new \in ShardType /\ new.built /\ new.entry = entry
    <3>1. entry \in [Auths -> EntryType]
      BY <2>3
    <3>2. Unbuilt \in ShardType
      BY <1>1, UnbuiltRight
    <3> HIDE DEF entry
    <3>3. QED
      BY <3>1, <3>2 DEF ShardType
  <2> HIDE DEF new, entry, r
  <2>5. r \in ShardType /\ r.built /\ r.entry = entry /\ Indexed(r, meta)
    BY <2>1, <2>4, <1>1, ReindexFacts
  <2>6. HeldRight(r, p, m, meta, now) /\ Promoted(r, p, m)
    BY <2>3, <2>5 DEF HeldRight, EntryHeld, Promoted
  <2>7. QED
    BY <2>5, <2>6 DEF ShardRight, r
<1>5. QED
  BY <1>2, <1>3, <1>4

(***************************************************************************)
(* Upserts.                                                                *)
(***************************************************************************)

\* Indexes stay exact when the one snapshot that changes is of a credential
\* that is not ready, or changes in nothing the indexes depend on.
LEMMA SameIndexes ==
  ASSUME NEW sh \in ShardType, NEW md \in MetaType, NEW new \in MetaType, NEW a \in Auths,
         Indexed(sh, md),
         \A b \in Auths \ {a} : new[b] = md[b],
         sh.entry[a].state = "ready" => new[a].priority = md[a].priority /\ new[a].ws = md[a].ws
  PROVE  Indexed(sh, new)
<1>1. \A pr : ReadyAt(sh, new, pr) = ReadyAt(sh, md, pr)
  BY DEF ReadyAt
<1>2. \A pr : {b \in ReadyAt(sh, new, pr) : new[b].ws} = {b \in ReadyAt(sh, md, pr) : md[b].ws}
  BY <1>1 DEF ReadyAt
<1>3. QED
  BY <1>1, <1>2 DEF Indexed

\* Changing one entry and rebuilding gives a right shard if the entry is right.
LEMMA ReindexRight ==
  ASSUME NEW p, NEW m, NEW t, NEW sh \in ShardType, NEW md \in MetaType, NEW new \in MetaType,
         NEW a \in Auths, NEW e \in EntryType,
         HeldRight(sh, p, m, md, t),
         \A b \in Auths \ {a} : new[b] = md[b],
         EntryHeld(e, sh.built, new[a], p, m, t),
         NEW up, up = [sh EXCEPT !.entry[a] = e]
  PROVE  ShardRight(Reindex(up, new), p, m, new, t)
<1> DEFINE r == Reindex(up, new)
<1>1. up \in ShardType /\ up.built = sh.built /\ up.entry = [sh.entry EXCEPT ![a] = e]
  BY DEF ShardType
<1>2. r \in ShardType /\ r.built = sh.built /\ r.entry = up.entry /\ Indexed(r, new)
  BY <1>1, ReindexFacts
<1>3. \A b \in Auths : r.entry[b] = IF b = a THEN e ELSE sh.entry[b]
  <2> HIDE DEF r
  <2>1. QED
    BY <1>1, <1>2 DEF ShardType
<1>4. HeldRight(r, p, m, new, t)
  <2> HIDE DEF r
  <2>1. QED
    BY <1>2, <1>3 DEF HeldRight, EntryHeld
<1>5. QED
  BY <1>2, <1>4 DEF ShardRight

LEMMA UpdatedShardFacts ==
  ASSUME IInv, NEW a \in Auths, NEW s \in Snapshot, NEW p \in ProviderSet, NEW m \in Models,
         NEW md, md = [meta EXCEPT ![a] = IF s.disabled THEN NoMeta ELSE s]
  PROVE  md \in MetaType /\ ShardRight(UpdatedShard(a, s, md, p, m), p, m, md, now)
<1> DEFINE sh == shards[p][m]
           r == UpdatedShard(a, s, md, p, m)
<1>1. /\ now \in Nat /\ meta \in MetaType /\ ShardRight(sh, p, m, meta, now)
      /\ sh \in ShardType /\ Indexed(sh, meta) /\ HeldRight(sh, p, m, meta, now)
  BY DEF IInv, ShardRight
<1>2. /\ md \in MetaType
      /\ md[a] = IF s.disabled THEN NoMeta ELSE s
      /\ \A b \in Auths \ {a} : md[b] = meta[b]
  BY <1>1 DEF MetaType
<1>3. NoEntry \in EntryType /\ NoEntry.state = "none"
  BY DEF NoEntry, EntryType
<1>4. \A b \in Auths : sh.entry[b] \in EntryType
  BY <1>1 DEF ShardType
<1> HIDE DEF sh
<1>a. ASSUME NEW e \in EntryType,
             EntryHeld(e, sh.built, md[a], p, m, now),
             NEW up, up = [sh EXCEPT !.entry[a] = e]
      PROVE  ShardRight(Reindex(up, md), p, m, md, now)
  <2> HIDE DEF r
  <2>1. QED
    BY <1>1, <1>2, <1>a, ReindexRight
<1>5. CASE s.disabled \/ ~Serves(s, p, m)
  <2>1. ~Serves(md[a], p, m)
    BY <1>2, <1>5, NoMetaFacts
  <2>2. r = RemoveEntry(sh, a, md)
    BY <1>5 DEF UpdatedShard, sh
  <2>3. CASE sh.entry[a] = NoEntry
    <3>1. r = sh
      BY <2>2, <2>3 DEF RemoveEntry
    <3>2. Indexed(sh, md)
      BY <1>1, <1>2, <1>3, <2>3, SameIndexes
    <3>3. HeldRight(sh, p, m, md, now)
      BY <1>1, <1>2, <2>1, <2>3 DEF HeldRight, EntryHeld
    <3>4. QED
      BY <3>1, <3>2, <3>3, <1>1, <1>2 DEF ShardRight
  <2>4. CASE sh.entry[a] # NoEntry
    <3>1. r = Reindex([sh EXCEPT !.entry[a] = NoEntry], md)
      BY <2>2, <2>4 DEF RemoveEntry
    <3>2. QED
      <4>1. EntryHeld(NoEntry, sh.built, md[a], p, m, now)
        BY <2>1 DEF EntryHeld
      <4>2. ShardRight(Reindex([sh EXCEPT !.entry[a] = NoEntry], md), p, m, md, now)
        BY <1>a, <1>3, <4>1
      <4>3. QED
        BY <3>1, <4>2, <1>2
  <2>5. QED
    BY <2>3, <2>4
<1>6. CASE ~s.disabled /\ Serves(s, p, m) /\ sh.built
  <2> DEFINE e == EntryAt(md[a], now)
             up == [sh EXCEPT !.entry[a] = e]
  <2>1. r = UpsertEntry(sh, a, md)
    BY <1>6 DEF UpdatedShard, sh
  <2>2. md[a] = s /\ e \in EntryType /\ EntryRight(e, md[a], now)
    BY <1>1, <1>2, <1>6, EntryAtFacts
  <2> HIDE DEF e
  <2>3. CASE sh.entry[a] = e /\ meta[a].priority = md[a].priority /\ meta[a].ws = md[a].ws
    <3>1. r = up
      BY <2>1, <2>3 DEF UpsertEntry, e
    <3>2. up = sh
      BY <2>3, <1>1 DEF ShardType
    <3>3. Indexed(sh, md)
      BY <1>1, <1>2, <2>3, SameIndexes
    <3>4. HeldRight(sh, p, m, md, now)
      BY <1>1, <1>2, <1>6, <2>2, <2>3 DEF HeldRight, EntryHeld
    <3>5. QED
      <4> HIDE DEF r, up
      <4>1. ShardRight(r, p, m, md, now)
        BY <3>1, <3>2, <3>3, <3>4, <1>1 DEF ShardRight
      <4>2. QED
        BY <4>1, <1>2 DEF r
  <2>4. CASE ~(sh.entry[a] = e /\ meta[a].priority = md[a].priority /\ meta[a].ws = md[a].ws)
    <3>1. r = Reindex([sh EXCEPT !.entry[a] = e], md)
      BY <2>1, <2>4 DEF UpsertEntry, e
    <3>2. e \in EntryType
      BY <2>2
    <3>3. QED
      <4>1. EntryHeld(e, sh.built, md[a], p, m, now)
        BY <1>6, <2>2 DEF EntryHeld
      <4>2. ShardRight(Reindex([sh EXCEPT !.entry[a] = e], md), p, m, md, now)
        BY <1>a, <3>2, <4>1
      <4>3. QED
        BY <3>1, <4>2, <1>2
  <2>5. QED
    BY <2>3, <2>4
<1>7. CASE ~s.disabled /\ Serves(s, p, m) /\ ~sh.built
  <2>1. r = sh
    BY <1>7 DEF UpdatedShard, sh
  <2>2. \A b \in Auths : sh.entry[b] = NoEntry
    BY <1>1, <1>7 DEF HeldRight, EntryHeld
  <2>3. Indexed(sh, md)
    BY <1>1, <1>2, <1>3, <2>2, SameIndexes
  <2>4. HeldRight(sh, p, m, md, now)
    BY <1>7, <2>2 DEF HeldRight, EntryHeld
  <2>5. QED
    BY <2>1, <2>3, <2>4, <1>1, <1>2 DEF ShardRight
<1>8. QED
  BY <1>5, <1>6, <1>7

(***************************************************************************)
(* Picks.                                                                  *)
(***************************************************************************)

\* A pick moves at most a cursor.
LEMMA PickAtKeeps ==
  ASSUME NEW p, NEW m, NEW md, NEW t, NEW sh, ShardRight(sh, p, m, md, t),
         NEW pr, NEW pref, NEW ok, NEW how
  PROVE  ShardRight(PickAt(sh, pr, pref, ok, how).shard, p, m, md, t)
<1> DEFINE k == ViewKind(sh, pr, pref, ok)
           v == sh.view[pr][k]
           a == IF how = "fillFirst" THEN Min(v.auths \cap ok) ELSE NextInTurn(v, ok)
           c == Rank(v.auths, a) + 1
           r == PickAt(sh, pr, pref, ok, how).shard
<1>1. CASE how = "fillFirst"
  <2>1. r = sh
    BY <1>1 DEF PickAt, Missed
  <2>2. QED
    BY <2>1
<1>2. CASE how # "fillFirst"
  <2>1. r = [sh EXCEPT !.view[pr][k].cursor = c]
    BY <1>2 DEF PickAt
  <2>2. sh \in ShardType /\ k \in Kinds
    BY DEF ShardRight, ViewKind, Kinds
  <2> HIDE DEF k
  <2>3. CASE pr \in Priorities
    <3>1. v \in ViewType /\ IsFiniteSet(v.auths)
      <4>1. v \in ViewType
        BY <2>2, <2>3 DEF ShardType
      <4>2. v.auths \in SUBSET Auths
        BY <4>1 DEF ViewType
      <4>3. QED
        BY <4>1, <4>2, FS_Subset, SchedulerAssumption
    <3>2. c \in Nat
      <4> HIDE DEF v, a
      <4>1. {b \in v.auths : b < a} \in SUBSET v.auths
        OBVIOUS
      <4>2. IsFiniteSet({b \in v.auths : b < a})
        BY <3>1, <4>1, FS_Subset
      <4>3. QED
        BY <4>2, FS_CardinalityType DEF Rank
    <3> HIDE DEF c, a
    <3>3. r = [sh EXCEPT !.view = [sh.view EXCEPT ![pr] =
                [sh.view[pr] EXCEPT ![k] = [v EXCEPT !.cursor = c]]]]
      BY <2>1
    <3> DEFINE w == [v EXCEPT !.cursor = c]
               view == [sh.view EXCEPT ![pr] = [sh.view[pr] EXCEPT ![k] = w]]
    <3>4. w \in ViewType /\ w.auths = v.auths
      BY <3>1, <3>2 DEF ViewType
    <3>5. /\ view \in [Priorities -> [Kinds -> ViewType]]
          /\ \A q \in Priorities, l \in Kinds : view[q][l].auths = sh.view[q][l].auths
      <4> HIDE DEF w
      <4>1. QED
        BY <3>4, <2>2, <2>3 DEF ShardType
    <3> HIDE DEF r, view
    <3>6. /\ r \in ShardType /\ r.built = sh.built /\ r.entry = sh.entry
          /\ r.blocked = sh.blocked /\ r.view = view
      BY <3>3, <3>5, <2>2 DEF ShardType, view
    <3>7. \A q : ReadyAt(r, md, q) = ReadyAt(sh, md, q)
      BY <3>6 DEF ReadyAt
    <3>8. Indexed(r, md)
      BY <3>5, <3>6, <3>7 DEF Indexed, ShardRight, Kinds
    <3>9. HeldRight(r, p, m, md, t)
      BY <3>6 DEF HeldRight, EntryHeld, ShardRight
    <3>10. QED
      BY <3>6, <3>8, <3>9 DEF ShardRight, r
  <2>4. CASE pr \notin Priorities
    <3>1. r = sh
      BY <2>1, <2>2, <2>4 DEF ShardType
    <3>2. QED
      BY <3>1
  <2>5. QED
    BY <2>3, <2>4
<1>3. QED
  BY <1>1, <1>2

\* The next in turn of a view with a candidate is a candidate.
LEMMA NextInTurnFacts ==
  ASSUME NEW view \in ViewType, NEW ok, view.auths \cap ok # {}
  PROVE  NextInTurn(view, ok) \in view.auths \cap ok
<1> DEFINE n == Cardinality(view.auths)
           dist(a) == (Rank(view.auths, a) + n - (view.cursor % n)) % n
           S == view.auths \cap ok
           f == [a \in S |-> dist(a)]
<1>1. view.auths \in SUBSET Auths /\ view.cursor \in Nat
  BY DEF ViewType
<1>2. IsFiniteSet(view.auths)
  BY <1>1, FS_Subset, SchedulerAssumption
<1>3. n \in Nat /\ n # 0
  BY <1>2, FS_CardinalityType, FS_EmptySet
<1>4. ASSUME NEW a \in S PROVE dist(a) \in Nat
  <2>1. {b \in view.auths : b < a} \in SUBSET view.auths
    OBVIOUS
  <2>2. Rank(view.auths, a) \in Nat
    BY <1>2, <2>1, FS_Subset, FS_CardinalityType DEF Rank
  <2> HIDE DEF n
  <2>3. view.cursor % n \in Nat
    BY <1>1, <1>3
  <2>4. QED
    BY <1>3, <2>2, <2>3
<1> HIDE DEF dist, S
<1>5. f \in [S -> Nat]
  BY <1>4
<1>6. PICK a \in S : \A b \in S : f[a] <= f[b]
  <2> HIDE DEF f
  <2>1. QED
    BY <1>5, LeastValue DEF S
<1>7. \E x \in S : \A b \in S : dist(x) <= dist(b)
  BY <1>6
<1>8. NextInTurn(view, ok) = CHOOSE x \in S : \A b \in S : dist(x) <= dist(b)
  BY DEF NextInTurn, S, dist
<1>9. QED
  <2> DEFINE c == CHOOSE x \in S : \A b \in S : dist(x) <= dist(b)
  <2>1. c \in S
    BY <1>7
  <2>2. QED
    BY <2>1, <1>8 DEF S

\* What a pick from a right shard picks, in terms of the entries.
ReadyIn(sh, ok) == {a \in ok : sh.entry[a].state = "ready"}
WsReadyIn(sh, md, ok) == {a \in ReadyIn(sh, ok) : md[a].ws}

LEMMA PrioritiesWithFacts ==
  ASSUME NEW sh \in ShardType, NEW md, Indexed(sh, md), NEW ok \in SUBSET Auths
  PROVE  /\ PrioritiesWith(sh, "all", ok)
              = {pr \in Priorities : \E a \in ReadyIn(sh, ok) : md[a].priority = pr}
         /\ PrioritiesWith(sh, "ws", ok)
              = {pr \in Priorities : \E a \in WsReadyIn(sh, md, ok) : md[a].priority = pr}
<1>1. \A pr \in Priorities :
        /\ sh.view[pr]["all"].auths \cap ok = {a \in ReadyIn(sh, ok) : md[a].priority = pr}
        /\ sh.view[pr]["ws"].auths \cap ok = {a \in WsReadyIn(sh, md, ok) : md[a].priority = pr}
  BY DEF Indexed, ReadyAt, ReadyIn, WsReadyIn
<1>2. QED
  BY <1>1 DEF PrioritiesWith

LEMMA HighestReadyFacts ==
  ASSUME NEW sh \in ShardType, NEW pref \in BOOLEAN, NEW ok
  PROVE  LET ws  == PrioritiesWith(sh, "ws", ok)
             all == PrioritiesWith(sh, "all", ok)
             h   == HighestReady(sh, pref, ok)
         IN  /\ pref /\ ws # {} =>
                  h # {} /\ Max(h) \in ws /\ \A q \in ws : Max(h) >= q
             /\ ~(pref /\ ws # {}) /\ all # {} =>
                  h # {} /\ Max(h) \in all /\ \A q \in all : Max(h) >= q
             /\ ~(pref /\ ws # {}) /\ all = {} => h = {}
<1> DEFINE ws  == PrioritiesWith(sh, "ws", ok)
           all == PrioritiesWith(sh, "all", ok)
           h   == HighestReady(sh, pref, ok)
<1>1. ASSUME NEW Q, Q = ws \/ Q = all, Q # {}
      PROVE  Max(Q) \in Q /\ (\A q \in Q : Max(Q) >= q) /\ Max({Max(Q)}) = Max(Q)
  <2>1. Q \in SUBSET Priorities
    BY <1>1 DEF PrioritiesWith
  <2>2. IsFiniteSet(Q) /\ Q \in SUBSET Int
    BY <2>1, FS_Subset, SchedulerAssumption
  <2>3. Max(Q) \in Q /\ \A q \in Q : Max(Q) >= q
    BY <2>2, <1>1, MaxOfIntegers
  <2>4. {Max(Q)} \in SUBSET Int /\ IsFiniteSet({Max(Q)}) /\ {Max(Q)} # {}
    BY <2>2, <2>3, FS_Singleton
  <2>5. Max({Max(Q)}) \in {Max(Q)}
    BY <2>4, MaxOfIntegers
  <2>6. QED
    BY <2>3, <2>5
<1> HIDE DEF ws, all
<1>2. h = IF pref /\ ws # {} THEN {Max(ws)} ELSE IF all # {} THEN {Max(all)} ELSE {}
  BY DEF HighestReady, ws, all
<1> HIDE DEF h
<1>3. CASE pref /\ ws # {}
  <2>1. h = {Max(ws)}
    BY <1>2, <1>3
  <2>2. QED
    BY <2>1, <1>1, <1>3 DEF ws, all, h
<1>4. CASE ~(pref /\ ws # {}) /\ all # {}
  <2>1. h = {Max(all)}
    BY <1>2, <1>4
  <2>2. QED
    BY <2>1, <1>1, <1>4 DEF ws, all, h
<1>5. CASE ~(pref /\ ws # {}) /\ all = {}
  BY <1>2, <1>5 DEF ws, all, h
<1>6. QED
  BY <1>3, <1>4, <1>5

LEMMA PickAtFacts ==
  ASSUME NEW sh \in ShardType, NEW pr \in Priorities, NEW pref \in BOOLEAN,
         NEW ok \in SUBSET Auths, NEW how \in Strategies,
         sh.view[pr][ViewKind(sh, pr, pref, ok)].auths \cap ok # {}
  PROVE  PickAt(sh, pr, pref, ok, how).auth
           \in sh.view[pr][ViewKind(sh, pr, pref, ok)].auths \cap ok
<1> DEFINE k == ViewKind(sh, pr, pref, ok)
           v == sh.view[pr][k]
<1>1. k \in Kinds
  BY DEF ViewKind, Kinds
<1> HIDE DEF k
<1>2. v \in ViewType
  BY <1>1 DEF ShardType
<1> HIDE DEF v
<1>3. CASE how = "fillFirst"
  <2>1. PickAt(sh, pr, pref, ok, how).auth = Min(v.auths \cap ok)
    BY <1>3 DEF PickAt, Missed, v, k
  <2>2. v.auths \cap ok \in SUBSET Nat /\ v.auths \cap ok # {}
    BY <1>2, SchedulerAssumption DEF ViewType, v, k
  <2>3. QED
    BY <2>1, <2>2, MinOfNaturals DEF v, k
<1>4. CASE how # "fillFirst"
  <2>1. PickAt(sh, pr, pref, ok, how).auth = NextInTurn(v, ok)
    BY <1>4 DEF PickAt, v, k
  <2>2. v.auths \cap ok # {}
    BY DEF v, k
  <2>3. QED
    BY <2>1, <2>2, <1>2, NextInTurnFacts DEF v, k
<1>5. QED
  BY <1>3, <1>4

\* A pick misses only when nobody is ready, prefers websockets where it should
\* and otherwise takes one of the highest priority.
LEMMA PickFromFacts ==
  ASSUME NEW sh \in ShardType, NEW md, Indexed(sh, md), NEW pref \in BOOLEAN,
         NEW ok \in SUBSET Auths, NEW how \in Strategies,
         \A a \in ReadyIn(sh, ok) : md[a].priority \in Priorities
  PROVE  LET a == PickFrom(sh, pref, ok, how).auth
         IN  /\ ReadyIn(sh, ok) = {} => a = Nobody
             /\ ReadyIn(sh, ok) # {} => a \in ReadyIn(sh, ok)
             /\ pref /\ WsReadyIn(sh, md, ok) # {} =>
                  /\ md[a].ws
                  /\ \A b \in WsReadyIn(sh, md, ok) : md[a].priority >= md[b].priority
             /\ ~(pref /\ WsReadyIn(sh, md, ok) # {}) =>
                  \A b \in ReadyIn(sh, ok) : md[a].priority >= md[b].priority
<1> DEFINE a == PickFrom(sh, pref, ok, how).auth
           h == HighestReady(sh, pref, ok)
           ws  == PrioritiesWith(sh, "ws", ok)
           all == PrioritiesWith(sh, "all", ok)
           R == ReadyIn(sh, ok)
           W == WsReadyIn(sh, md, ok)
<1>1. /\ all = {pr \in Priorities : \E b \in R : md[b].priority = pr}
      /\ ws = {pr \in Priorities : \E b \in W : md[b].priority = pr}
  BY PrioritiesWithFacts
<1>2. W \subseteq R /\ R \subseteq ok
  BY DEF WsReadyIn, ReadyIn
<1>3. /\ R = {} <=> all = {}
      /\ W = {} <=> ws = {}
  <2> HIDE DEF R, W, all, ws
  <2>1. QED
    BY <1>1, <1>2 DEF R
<1>4. /\ pref /\ ws # {} => h # {} /\ Max(h) \in ws /\ \A q \in ws : Max(h) >= q
      /\ ~(pref /\ ws # {}) /\ all # {} => h # {} /\ Max(h) \in all /\ \A q \in all : Max(h) >= q
      /\ ~(pref /\ ws # {}) /\ all = {} => h = {}
  BY HighestReadyFacts
<1>5. h # {} => a = PickAt(sh, Max(h), pref, ok, how).auth
  BY DEF PickFrom
<1>6. CASE pref /\ W # {}
  <2> DEFINE pr == Max(h)
  <2>1. pr \in ws /\ (\A q \in ws : pr >= q) /\ h # {}
    BY <1>3, <1>4, <1>6
  <2>2. pr \in Priorities /\ sh.view[pr]["ws"].auths \cap ok # {}
    BY <2>1 DEF PrioritiesWith
  <2> HIDE DEF pr
  <2>3. ViewKind(sh, pr, pref, ok) = "ws"
    BY <2>2, <1>6 DEF ViewKind
  <2>4. PickAt(sh, pr, pref, ok, how).auth \in sh.view[pr]["ws"].auths \cap ok
    BY <2>2, <2>3, PickAtFacts
  <2>5. a \in sh.view[pr]["ws"].auths \cap ok
    BY <2>1, <2>4, <1>5 DEF pr
  <2> HIDE DEF a
  <2>6. a \in W /\ md[a].priority = pr
    BY <2>2, <2>5 DEF Indexed, ReadyAt, WsReadyIn, ReadyIn
  <2>7. \A b \in W : md[b].priority \in ws
    <3> HIDE DEF W, R, ws
    <3>1. QED
      BY <1>1, <1>2 DEF R
  <2>8. /\ R # {} /\ a \in R /\ md[a].ws
        /\ \A b \in W : md[a].priority >= md[b].priority
    BY <2>1, <2>6, <2>7, <1>2 DEF WsReadyIn
  <2>9. QED
    BY <2>8, <1>6 DEF a
<1>7. CASE ~(pref /\ W # {}) /\ R # {}
  <2> DEFINE pr == Max(h)
  <2>1. pr \in all /\ (\A q \in all : pr >= q) /\ h # {}
    BY <1>3, <1>4, <1>7
  <2>2. pr \in Priorities /\ sh.view[pr]["all"].auths \cap ok # {}
    BY <2>1 DEF PrioritiesWith
  <2> HIDE DEF pr
  <2>3. ViewKind(sh, pr, pref, ok) = "all"
    <3>1. ~(pref /\ sh.view[pr]["ws"].auths \cap ok # {})
      BY <1>3, <1>7, <2>2 DEF PrioritiesWith
    <3>2. QED
      BY <3>1 DEF ViewKind
  <2>4. PickAt(sh, pr, pref, ok, how).auth \in sh.view[pr]["all"].auths \cap ok
    BY <2>2, <2>3, PickAtFacts
  <2>5. a \in sh.view[pr]["all"].auths \cap ok
    BY <2>1, <2>4, <1>5 DEF pr
  <2> HIDE DEF a
  <2>6. a \in R /\ md[a].priority = pr
    BY <2>2, <2>5 DEF Indexed, ReadyAt, ReadyIn
  <2>7. \A b \in R : md[b].priority \in all
    <3> HIDE DEF W, R, all
    <3>1. QED
      BY <1>1 DEF R
  <2>8. \A b \in R : md[a].priority >= md[b].priority
    BY <2>1, <2>6, <2>7
  <2>9. QED
    BY <2>6, <2>8, <1>7 DEF a
<1>8. CASE R = {}
  <2>1. h = {} /\ W = {}
    BY <1>2, <1>3, <1>4, <1>8
  <2>2. a = Nobody
    BY <2>1 DEF PickFrom, Missed
  <2>3. QED
    BY <2>1, <2>2, <1>8
<1>9. QED
  BY <1>6, <1>7, <1>8

(***************************************************************************)
(* The invariant.                                                          *)
(***************************************************************************)
LEMMA InitIInv == Init => IInv
<1> SUFFICES ASSUME Init PROVE IInv
  OBVIOUS
<1>1. now = 0 /\ known = {} /\ meta = [a \in Auths |-> NoMeta]
      /\ shards = [p \in ProviderSet |-> [m \in Models |-> Unbuilt]]
  BY DEF Init
<1>2. meta \in MetaType /\ \A a \in Auths : meta[a].provider = NoProvider
  BY <1>1, NoMetaFacts DEF MetaType
<1>3. /\ Unbuilt \in ShardType
      /\ \A p \in ProviderSet, m \in Models : ShardRight(Unbuilt, p, m, meta, now)
  BY <1>2, UnbuiltRight
<1>4. QED
  BY <1>1, <1>2, <1>3 DEF IInv

LEMMA UpsertIInv ==
  ASSUME IInv, NEW a \in Auths, NEW s \in Snapshots[a], Upsert(a, s)
  PROVE  IInv'
<1> DEFINE md == [meta EXCEPT ![a] = IF s.disabled THEN NoMeta ELSE s]
<1>1. /\ meta' = md
      /\ shards' = [p \in ProviderSet |-> [m \in Models |-> UpdatedShard(a, s, md, p, m)]]
      /\ known' = IF s.disabled THEN known ELSE known \cup {s.provider}
      /\ now' = now
  BY DEF Upsert
<1>2. s \in Snapshot /\ s.provider \in ProviderSet
  BY SchedulerAssumption DEF Snapshot
<1>3. \A p \in ProviderSet, m \in Models :
        md \in MetaType /\ ShardRight(UpdatedShard(a, s, md, p, m), p, m, md, now)
  <2> HIDE DEF md
  <2>1. QED
    BY <1>2, UpdatedShardFacts DEF md
<1>4. meta \in MetaType /\ known \subseteq ProviderSet /\ now \in Nat
      /\ \A b \in Auths : meta[b].provider \in known \cup {NoProvider}
  BY DEF IInv
<1>5. md \in MetaType /\ \A b \in Auths : md[b].provider \in known' \cup {NoProvider}
  <2>1. \A b \in Auths : md[b] = IF b = a THEN (IF s.disabled THEN NoMeta ELSE s) ELSE meta[b]
    BY <1>4 DEF MetaType
  <2>2. md \in MetaType
    BY <1>2, <1>4 DEF MetaType
  <2>3. QED
    <3> HIDE DEF md
    <3>1. QED
      BY <2>1, <2>2, <1>1, <1>4, NoMetaFacts
<1>6. known' \subseteq ProviderSet
  BY <1>1, <1>2, <1>4
<1> HIDE DEF md
<1>7. \A p \in ProviderSet, m \in Models : shards'[p][m] = UpdatedShard(a, s, md, p, m)
  BY <1>1
<1>8. \A p \in ProviderSet, m \in Models : ShardRight(shards'[p][m], p, m, md, now)
  BY <1>3, <1>7
<1>9. shards' \in [ProviderSet -> [Models -> ShardType]]
  BY <1>1, <1>3 DEF ShardRight
<1>10. QED
  BY <1>1, <1>4, <1>5, <1>6, <1>8, <1>9 DEF IInv

LEMMA RebuildIInv == IInv /\ Rebuild => IInv'
<1> SUFFICES ASSUME IInv, Rebuild PROVE IInv'
  OBVIOUS
<1>1. /\ shards' = [p \in ProviderSet |-> [m \in Models |-> Unbuilt]]
      /\ known' = {meta[a].provider : a \in Auths} \ {NoProvider}
      /\ meta' = meta /\ now' = now
  BY DEF Rebuild
<1>2. meta \in MetaType /\ now \in Nat /\ known \subseteq ProviderSet
      /\ \A a \in Auths : meta[a].provider \in known \cup {NoProvider}
  BY DEF IInv
<1>3. /\ Unbuilt \in ShardType
      /\ \A p \in ProviderSet, m \in Models : ShardRight(Unbuilt, p, m, meta, now)
  BY <1>2, UnbuiltRight
<1>4. QED
  BY <1>1, <1>2, <1>3 DEF IInv

\* Replacing shards by right ones, all else unchanged.
LEMMA ShardsIInv ==
  ASSUME IInv, meta' = meta, now' = now, known' = known,
         shards' \in [ProviderSet -> [Models -> ShardType]],
         \A p \in ProviderSet, m \in Models : ShardRight(shards'[p][m], p, m, meta, now)
  PROVE  IInv'
BY DEF IInv

LEMMA PickSingleIInv ==
  ASSUME IInv, NEW p \in ProviderSet, NEW m \in Models, NEW pref, NEW ok, NEW how,
         PickSingle(p, m, pref, ok, how)
  PROVE  IInv'
<1> DEFINE r == PickFrom(Ensured(p, m), pref, ok, how)
<1>1. /\ shards' = [shards EXCEPT ![p][m] = r.shard]
      /\ meta' = meta /\ now' = now /\ known' = known
  BY DEF PickSingle
<1>2. ShardRight(Ensured(p, m), p, m, meta, now)
  BY EnsuredFacts
<1>3. ShardRight(r.shard, p, m, meta, now)
  <2>1. r = Missed(Ensured(p, m)) \/
        \E pr : r = PickAt(Ensured(p, m), pr, pref, ok, how)
    BY DEF PickFrom
  <2>2. Missed(Ensured(p, m)).shard = Ensured(p, m)
    BY DEF Missed
  <2> HIDE DEF r
  <2>3. QED
    BY <2>1, <2>2, <1>2, PickAtKeeps
<1> HIDE DEF r
<1>4. r.shard \in ShardType
  BY <1>3 DEF ShardRight
<1>5. shards \in [ProviderSet -> [Models -> ShardType]]
      /\ \A q \in ProviderSet, l \in Models : ShardRight(shards[q][l], q, l, meta, now)
  BY DEF IInv
<1>6. \A q \in ProviderSet, l \in Models :
        shards'[q][l] = IF q = p /\ l = m THEN r.shard ELSE shards[q][l]
  BY <1>1, <1>5
<1>7. shards' \in [ProviderSet -> [Models -> ShardType]]
  BY <1>1, <1>4, <1>5
<1>8. \A q \in ProviderSet, l \in Models : ShardRight(shards'[q][l], q, l, meta, now)
  BY <1>3, <1>5, <1>6
<1>9. QED
  BY <1>1, <1>7, <1>8, ShardsIInv

LEMMA PickMixedIInv ==
  ASSUME IInv, NEW m \in Models, NEW pref, NEW ok, NEW how, PickMixed(m, pref, ok, how)
  PROVE  IInv'
<1> DEFINE en == EnsuredAll(m)
           r == MixedPick(m, en, pref, ok, how)
<1>1. /\ shards' = [p \in ProviderSet |-> [shards[p] EXCEPT ![m] = r.shards[p]]]
      /\ meta' = meta /\ now' = now /\ known' = known
  BY DEF PickMixed
<1>2. \A p \in ProviderSet : ShardRight(en[p], p, m, meta, now)
  BY EnsuredFacts DEF EnsuredAll
<1>3. r.shards = en \/
      \E p, pr, pf : r.shards = [en EXCEPT ![p] = PickAt(en[p], pr, pf, ok, how).shard]
  <2> HIDE DEF en
  <2>1. QED
    BY DEF MixedPick
<1>4. en = [p \in ProviderSet |-> en[p]]
  BY DEF EnsuredAll
<1> HIDE DEF en, r
<1>5. \A p \in ProviderSet : ShardRight(r.shards[p], p, m, meta, now)
  <2>1. CASE r.shards = en
    BY <2>1, <1>2
  <2>2. CASE \E p, pr, pf : r.shards = [en EXCEPT ![p] = PickAt(en[p], pr, pf, ok, how).shard]
    <3>1. PICK p, pr, pf : r.shards = [en EXCEPT ![p] = PickAt(en[p], pr, pf, ok, how).shard]
      BY <2>2
    <3>2. \A q \in ProviderSet :
            r.shards[q] = IF q = p THEN PickAt(en[q], pr, pf, ok, how).shard ELSE en[q]
      BY <3>1, <1>4
    <3>3. \A q \in ProviderSet : ShardRight(PickAt(en[q], pr, pf, ok, how).shard, q, m, meta, now)
      BY <1>2, PickAtKeeps
    <3>4. QED
      BY <3>2, <3>3, <1>2
  <2>3. QED
    BY <1>3, <2>1, <2>2
<1>6. \A p \in ProviderSet : r.shards[p] \in ShardType
  BY <1>5 DEF ShardRight
<1>7. shards \in [ProviderSet -> [Models -> ShardType]]
      /\ \A q \in ProviderSet, l \in Models : ShardRight(shards[q][l], q, l, meta, now)
  BY DEF IInv
<1>8. \A q \in ProviderSet, l \in Models :
        shards'[q][l] = IF l = m THEN r.shards[q] ELSE shards[q][l]
  BY <1>1, <1>7
<1>9. shards' \in [ProviderSet -> [Models -> ShardType]]
  BY <1>1, <1>6, <1>7
<1>10. \A q \in ProviderSet, l \in Models : ShardRight(shards'[q][l], q, l, meta, now)
  BY <1>5, <1>7, <1>8
<1>11. QED
  BY <1>1, <1>9, <1>10, ShardsIInv

LEMMA TickIInv == IInv /\ Tick => IInv'
<1> SUFFICES ASSUME IInv, Tick PROVE IInv'
  OBVIOUS
<1>1. now' = now + 1 /\ meta' = meta /\ shards' = shards /\ known' = known
  BY DEF Tick
<1>2. now \in Nat /\ meta \in MetaType /\ \A a \in Auths : meta[a] \in Snapshot \cup {NoMeta}
  BY DEF IInv, MetaType
<1>3. ASSUME NEW p \in ProviderSet, NEW m \in Models
      PROVE  ShardRight(shards[p][m], p, m, meta, now + 1)
  <2> DEFINE sh == shards[p][m]
  <2>1. ShardRight(sh, p, m, meta, now)
    BY DEF IInv
  <2> HIDE DEF sh
  <2>2. \A a \in Auths : sh.entry[a] \in EntryType
    BY <2>1 DEF ShardRight, ShardType
  <2>3. HeldRight(sh, p, m, meta, now + 1)
    BY <2>1, <2>2, <1>2, EntryRightLater DEF ShardRight, HeldRight, EntryHeld
  <2>4. QED
    BY <2>1, <2>3 DEF ShardRight, sh
<1>4. now + 1 \in Nat
  BY <1>2
<1>5. QED
  BY <1>1, <1>3, <1>4 DEF IInv

LEMMA NextIInv == IInv /\ [Next]_vars => IInv'
<1> SUFFICES ASSUME IInv, [Next]_vars PROVE IInv'
  OBVIOUS
<1>1. ASSUME NEW a \in Auths, NEW s \in Snapshots[a], Upsert(a, s) PROVE IInv'
  BY <1>1, UpsertIInv
<1>2. CASE Rebuild
  BY <1>2, RebuildIInv
<1>3. CASE SetSelector
  BY <1>3, ShardsIInv DEF SetSelector, IInv
<1>4. ASSUME NEW m \in Models, NEW ok \in SUBSET Auths, NEW how \in Strategies,
             NEW p \in ProviderSet, NEW pref \in Preferences(p), PickSingle(p, m, pref, ok, how)
      PROVE  IInv'
  BY <1>4, PickSingleIInv
<1>5. ASSUME NEW m \in Models, NEW ok \in SUBSET Auths, NEW how \in Strategies,
             NEW pref \in BOOLEAN, PickMixed(m, pref, ok, how)
      PROVE  IInv'
  BY <1>5, PickMixedIInv
<1>6. CASE Tick
  BY <1>6, TickIInv
<1>7. CASE UNCHANGED vars
  BY <1>7 DEF vars, IInv, ShardRight, Indexed, ReadyAt, HeldRight, EntryHeld
<1>8. QED
  BY <1>1, <1>2, <1>3, <1>4, <1>5, <1>6, <1>7 DEF Next

\* The shards are always right: what the other theorems follow from.
THEOREM ShardsRight == Spec => []IInv
<1>1. QED
  BY InitIInv, NextIInv, PTL DEF Spec

(***************************************************************************)
(* The properties.                                                         *)
(***************************************************************************)

\* The views and the blocked queue of every shard are always those a rebuild
\* would make, however upsertEntryLocked skips rebuilds.
THEOREM IndexesExact == Spec => []IndexesMatchEntries
<1>1. IInv => IndexesMatchEntries
  BY DEF IInv, ShardRight, Indexed, ReadyAt, Waiting, IndexesMatchEntries
<1>2. QED
  BY <1>1, ShardsRight, PTL

\* A built shard always has an entry for exactly those it serves.
THEOREM EntriesExact == Spec => []EntriesMatchAuths
<1>1. ASSUME IInv, NEW p \in ProviderSet, NEW m \in Models, shards[p][m].built
      PROVE  {a \in Auths : shards[p][m].entry[a] # NoEntry}
               = {a \in Auths : Serves(meta[a], p, m)}
  <2>1. \A a \in Auths : EntryHeld(shards[p][m].entry[a], shards[p][m].built, meta[a], p, m, now)
    BY <1>1 DEF IInv, ShardRight, HeldRight
  <2>2. NoEntry.state = "none"
    BY DEF NoEntry
  <2>3. QED
    BY <1>1, <2>1, <2>2 DEF EntryHeld, EntryRight
<1>2. IInv => EntriesMatchAuths
  BY <1>1 DEF EntriesMatchAuths
<1>3. QED
  BY <1>2, ShardsRight, PTL

\* Every shard holds what it should, and its indexes say so.
THEOREM ShardsAlwaysMatch == Spec => []ShardsMatch
<1>1. EntriesMatchAuths /\ IndexesMatchEntries => ShardsMatch
  BY DEF ShardsMatch
<1>2. QED
  BY <1>1, EntriesExact, IndexesExact, PTL

LEMMA PicksRight ==
  ASSUME IInv, NEW p \in ProviderSet, NEW m \in Models, NEW ok \in SUBSET Auths,
         NEW how \in Strategies, NEW pref \in BOOLEAN
  PROVE  SingleIsRight(p, m, pref, ok, how)
<1> DEFINE sh == Ensured(p, m)
           a == PickFrom(sh, pref, ok, how).auth
           R == ReadyIn(sh, ok)
           W == WsReadyIn(sh, meta, ok)
<1>1. /\ sh \in ShardType /\ Indexed(sh, meta) /\ HeldRight(sh, p, m, meta, now)
      /\ Promoted(sh, p, m) /\ meta \in MetaType
  BY EnsuredFacts DEF ShardRight, IInv
<1> HIDE DEF sh
<1>2. \A b \in R : /\ b \in ok /\ b \in Auths /\ b # Nobody
                   /\ Serves(meta[b], p, m) /\ ~Blocked(meta[b], now)
                   /\ meta[b].priority \in Int
                   /\ meta[b].priority \in Priorities
  <2> SUFFICES ASSUME NEW b \in R
               PROVE  /\ b \in ok /\ b \in Auths /\ b # Nobody
                      /\ Serves(meta[b], p, m) /\ ~Blocked(meta[b], now)
                      /\ meta[b].priority \in Int
                      /\ meta[b].priority \in Priorities
    OBVIOUS
  <2>1. b \in ok /\ b \in Auths /\ b \in Nat /\ sh.entry[b].state = "ready"
    BY SchedulerAssumption DEF ReadyIn
  <2>2. Serves(meta[b], p, m) /\ EntryRight(sh.entry[b], meta[b], now)
    <3>1. NoEntry.state # "ready"
      BY DEF NoEntry
    <3>2. QED
      BY <2>1, <3>1, <1>1 DEF HeldRight, EntryHeld
  <2>3. meta[b] \in Snapshot
    BY <2>1, <2>2, <1>1, NoMetaFacts DEF MetaType
  <2>4. meta[b].priority \in Priorities /\ meta[b].priority \in Int
    BY <2>3, SchedulerAssumption DEF Snapshot
  <2>5. b # Nobody
    BY <2>1 DEF Nobody
  <2>6. ~Blocked(meta[b], now)
    BY <2>1, <2>2 DEF EntryRight
  <2>7. QED
    BY <2>1, <2>2, <2>4, <2>5, <2>6
<1>3. /\ R = {} => a = Nobody
      /\ R # {} => a \in R
      /\ pref /\ W # {} => meta[a].ws /\ \A b \in W : meta[a].priority >= meta[b].priority
      /\ ~(pref /\ W # {}) => \A b \in R : meta[a].priority >= meta[b].priority
  BY <1>1, <1>2, PickFromFacts
<1>4. \A b \in ok : Usable(b, p, m) => b \in R /\ (meta[b].ws => b \in W)
  BY <1>1 DEF Promoted, ReadyIn, WsReadyIn
<1> HIDE DEF a, R, W
<1>5. a # Nobody => a \in ok /\ Serves(meta[a], p, m) /\ ~Blocked(meta[a], now)
  BY <1>2, <1>3
<1>6. ASSUME NEW b \in ok, Usable(b, p, m)
      PROVE  /\ a # Nobody
             /\ IF pref /\ meta[b].ws
                THEN meta[a].ws /\ meta[a].priority >= meta[b].priority
                ELSE (pref /\ meta[a].ws) \/ meta[a].priority >= meta[b].priority
  <2>1. b \in R /\ (meta[b].ws => b \in W)
    BY <1>4, <1>6
  <2>2. a # Nobody
    BY <2>1, <1>2, <1>3
  <2>3. CASE pref /\ W # {}
    BY <2>1, <2>2, <2>3, <1>3
  <2>4. CASE ~(pref /\ W # {})
    BY <2>1, <2>2, <2>4, <1>3
  <2>5. QED
    BY <2>3, <2>4
<1>7. QED
  BY <1>5, <1>6 DEF SingleIsRight, a, sh

\* A request to one provider is always given a credential that serves its model
\* and is not blocked, never misses one that waits for nothing, and gets the
\* best priority among those of the transport it prefers.
THEOREM SinglePicksRight == Spec => []SinglePickIsRight
<1>1. IInv => SinglePickIsRight
  BY PicksRight DEF SinglePickIsRight, Preferences
<1>2. QED
  BY <1>1, ShardsRight, PTL

(***************************************************************************)
(* Sums over finite sets.                                                  *)
(***************************************************************************)
Total(f, S) == MapThenSumSet(LAMBDA x : f[x], S)

\* What MapThenSumSet recurs on, and what it computes on the way.
One(s) == CHOOSE x \in s : TRUE
Summed(F, f, s) == F[s] = IF s = {} THEN 0 ELSE f[One(s)] + F[s \ {One(s)}]
IsSums(F, f, S) == F = [s \in SUBSET S |-> IF s = {} THEN 0 ELSE f[One(s)] + F[s \ {One(s)}]]

LEMMA UpTheNaturals ==
  ASSUME NEW A \in SUBSET Nat, 0 \in A, \A n \in A : n + 1 \in A
  PROVE  A = Nat
<1> SUFFICES ASSUME A # Nat PROVE FALSE
  OBVIOUS
<1> DEFINE S == Nat \ A
           f == [x \in S |-> x]
<1>1. S # {} /\ f \in [S -> Nat]
  OBVIOUS
<1>2. PICK x \in S : \A y \in S : f[x] <= f[y]
  <2> HIDE DEF S, f
  <2>1. QED
    BY <1>1, LeastValue
<1>3. x \in Nat /\ x \notin A /\ \A y \in S : x <= y
  BY <1>2
<1>4. x - 1 \in Nat /\ x - 1 \notin A
  BY <1>3
<1>5. QED
  BY <1>3, <1>4

LEMMA OneLess ==
  ASSUME NEW s, IsFiniteSet(s), s # {}
  PROVE  /\ One(s) \in s
         /\ \A x \in s : /\ IsFiniteSet(s \ {x})
                         /\ Cardinality(s \ {x}) = Cardinality(s) - 1
                         /\ Cardinality(s) \in Nat /\ Cardinality(s) # 0
BY FS_RemoveElement, FS_CardinalityType, FS_EmptySet DEF One

LEMMA SumsExist ==
  ASSUME NEW S, IsFiniteSet(S), NEW f
  PROVE  \E F : IsSums(F, f, S)
<1> DEFINE Up(F, n) == \A s \in SUBSET S : Cardinality(s) <= n => Summed(F, f, s)
           A == {n \in Nat : \E F : Up(F, n)}
<1>1. \A s \in SUBSET S : IsFiniteSet(s) /\ Cardinality(s) \in Nat
  BY FS_Subset, FS_CardinalityType
<1>2. 0 \in A
  <2>1. \A s \in SUBSET S : Cardinality(s) <= 0 => s = {}
    BY <1>1, FS_EmptySet
  <2>2. Up([s \in SUBSET S |-> 0], 0)
    BY <2>1 DEF Summed
  <2>3. QED
    BY <2>2
<1>3. ASSUME NEW n \in A PROVE n + 1 \in A
  <2>1. PICK F : Up(F, n)
    BY <1>3
  <2>2. PICK G : G = [s \in SUBSET S |-> IF s = {} THEN 0 ELSE f[One(s)] + F[s \ {One(s)}]]
    OBVIOUS
  <2>3. ASSUME NEW s \in SUBSET S, Cardinality(s) <= n + 1 PROVE Summed(G, f, s)
    <3>1. CASE s = {}
      BY <2>2, <3>1 DEF Summed
    <3>2. CASE s # {}
      <4>1. s \ {One(s)} \in SUBSET S /\ Cardinality(s \ {One(s)}) <= n
        BY <1>1, <2>3, <3>2, OneLess
      <4>2. G[s \ {One(s)}] = F[s \ {One(s)}]
        BY <2>1, <2>2, <4>1 DEF Summed
      <4>3. QED
        BY <2>2, <3>2, <4>2 DEF Summed
    <3>3. QED
      BY <3>1, <3>2
  <2>4. QED
    BY <2>3
<1>4. A = Nat
  <2> HIDE DEF A
  <2>1. A \in SUBSET Nat
    BY DEF A
  <2>2. QED
    BY <1>2, <1>3, <2>1, UpTheNaturals
<1>5. PICK F : Up(F, Cardinality(S))
  BY <1>1, <1>4
<1>6. PICK G : G = [s \in SUBSET S |-> F[s]]
  OBVIOUS
<1>7. ASSUME NEW s \in SUBSET S PROVE Summed(G, f, s)
  <2>1. Cardinality(s) <= Cardinality(S)
    BY FS_Subset
  <2>2. s \ {One(s)} \in SUBSET S
    OBVIOUS
  <2>3. QED
    BY <1>5, <1>6, <2>1, <2>2 DEF Summed
<1>8. IsSums(G, f, S)
  BY <1>6, <1>7 DEF IsSums, Summed
<1>9. QED
  BY <1>8

\* Sums are determined by what is summed.
LEMMA SumsAgree ==
  ASSUME NEW S, IsFiniteSet(S), NEW T, NEW f, NEW g, NEW F, NEW G,
         IsSums(F, f, S), IsSums(G, g, T), \A x \in S \cap T : f[x] = g[x]
  PROVE  \A s \in SUBSET (S \cap T) : F[s] = G[s]
<1> DEFINE A == {n \in Nat : \A s \in SUBSET (S \cap T) : Cardinality(s) = n => F[s] = G[s]}
<1>1. \A s \in SUBSET (S \cap T) : IsFiniteSet(s) /\ Cardinality(s) \in Nat
  BY FS_Subset, FS_CardinalityType
<1>2. \A s \in SUBSET (S \cap T) : Summed(F, f, s) /\ Summed(G, g, s)
  BY DEF IsSums, Summed
<1>3. 0 \in A
  BY <1>1, <1>2, FS_EmptySet DEF Summed
<1>4. ASSUME NEW n \in A PROVE n + 1 \in A
  <2>1. ASSUME NEW s \in SUBSET (S \cap T), Cardinality(s) = n + 1 PROVE F[s] = G[s]
    <3>1. s # {}
      <4>1. Cardinality({}) = 0 /\ n \in Nat
        BY <1>4, FS_EmptySet
      <4>2. QED
        BY <2>1, <4>1
    <3>2. One(s) \in s /\ Cardinality(s \ {One(s)}) = n
      BY <1>1, <1>4, <2>1, <3>1, OneLess
    <3>3. F[s \ {One(s)}] = G[s \ {One(s)}]
      BY <1>4, <3>2
    <3>4. QED
      BY <1>2, <3>1, <3>2, <3>3 DEF Summed
  <2>2. QED
    BY <2>1
<1>5. A = Nat
  <2> HIDE DEF A
  <2>1. A \in SUBSET Nat
    BY DEF A
  <2>2. QED
    BY <1>3, <1>4, <2>1, UpTheNaturals
<1>6. QED
  BY <1>1, <1>5

LEMMA TotalIsSum ==
  ASSUME NEW S, IsFiniteSet(S), NEW f, NEW F, IsSums(F, f, S), NEW T \in SUBSET S
  PROVE  Total(f, T) = F[T]
<1>1. IsFiniteSet(T)
  BY FS_Subset
<1>2. PICK G : G = CHOOSE H : IsSums(H, f, T)
  OBVIOUS
<1>3. IsSums(G, f, T)
  BY <1>1, <1>2, SumsExist
<1>4. Total(f, T) = G[T]
  BY <1>2 DEF Total, MapThenSumSet, MapThenFoldSet, IsSums, One
<1>5. QED
  BY <1>3, <1>4, SumsAgree

\* The sum does not depend on the order.
LEMMA TotalFacts ==
  ASSUME NEW S, IsFiniteSet(S), NEW f, \A x \in S : f[x] \in Nat
  PROVE  /\ Total(f, {}) = 0 /\ Total(f, S) \in Nat
         /\ \A x \in S : Total(f, S) = f[x] + Total(f, S \ {x})
<1>1. PICK F : IsSums(F, f, S)
  BY SumsExist
<1> DEFINE Right(s) == F[s] \in Nat /\ \A x \in s : F[s] = f[x] + F[s \ {x}]
           A == {n \in Nat : \A s \in SUBSET S : Cardinality(s) <= n => Right(s)}
<1>2. \A s \in SUBSET S : IsFiniteSet(s) /\ Cardinality(s) \in Nat
  BY FS_Subset, FS_CardinalityType
<1>3. \A s \in SUBSET S : Summed(F, f, s)
  BY <1>1 DEF IsSums, Summed
<1>4. Right({})
  BY <1>3 DEF Summed
<1>5. 0 \in A
  <2>1. \A s \in SUBSET S : Cardinality(s) <= 0 => s = {}
    BY <1>2, FS_EmptySet
  <2>2. QED
    BY <1>4, <2>1
<1>6. ASSUME NEW n \in A PROVE n + 1 \in A
  <2>1. ASSUME NEW s \in SUBSET S, Cardinality(s) <= n + 1, s # {} PROVE Right(s)
    <3>1. PICK o \in s : o = One(s)
      BY <1>2, <2>1, OneLess
    <3>2. \A x \in s : s \ {x} \in SUBSET S /\ Cardinality(s \ {x}) <= n
      BY <1>2, <1>6, <2>1, OneLess
    <3>3. F[s] = f[o] + F[s \ {o}]
      BY <1>3, <2>1, <3>1 DEF Summed
    <3>4. \A x \in s : Right(s \ {x})
      BY <1>6, <3>2
    <3>5. ASSUME NEW x \in s, x # o PROVE F[s] = f[x] + F[s \ {x}]
      <4>1. (s \ {x}) \ {o} = (s \ {o}) \ {x} /\ (s \ {o}) \ {x} \in SUBSET S
        OBVIOUS
      <4>2. Cardinality((s \ {o}) \ {x}) <= n
        <5>1. (s \ {o}) \ {x} \in SUBSET (s \ {o}) /\ IsFiniteSet(s \ {o})
          BY <1>2, <3>2
        <5>2. Cardinality((s \ {o}) \ {x}) <= Cardinality(s \ {o})
          BY <5>1, FS_Subset
        <5>3. n \in Nat
          BY <1>6
        <5>4. QED
          BY <1>2, <3>2, <4>1, <5>2, <5>3
      <4>3. PICK r \in Nat : r = F[(s \ {o}) \ {x}]
        BY <1>6, <4>1, <4>2
      <4>4. F[s \ {o}] = f[x] + r
        <5>1. Right(s \ {o}) /\ x \in s \ {o}
          BY <3>4, <3>5
        <5>2. QED
          BY <4>3, <5>1
      <4>5. F[s \ {x}] = f[o] + r
        <5>1. Right(s \ {x}) /\ o \in s \ {x}
          BY <3>4, <3>5
        <5>2. QED
          BY <4>1, <4>3, <5>1
      <4>6. f[o] \in Nat /\ f[x] \in Nat
        OBVIOUS
      <4>7. QED
        BY <3>3, <4>3, <4>4, <4>5, <4>6
    <3>6. F[s] \in Nat
      BY <3>3, <3>4
    <3>7. QED
      BY <3>3, <3>5, <3>6
  <2>2. n + 1 \in Nat /\ \A s \in SUBSET S : Cardinality(s) <= n + 1 => Right(s)
    <3> HIDE DEF Right
    <3>1. QED
      BY <1>4, <1>6, <2>1
  <2>3. QED
    BY <2>2
<1>7. A = Nat
  <2> HIDE DEF A
  <2>1. A \in SUBSET Nat
    BY DEF A
  <2>2. QED
    BY <1>5, <1>6, <2>1, UpTheNaturals
<1>8. \A s \in SUBSET S : Right(s)
  <2> HIDE DEF Right
  <2>1. \A s \in SUBSET S : Cardinality(s) \in A /\ Cardinality(s) <= Cardinality(s)
    BY <1>2, <1>7
  <2>2. QED
    BY <2>1
<1>9. \A s \in SUBSET S : Total(f, s) = F[s]
  BY <1>1, TotalIsSum
<1>10. {} \in SUBSET S /\ F[{}] = 0
  BY <1>3 DEF Summed
<1>11. QED
  <2>1. Total(f, {}) = 0
    BY <1>9, <1>10
  <2>2. Total(f, S) \in Nat
    BY <1>8, <1>9
  <2>3. \A x \in S : Total(f, S) = f[x] + Total(f, S \ {x})
    <3>1. \A x \in S : S \ {x} \in SUBSET S
      OBVIOUS
    <3>2. QED
      BY <1>8, <1>9, <3>1
  <2>4. QED
    BY <2>1, <2>2, <2>3

LEMMA SameTotal ==
  ASSUME NEW S, IsFiniteSet(S), NEW f, NEW g, \A x \in S : f[x] = g[x]
  PROVE  Total(f, S) = Total(g, S)
<1>1. PICK F, G : IsSums(F, f, S) /\ IsSums(G, g, S)
  BY SumsExist
<1>2. QED
  BY <1>1, SumsAgree, TotalIsSum

(***************************************************************************)
(* The segments of a mixed pick.                                           *)
(***************************************************************************)

\* Intervals that follow one another: everything before their end is in one.
LEMMA Intervals ==
  ASSUME NEW n \in Nat, NEW s \in [1 .. n + 1 -> Nat], s[1] = 0, \A i \in 1 .. n : s[i] <= s[i + 1]
  PROVE  /\ \A i, j \in 1 .. n + 1 : i <= j => s[i] <= s[j]
         /\ \A x \in Nat : x < s[n + 1] => \E i \in 1 .. n : s[i] <= x /\ x < s[i + 1]
<1>1. ASSUME NEW i \in 1 .. n + 1 PROVE \A j \in 1 .. n + 1 : i <= j => s[i] <= s[j]
  <2> DEFINE A == {d \in Nat : i + d \in 1 .. n + 1 => s[i] <= s[i + d]}
  <2>1. 0 \in A
    OBVIOUS
  <2>2. ASSUME NEW d \in A PROVE d + 1 \in A
    <3>1. i + (d + 1) \in 1 .. n + 1 => i + d \in 1 .. n /\ s[i + d] <= s[i + (d + 1)]
      BY <2>2
    <3>2. QED
      BY <2>2, <3>1
  <2>3. A = Nat
    <3> HIDE DEF A
    <3>1. A \in SUBSET Nat
      BY DEF A
    <3>2. QED
      BY <2>1, <2>2, <3>1, UpTheNaturals
  <2>4. ASSUME NEW j \in 1 .. n + 1, i <= j PROVE s[i] <= s[j]
    <3>1. j - i \in Nat /\ i + (j - i) = j
      BY <2>4
    <3>2. j - i \in A
      <4> HIDE DEF A
      <4>1. QED
        BY <2>3, <3>1
    <3>3. QED
      BY <3>1, <3>2
  <2>5. QED
    BY <2>4
<1>2. ASSUME NEW x \in Nat, x < s[n + 1]
      PROVE  \E i \in 1 .. n : s[i] <= x /\ x < s[i + 1]
  <2> DEFINE S == {i \in 1 .. n : x < s[i + 1]}
  <2>1. n # 0
    BY <1>2
  <2>2. n \in 1 .. n /\ S \in SUBSET Nat
    BY <2>1
  <2>3. n \in S
    BY <1>2, <2>2
  <2>4. Min(S) \in S /\ \A y \in S : Min(S) <= y
    <3> HIDE DEF S
    <3>1. QED
      BY <2>2, <2>3, MinOfNaturals
  <2>5. PICK i \in 1 .. n : x < s[i + 1] /\ \A y \in S : i <= y
    BY <2>4
  <2>6. s[i] <= x
    <3>1. CASE i = 1
      BY <3>1
    <3>2. CASE i # 1
      <4>1. i - 1 \in 1 .. n /\ (i - 1) + 1 = i /\ i \in 1 .. n + 1
        BY <3>2
      <4>2. i - 1 \notin S
        <5> HIDE DEF S
        <5>1. QED
          BY <2>5, <4>1
      <4>3. ~(x < s[i]) /\ s[i] \in Nat
        BY <4>1, <4>2
      <4>4. QED
        BY <4>3
    <3>3. QED
      BY <3>1, <3>2
  <2>7. QED
    BY <2>5, <2>6
<1>3. QED
  BY <1>1, <1>2

\* What each provider gives to a mixed pick, and where its segment starts.
Given(en, pr, pref, ok) ==
  [i \in 1 .. Len(Providers) |-> Weight(en, i, pr, pref, ok)]
Starts(en, pr, pref, ok) ==
  [i \in 1 .. Len(Providers) + 1 |-> SegmentStart(en, i, pr, pref, ok)]

\* Segments of w that follow one another start at s.
Consecutive(n, w, s) ==
  /\ n \in Nat /\ DOMAIN Providers = 1 .. n
  /\ s \in [1 .. n + 1 -> Nat] /\ s[1] = 0
  /\ \A i \in 1 .. n : s[i + 1] = s[i] + w[i]
  /\ \A i, j \in 1 .. n + 1 : i <= j => s[i] <= s[j]
  /\ \A x \in Nat : x < s[n + 1] => \E i \in 1 .. n : s[i] <= x /\ x < s[i + 1]
  /\ \A i \in 1 .. n + 1 : s[i] = Total(w, 1 .. i - 1)

LEMMA SegmentFacts ==
  ASSUME NEW en, NEW pr, NEW pref, NEW ok,
         Given(en, pr, pref, ok) \in [1 .. Len(Providers) -> Nat]
  PROVE  Consecutive(Len(Providers), Given(en, pr, pref, ok), Starts(en, pr, pref, ok))
<1>0. PICK w, s, n : w = Given(en, pr, pref, ok) /\ s = Starts(en, pr, pref, ok) /\ n = Len(Providers)
  OBVIOUS
<1>1. n \in Nat /\ DOMAIN Providers = 1 .. n
  BY <1>0, SchedulerAssumption
<1>2. ASSUME NEW i \in 1 .. n + 1
      PROVE  /\ s[i] = Total(w, 1 .. i - 1) /\ IsFiniteSet(1 .. i - 1)
             /\ \A j \in 1 .. i - 1 : w[j] \in Nat
  <2>1. PICK f : f = [j \in 1 .. i - 1 |-> Weight(en, j, pr, pref, ok)]
    OBVIOUS
  <2>2. i \in Int /\ i - 1 \in Int /\ \A j \in 1 .. i - 1 : j \in 1 .. n
    BY <1>1
  <2>3. IsFiniteSet(1 .. i - 1)
    BY <2>2, FS_Interval
  <2>4. SegmentStart(en, i, pr, pref, ok)
          = Total([j \in 1 .. i - 1 |-> Weight(en, j, pr, pref, ok)], 1 .. i - 1)
    BY Zenon DEF Total, MapThenSumSet, MapThenFoldSet, SegmentStart
  <2>5. s[i] = Total(f, 1 .. i - 1)
    BY <1>0, <2>1, <2>4 DEF Starts
  <2>6. \A j \in 1 .. i - 1 : f[j] = w[j]
    BY <1>0, <2>1, <2>2 DEF Given
  <2>7. s[i] = Total(w, 1 .. i - 1)
    BY <2>3, <2>5, <2>6, SameTotal
  <2>8. \A j \in 1 .. i - 1 : w[j] \in Nat
    BY <1>0, <2>2
  <2>9. QED
    BY <2>3, <2>7, <2>8
<1>3. s \in [1 .. n + 1 -> Nat]
  <2>1. \A i \in 1 .. n + 1 : s[i] \in Nat
    BY <1>2, TotalFacts
  <2>2. QED
    BY <1>0, <2>1 DEF Starts
<1>4. ASSUME NEW i \in 1 .. n PROVE s[i + 1] = s[i] + w[i]
  <2>1. i \in 1 .. n + 1 /\ i + 1 \in 1 .. n + 1 /\ (i + 1) - 1 = i
    BY <1>1
  <2>2. /\ s[i + 1] = Total(w, 1 .. i) /\ s[i] = Total(w, 1 .. i - 1) /\ IsFiniteSet(1 .. i)
        /\ \A j \in 1 .. i : w[j] \in Nat
    BY <1>2, <2>1
  <2>3. (1 .. i) \ {i} = 1 .. i - 1 /\ i \in 1 .. i
    BY <1>1
  <2>4. Total(w, 1 .. i) = w[i] + Total(w, (1 .. i) \ {i})
    BY <2>2, <2>3, TotalFacts
  <2>5. s[i + 1] = w[i] + s[i]
    BY <2>2, <2>3, <2>4, Zenon
  <2>6. s[i] \in Nat /\ w[i] \in Nat
    BY <1>0, <1>3, <2>1
  <2>7. QED
    BY <2>5, <2>6
<1>5. s[1] = 0
  <2>1. 1 \in 1 .. n + 1 /\ 1 .. 1 - 1 = {}
    BY <1>1
  <2>2. s[1] = Total(w, {}) /\ IsFiniteSet({})
    BY <1>2, <2>1
  <2>3. QED
    BY <2>2, TotalFacts
<1>6. \A i \in 1 .. n : s[i] <= s[i + 1]
  <2>1. \A i \in 1 .. n : i \in 1 .. n + 1 /\ i + 1 \in 1 .. n + 1
    BY <1>1
  <2>2. \A i \in 1 .. n : s[i] \in Nat /\ w[i] \in Nat
    BY <1>0, <1>3, <2>1
  <2>3. QED
    BY <1>4, <2>2
<1>7. QED
  <2>1. /\ \A i, j \in 1 .. n + 1 : i <= j => s[i] <= s[j]
        /\ \A x \in Nat : x < s[n + 1] => \E i \in 1 .. n : s[i] <= x /\ x < s[i + 1]
    BY <1>1, <1>3, <1>5, <1>6, Intervals
  <2>2. QED
    BY <1>0, <1>1, <1>2, <1>3, <1>4, <1>5, <2>1 DEF Consecutive

\* Where a mixed pick has a candidate, it finds a provider i with one: by turns
\* the one whose segment has the slot x of the cursor c.
SlotFound(n, w, s, i, c, x, how) ==
  /\ i \in 1 .. n /\ w[i] > 0
  /\ s[n + 1] \in Nat /\ s[n + 1] > 0
  /\ x = c % s[n + 1] /\ x \in 0 .. s[n + 1] - 1
  /\ how # "fillFirst" => s[i] <= x /\ x < s[i + 1]

LEMMA MixedProviderFacts ==
  ASSUME NEW m \in Models, NEW en, NEW pr, NEW pref, NEW ok, NEW how,
         mixed \in [Models -> Nat],
         Given(en, pr, pref, ok) \in [1 .. Len(Providers) -> Nat],
         \E i \in 1 .. Len(Providers) : Given(en, pr, pref, ok)[i] > 0
  PROVE  SlotFound(Len(Providers), Given(en, pr, pref, ok), Starts(en, pr, pref, ok),
                   MixedProvider(m, en, pr, pref, ok, how), mixed[m],
                   MixedSlot(m, en, pr, pref, ok), how)
<1> DEFINE w == Given(en, pr, pref, ok)
           s == Starts(en, pr, pref, ok)
           n == Len(Providers)
           With == {i \in 1 .. n : w[i] > 0}
<1>1. Consecutive(n, w, s)
  BY SegmentFacts
<1>2. w \in [1 .. n -> Nat] /\ mixed \in [Models -> Nat]
  OBVIOUS
<1>3. PICK j \in 1 .. n : w[j] > 0
  OBVIOUS
<1> HIDE DEF w, s, n
<1>4. /\ n \in Nat /\ DOMAIN Providers = 1 .. n
      /\ s \in [1 .. n + 1 -> Nat] /\ s[1] = 0
      /\ \A i \in 1 .. n : s[i + 1] = s[i] + w[i]
      /\ \A i, k \in 1 .. n + 1 : i <= k => s[i] <= s[k]
      /\ \A x \in Nat : x < s[n + 1] => \E i \in 1 .. n : s[i] <= x /\ x < s[i + 1]
  BY <1>1 DEF Consecutive
<1>5. \A i \in 1 .. n : /\ i \in 1 .. n + 1 /\ i + 1 \in 1 .. n + 1
                        /\ w[i] \in Nat /\ s[i] \in Nat /\ s[i + 1] \in Nat
                        /\ s[i] = SegmentStart(en, i, pr, pref, ok)
                        /\ s[i + 1] = SegmentStart(en, i + 1, pr, pref, ok)
                        /\ w[i] = Weight(en, i, pr, pref, ok)
  <2>1. \A i \in 1 .. n : i \in 1 .. n + 1 /\ i + 1 \in 1 .. n + 1
    BY <1>4
  <2>2. QED
    BY <1>2, <1>4, <2>1 DEF Starts, Given, s, w, n
<1>6. n + 1 \in 1 .. n + 1 /\ s[n + 1] \in Nat /\ s[n + 1] = SegmentStart(en, n + 1, pr, pref, ok)
  BY <1>4 DEF Starts, s, n
<1>7. s[n + 1] > 0
  <2>1. j + 1 \in 1 .. n + 1 /\ j + 1 <= n + 1
    BY <1>4, <1>3
  <2>2. s[j + 1] <= s[n + 1]
    BY <1>4, <1>6, <2>1
  <2>3. QED
    BY <1>4, <1>5, <1>6, <1>3, <2>2
<1>8. PICK x : x = MixedSlot(m, en, pr, pref, ok)
  OBVIOUS
<1>9. x = mixed[m] % s[n + 1] /\ mixed[m] \in Nat
  BY <1>2, <1>6, <1>8 DEF MixedSlot, n
<1>10. x \in 0 .. s[n + 1] - 1
  BY <1>6, <1>7, <1>9
<1>11. PICK i : i = MixedProvider(m, en, pr, pref, ok, how)
  OBVIOUS
<1>12. CASE how = "fillFirst"
  <2>1. i = Min(With)
    BY <1>4, <1>5, <1>11, <1>12 DEF MixedProvider, n
  <2>2. j \in With /\ With \in SUBSET Nat
    BY <1>4, <1>3
  <2>3. Min(With) \in With
    <3> HIDE DEF With
    <3>1. QED
      BY <2>2, MinOfNaturals
  <2>4. QED
    BY <1>6, <1>7, <1>8, <1>9, <1>10, <1>11, <1>12, <2>1, <2>3 DEF SlotFound, w, s, n
<1>13. CASE how # "fillFirst"
  <2>1. x \in Nat /\ x < s[n + 1]
    BY <1>6, <1>10
  <2>2. PICK k \in 1 .. n : s[k] <= x /\ x < s[k + 1]
    BY <1>4, <2>1
  <2>3. x \in s[k] .. s[k + 1] - 1
    BY <1>5, <2>1, <2>2
  <2>4. \E l \in 1 .. n : x \in SegmentStart(en, l, pr, pref, ok) .. SegmentStart(en, l + 1, pr, pref, ok) - 1
    BY <1>5, <2>3
  <2>5. i \in 1 .. n /\ x \in SegmentStart(en, i, pr, pref, ok) .. SegmentStart(en, i + 1, pr, pref, ok) - 1
    BY <1>4, <1>8, <1>11, <1>13, <2>4 DEF MixedProvider, n
  <2>6. /\ x \in s[i] .. s[i + 1] - 1 /\ s[i + 1] = s[i] + w[i]
        /\ s[i] \in Nat /\ w[i] \in Nat /\ s[i + 1] \in Nat
    BY <1>4, <1>5, <2>5
  <2>7. s[i] <= x /\ x < s[i + 1] /\ w[i] > 0
    BY <2>1, <2>6
  <2>8. QED
    BY <1>6, <1>7, <1>8, <1>9, <1>10, <1>11, <2>5, <2>7 DEF SlotFound, w, s, n
<1>14. QED
  BY <1>12, <1>13

(***************************************************************************)
(* Mixed picks.                                                            *)
(***************************************************************************)

\* What makes a shard fit for a pick.
Fit(sh, p, m) ==
  /\ sh \in ShardType /\ Indexed(sh, meta)
  /\ \A a \in Auths : sh.entry[a].state = "ready" =>
       /\ Serves(meta[a], p, m) /\ ~Blocked(meta[a], now) /\ meta[a].priority \in Priorities
  /\ Promoted(sh, p, m)

LEMMA EnsuredAllFacts ==
  ASSUME IInv, NEW m \in Models
  PROVE  \A p \in ProviderSet : Fit(EnsuredAll(m)[p], p, m)
<1> SUFFICES ASSUME NEW p \in ProviderSet PROVE Fit(Ensured(p, m), p, m)
  BY DEF EnsuredAll
<1>1. PICK sh : sh = Ensured(p, m)
  OBVIOUS
<1>2. /\ sh \in ShardType /\ Indexed(sh, meta) /\ HeldRight(sh, p, m, meta, now)
      /\ Promoted(sh, p, m) /\ meta \in MetaType
  BY <1>1, EnsuredFacts DEF ShardRight, IInv
<1>3. ASSUME NEW a \in Auths, sh.entry[a].state = "ready"
      PROVE  Serves(meta[a], p, m) /\ ~Blocked(meta[a], now) /\ meta[a].priority \in Priorities
  <2>1. Serves(meta[a], p, m) /\ EntryRight(sh.entry[a], meta[a], now)
    <3>1. NoEntry.state # "ready"
      BY DEF NoEntry
    <3>2. QED
      BY <1>2, <1>3, <3>1 DEF HeldRight, EntryHeld
  <2>2. meta[a] \in Snapshot
    BY <1>2, <2>1, NoMetaFacts DEF MetaType
  <2>3. QED
    BY <1>3, <2>1, <2>2 DEF Snapshot, EntryRight
<1>4. QED
  BY <1>1, <1>2, <1>3 DEF Fit

\* The highest priority that is ready has candidates, in the view that a pick takes.
LEMMA BestOfShard ==
  ASSUME NEW sh \in ShardType, NEW pref \in BOOLEAN, NEW ok
  PROVE  /\ \A x \in HighestReady(sh, pref, ok) :
              x \in Priorities /\ sh.view[x][ViewKind(sh, x, pref, ok)].auths \cap ok # {}
         /\ \A q \in PrioritiesWith(sh, "all", ok) :
              \E x \in HighestReady(sh, pref, ok) : ~pref => x >= q
<1>1. PICK ws, all, h : /\ ws = PrioritiesWith(sh, "ws", ok) /\ all = PrioritiesWith(sh, "all", ok)
                        /\ h = HighestReady(sh, pref, ok)
  OBVIOUS
<1>2. ASSUME NEW Q, Q = ws \/ Q = all, Q # {}
      PROVE  Max(Q) \in Q /\ \A q \in Q : Max(Q) >= q
  <2>1. Q \in SUBSET Priorities
    BY <1>1, <1>2 DEF PrioritiesWith
  <2>2. IsFiniteSet(Q) /\ Q \in SUBSET Int
    BY <2>1, FS_Subset, SchedulerAssumption
  <2>3. QED
    BY <2>2, <1>2, MaxOfIntegers
<1>3. h = IF pref /\ ws # {} THEN {Max(ws)} ELSE IF all # {} THEN {Max(all)} ELSE {}
  BY <1>1 DEF HighestReady
<1>4. ASSUME NEW x \in h
      PROVE  x \in Priorities /\ sh.view[x][ViewKind(sh, x, pref, ok)].auths \cap ok # {}
  <2>1. CASE pref /\ ws # {}
    <3>1. x \in ws
      BY <1>2, <1>3, <1>4, <2>1
    <3>2. QED
      BY <1>1, <2>1, <3>1 DEF PrioritiesWith, ViewKind
  <2>2. CASE ~(pref /\ ws # {}) /\ all # {}
    <3>1. x \in all
      BY <1>2, <1>3, <1>4, <2>2
    <3>2. x \in Priorities /\ sh.view[x]["all"].auths \cap ok # {}
      BY <1>1, <3>1 DEF PrioritiesWith
    <3>3. ViewKind(sh, x, pref, ok) = "all"
      BY <1>1, <2>2, <3>2 DEF PrioritiesWith, ViewKind
    <3>4. QED
      BY <3>2, <3>3
  <2>3. QED
    BY <1>3, <1>4, <2>1, <2>2
<1>5. ASSUME NEW q \in all PROVE \E x \in h : ~pref => x >= q
  BY <1>2, <1>3, <1>5
<1>6. QED
  BY <1>1, <1>4, <1>5

LEMMA GivenFacts ==
  ASSUME NEW en, \A p \in ProviderSet : en[p] \in ShardType, NEW pr \in Priorities, NEW pref,
         NEW ok \in SUBSET Auths
  PROVE  /\ Given(en, pr, pref, ok) \in [1 .. Len(Providers) -> Nat]
         /\ \A i \in 1 .. Len(Providers) :
              LET p == Providers[i]
                  prefers == pref /\ p \in WsProviders
              IN  /\ p \in ProviderSet
                  /\ Given(en, pr, pref, ok)[i] > 0 <=>
                       en[p].view[pr][ViewKind(en[p], pr, prefers, ok)].auths \cap ok # {}
<1>1. DOMAIN Providers = 1 .. Len(Providers)
  BY SchedulerAssumption
<1>2. ASSUME NEW i \in 1 .. Len(Providers)
      PROVE  LET p == Providers[i]
                 prefers == pref /\ p \in WsProviders
             IN  /\ p \in ProviderSet /\ Given(en, pr, pref, ok)[i] \in Nat
                 /\ Given(en, pr, pref, ok)[i] > 0 <=>
                      en[p].view[pr][ViewKind(en[p], pr, prefers, ok)].auths \cap ok # {}
  <2>1. PICK p, prefers, S : /\ p = Providers[i] /\ prefers = (pref /\ p \in WsProviders)
                             /\ S = en[p].view[pr][ViewKind(en[p], pr, prefers, ok)].auths \cap ok
    OBVIOUS
  <2>2. p \in ProviderSet
    BY <1>1, <2>1 DEF ProviderSet
  <2>3. S \in SUBSET Auths
    BY <2>1
  <2>4. Given(en, pr, pref, ok)[i] = Cardinality(S)
    BY <2>1 DEF Given, Weight, ReadyCount
  <2>5. Cardinality(S) \in Nat /\ (Cardinality(S) = 0 <=> S = {})
    BY <2>3, FS_Subset, FS_CardinalityType, FS_EmptySet, SchedulerAssumption
  <2>6. QED
    BY <2>1, <2>2, <2>4, <2>5
<1>3. QED
  BY <1>2 DEF Given

\* A mixed pick takes its credential a from a provider p, one that has somebody
\* of the best priority pr, and misses only if nobody has anybody.
PickedWell(en, ok, best, pr, p, w, a) ==
  /\ \A q \in ProviderSet : ReadyIn(en[q], ok) # {} => best # {}
  /\ best = {} => a = Nobody
  /\ best # {} =>
       /\ pr \in best /\ pr \in Priorities /\ p \in ProviderSet
       /\ \A q \in best : pr >= q
       /\ w \in [1 .. Len(Providers) -> Nat]
       /\ \E j \in 1 .. Len(Providers) : w[j] > 0
       /\ a \in ReadyIn(en[p], ok) /\ meta[a].priority = pr

LEMMA MixedPickFacts ==
  ASSUME mixed \in [Models -> Nat], NEW m \in Models, NEW en, \A p \in ProviderSet : Fit(en[p], p, m),
         NEW pref \in BOOLEAN, NEW ok \in SUBSET Auths, NEW how \in Strategies
  PROVE  LET best == MixedBest(en, pref, ok)
             pr   == Max(best)
         IN  PickedWell(en, ok, best, pr, Providers[MixedProvider(m, en, pr, pref, ok, how)],
                        Given(en, pr, pref, ok), MixedPick(m, en, pref, ok, how).auth)
<1>1. PICK best, pr, i, p, r : /\ best = MixedBest(en, pref, ok) /\ pr = Max(best)
                               /\ i = MixedProvider(m, en, pr, pref, ok, how)
                               /\ p = Providers[i] /\ r = MixedPick(m, en, pref, ok, how)
  OBVIOUS
<1>w. PICK w : w = Given(en, pr, pref, ok)
  OBVIOUS
<1>2. \A q \in ProviderSet : en[q] \in ShardType /\ Indexed(en[q], meta)
  BY DEF Fit
<1>3. \A x \in best : \E q \in ProviderSet : x \in HighestReady(en[q], pref /\ q \in WsProviders, ok)
  BY <1>1 DEF MixedBest
<1>4. best \in SUBSET Priorities
  BY <1>2, <1>3, BestOfShard
<1>5. ASSUME NEW q \in ProviderSet, ReadyIn(en[q], ok) # {} PROVE best # {}
  <2>1. PICK b \in ok : en[q].entry[b].state = "ready" /\ meta[b].priority \in Priorities
    BY <1>5 DEF ReadyIn, Fit
  <2>2. meta[b].priority \in PrioritiesWith(en[q], "all", ok)
    BY <1>2, <2>1 DEF PrioritiesWith, Indexed, ReadyAt
  <2>3. HighestReady(en[q], pref /\ q \in WsProviders, ok) # {}
    BY <1>2, <2>2, BestOfShard
  <2>4. HighestReady(en[q], pref /\ q \in WsProviders, ok) \subseteq best
    BY <1>1 DEF MixedBest
  <2>5. QED
    BY <2>3, <2>4
<1>6. CASE best = {}
  <2>1. r.auth = Nobody
    BY <1>1, <1>6 DEF MixedPick
  <2>2. PickedWell(en, ok, best, pr, p, w, r.auth)
    BY <1>5, <1>6, <2>1 DEF PickedWell
  <2>3. QED
    BY <1>1, <1>w, <2>2
<1>7. CASE best # {}
  <2>1. pr \in best /\ \A q \in best : pr >= q
    <3>1. IsFiniteSet(best) /\ best \in SUBSET Int
      BY <1>4, FS_Subset, SchedulerAssumption
    <3>2. QED
      BY <1>1, <1>7, <3>1, MaxOfIntegers
  <2>2. pr \in Priorities
    BY <1>4, <2>1
  <2>4. /\ w \in [1 .. Len(Providers) -> Nat]
        /\ \A j \in 1 .. Len(Providers) :
              LET o == Providers[j]
                  prefers == pref /\ o \in WsProviders
              IN  /\ o \in ProviderSet
                  /\ w[j] > 0 <=> en[o].view[pr][ViewKind(en[o], pr, prefers, ok)].auths \cap ok # {}
    BY <1>2, <1>w, <2>2, GivenFacts
  <2>5. PICK q \in ProviderSet : pr \in HighestReady(en[q], pref /\ q \in WsProviders, ok)
    BY <1>3, <2>1
  <2>6. PICK j \in 1 .. Len(Providers) : q = Providers[j]
    BY SchedulerAssumption DEF ProviderSet
  <2>7. w[j] > 0
    <3>1. en[q].view[pr][ViewKind(en[q], pr, pref /\ q \in WsProviders, ok)].auths \cap ok # {}
      BY <1>2, <2>5, BestOfShard
    <3>2. QED
      BY <2>4, <2>6, <3>1
  <2>8. i \in 1 .. Len(Providers) /\ w[i] > 0
    BY <1>1, <1>w, <2>4, <2>7, MixedProviderFacts DEF SlotFound
  <2>9. PICK prefers \in BOOLEAN : prefers = (pref /\ p \in WsProviders)
    OBVIOUS
  <2>10. /\ p \in ProviderSet
         /\ en[p].view[pr][ViewKind(en[p], pr, prefers, ok)].auths \cap ok # {}
    BY <1>1, <2>4, <2>8, <2>9
  <2>11. r.auth = PickAt(en[p], pr, prefers, ok, how).auth
    BY <1>1, <1>7, <2>9 DEF MixedPick
  <2>12. r.auth \in en[p].view[pr][ViewKind(en[p], pr, prefers, ok)].auths \cap ok
    BY <1>2, <2>2, <2>10, <2>11, PickAtFacts
  <2>13. r.auth \in ReadyIn(en[p], ok) /\ meta[r.auth].priority = pr
    <3>1. Indexed(en[p], meta) /\ ViewKind(en[p], pr, prefers, ok) \in {"all", "ws"}
      BY <1>2, <2>10 DEF ViewKind
    <3>2. QED
      BY <2>2, <2>12, <3>1 DEF Indexed, ReadyAt, ReadyIn
  <2>14. PickedWell(en, ok, best, pr, p, w, r.auth)
    BY <1>5, <1>7, <2>1, <2>2, <2>4, <2>7, <2>10, <2>13 DEF PickedWell
  <2>15. QED
    BY <1>1, <1>w, <2>14
<1>8. QED
  BY <1>6, <1>7

LEMMA MixedRight ==
  ASSUME IInv, mixed \in [Models -> Nat], NEW m \in Models, NEW pref \in BOOLEAN,
         NEW ok \in SUBSET Auths, NEW how \in Strategies
  PROVE  MixedIsRight(m, EnsuredAll(m), pref, ok, how)
<1>1. PICK en, best, pr, p, a :
        /\ en = EnsuredAll(m) /\ best = MixedBest(en, pref, ok) /\ pr = Max(best)
        /\ p = Providers[MixedProvider(m, en, pr, pref, ok, how)]
        /\ a = MixedPick(m, en, pref, ok, how).auth
  OBVIOUS
<1>2. \A q \in ProviderSet : Fit(en[q], q, m)
  BY <1>1, EnsuredAllFacts
<1>3. /\ \A q \in ProviderSet : ReadyIn(en[q], ok) # {} => best # {}
      /\ best = {} => a = Nobody
      /\ best # {} => /\ pr \in Priorities /\ p \in ProviderSet /\ \A q \in best : pr >= q
                      /\ a \in ReadyIn(en[p], ok) /\ meta[a].priority = pr
  <2>1. PICK w : w = Given(en, pr, pref, ok)
    OBVIOUS
  <2>2. PickedWell(en, ok, best, pr, p, w, a)
    BY <1>1, <1>2, <2>1, MixedPickFacts
  <2>3. QED
    BY <2>2 DEF PickedWell
<1>4. best # {} => /\ a \in ok /\ a # Nobody /\ ~Blocked(meta[a], now)
                   /\ \E q \in ProviderSet : Serves(meta[a], q, m)
  <2>1. Nobody \notin Auths
    BY SchedulerAssumption DEF Nobody
  <2>2. QED
    BY <1>2, <1>3, <2>1 DEF ReadyIn, Fit
<1>5. ASSUME NEW b \in ok, NEW q \in ProviderSet, Usable(b, q, m)
      PROVE  a # Nobody /\ (~pref => meta[a].priority >= meta[b].priority)
  <2>1. en[q].entry[b].state = "ready" /\ meta[b].priority \in Priorities
    BY <1>2, <1>5 DEF Fit, Promoted
  <2>2. best # {}
    BY <1>3, <2>1 DEF ReadyIn
  <2>3. ASSUME ~pref PROVE pr >= meta[b].priority
    <3>1. en[q] \in ShardType /\ Indexed(en[q], meta)
      BY <1>2 DEF Fit
    <3>2. meta[b].priority \in PrioritiesWith(en[q], "all", ok)
      BY <2>1, <3>1 DEF PrioritiesWith, Indexed, ReadyAt
    <3>3. PICK x \in HighestReady(en[q], FALSE, ok) : x >= meta[b].priority
      BY <3>1, <3>2, BestOfShard
    <3>4. HighestReady(en[q], FALSE, ok) \subseteq best
      BY <1>1, <2>3 DEF MixedBest
    <3>5. pr >= x /\ pr \in Int /\ x \in Int /\ meta[b].priority \in Int
      <4>1. x \in Priorities
        BY <3>1, <3>3, BestOfShard
      <4>2. pr \in Priorities
        BY <1>3, <2>2
      <4>3. QED
        BY <1>3, <2>1, <2>2, <3>3, <3>4, <4>1, <4>2, SchedulerAssumption
    <3>6. QED
      BY <3>3, <3>5
  <2>4. QED
    BY <1>3, <1>4, <2>2, <2>3
<1>6. QED
  BY <1>1, <1>3, <1>4, <1>5 DEF MixedIsRight

(***************************************************************************)
(* Turns between providers.                                                *)
(***************************************************************************)

\* The weights in the order of the providers, and how far the cursor's slot c is
\* from the slot s, round a circle of T.
InOrder(W) == [i \in 1 .. Len(Providers) |-> W[Providers[i]]]
Ahead(c, s, T) == IF c <= s THEN s - c ELSE s + T - c

\* A provider that t turns passed by gets its own before all others have used
\* up their slots: t and the slots ahead of its segment are at most theirs.
Paid(t, c, W, i) ==
  LET w == InOrder(W)
      T == Total(w, 1 .. Len(Providers))
  IN  t # 0 => /\ w[i] > 0
               /\ t + Ahead(c % T, Total(w, 1 .. i - 1), T) <= T - w[i]

TurnsPaid(m) ==
  \A i \in 1 .. Len(Providers) : Paid(turn[m][Providers[i]], mixed[m], Weights(shards, m), i)

TurnInv ==
  /\ mixed \in [Models -> Nat] /\ turn \in [Models -> [ProviderSet -> Nat]]
  /\ \A m \in Models : TurnsPaid(m)

LEMMA OneStepCloser ==
  ASSUME NEW T \in Nat, NEW x \in 0 .. T - 1, NEW s \in Nat, NEW w \in Nat, w > 0, s + w <= T,
         ~(s <= x /\ x < s + w)
  PROVE  /\ Ahead((x + 1) % T, s, T) = Ahead(x, s, T) - 1
         /\ Ahead(x, s, T) <= T - w
<1>1. CASE x + 1 < T
  <2>1. (x + 1) % T = x + 1
    BY <1>1
  <2>2. QED
    BY <1>1, <2>1 DEF Ahead
<1>2. CASE x + 1 = T
  <2>1. (x + 1) % T = 0
    BY <1>2
  <2>2. QED
    BY <1>2, <2>1 DEF Ahead
<1>3. QED
  BY <1>1, <1>2

LEMMA AheadFacts ==
  ASSUME NEW T \in Nat, T > 0, NEW c \in Nat, NEW s \in Nat
  PROVE  Ahead(c % T, s, T) \in Nat
<1>1. c % T \in 0 .. T - 1
  OBVIOUS
<1>2. QED
  BY <1>1 DEF Ahead

LEMMA WeightsFacts ==
  ASSUME NEW sh \in [ProviderSet -> [Models -> ShardType]], NEW m \in Models
  PROVE  Weights(sh, m) \in [ProviderSet -> Nat]
<1>1. PICK top : top = UNION {PrioritiesWith(sh[p][m], "all", Auths) : p \in ProviderSet}
  OBVIOUS
<1>2. Weights(sh, m) = [p \in ProviderSet |->
         IF top = {} THEN 0 ELSE Cardinality(sh[p][m].view[Max(top)]["all"].auths)]
  BY <1>1 DEF Weights
<1>3. ASSUME NEW p \in ProviderSet, top # {}
      PROVE  Cardinality(sh[p][m].view[Max(top)]["all"].auths) \in Nat
  <2>1. top \in SUBSET Priorities
    BY <1>1 DEF PrioritiesWith
  <2>2. Max(top) \in Priorities
    <3>1. IsFiniteSet(top) /\ top \in SUBSET Int
      BY <2>1, FS_Subset, SchedulerAssumption
    <3>2. QED
      BY <1>3, <2>1, <3>1, MaxOfIntegers
  <2>3. sh[p][m] \in ShardType
    OBVIOUS
  <2>4. sh[p][m].view[Max(top)]["all"].auths \in SUBSET Auths
    BY <2>2, <2>3 DEF ShardType, ViewType, Kinds
  <2>5. QED
    BY <2>4, FS_Subset, FS_CardinalityType, SchedulerAssumption
<1>4. QED
  BY <1>2, <1>3

\* The sum over the providers, in their order or not.
LEMMA ProviderTotal ==
  ASSUME NEW W \in [ProviderSet -> Nat]
  PROVE  /\ IsFiniteSet(ProviderSet)
         /\ Total(InOrder(W), 1 .. Len(Providers)) = Total(W, ProviderSet)
<1>1. PICK n, w : n = Len(Providers) /\ w = InOrder(W)
  OBVIOUS
<1>2. /\ n \in Nat /\ DOMAIN Providers = 1 .. n
      /\ \A i \in 1 .. n : w[i] = W[Providers[i]] /\ w[i] \in Nat /\ Providers[i] \in ProviderSet
  BY <1>1, SchedulerAssumption DEF InOrder, ProviderSet
<1> DEFINE First(k) == {Providers[i] : i \in 1 .. k}
           A == {k \in Nat : k <= n => /\ IsFiniteSet(First(k))
                                       /\ Total(w, 1 .. k) = Total(W, First(k))}
<1>3. 0 \in A
  <2>1. First(0) = {} /\ 1 .. 0 = {}
    OBVIOUS
  <2>2. Total(w, {}) = 0 /\ Total(W, {}) = 0
    BY FS_EmptySet, TotalFacts
  <2>3. QED
    BY <2>1, <2>2, FS_EmptySet
<1>4. ASSUME NEW k \in A PROVE k + 1 \in A
  <2>1. SUFFICES ASSUME k + 1 <= n
                 PROVE  /\ IsFiniteSet(First(k + 1))
                        /\ Total(w, 1 .. k + 1) = Total(W, First(k + 1))
    OBVIOUS
  <2>2. k \in Nat /\ k + 1 \in 1 .. n /\ IsFiniteSet(First(k)) /\ Total(w, 1 .. k) = Total(W, First(k))
    BY <1>2, <2>1
  <2>3. PICK p : p = Providers[k + 1]
    OBVIOUS
  <2>4. /\ First(k + 1) = First(k) \cup {p} /\ p \notin First(k)
        /\ First(k + 1) \subseteq ProviderSet
    <3>1. 1 .. k + 1 = (1 .. k) \cup {k + 1} /\ \A i \in 1 .. k + 1 : i \in 1 .. n
      BY <1>2, <2>2
    <3>2. \A i \in 1 .. k : i # k + 1 /\ Providers[i] # p
      BY <1>2, <2>2, <2>3, <3>1, SchedulerAssumption
    <3>3. QED
      BY <1>2, <2>3, <3>1, <3>2
  <2>5. IsFiniteSet(First(k + 1))
    <3> HIDE DEF First
    <3>1. QED
      BY <2>2, <2>4, FS_AddElement
  <2>6. Total(W, First(k + 1)) = W[p] + Total(W, First(k))
    <3> HIDE DEF First
    <3>1. p \in First(k + 1) /\ First(k + 1) \ {p} = First(k)
      BY <2>4
    <3>2. \A q \in First(k + 1) : W[q] \in Nat
      BY <2>4
    <3>3. QED
      BY <2>5, <3>1, <3>2, TotalFacts
  <2>7. Total(w, 1 .. k + 1) = w[k + 1] + Total(w, 1 .. k)
    <3>1. (1 .. k + 1) \ {k + 1} = 1 .. k /\ k + 1 \in 1 .. k + 1
      BY <2>2
    <3>2. IsFiniteSet(1 .. k + 1) /\ \A i \in 1 .. k + 1 : w[i] \in Nat
      BY <1>2, <2>2, FS_Interval
    <3>3. QED
      BY <3>1, <3>2, TotalFacts
  <2>8. w[k + 1] = W[p]
    BY <1>2, <2>2, <2>3
  <2>9. QED
    BY <2>2, <2>5, <2>6, <2>7, <2>8
<1>5. n \in A
  <2> HIDE DEF A
  <2>1. A \in SUBSET Nat
    BY DEF A
  <2>2. QED
    BY <1>2, <1>3, <1>4, <2>1, UpTheNaturals
<1>6. First(n) = ProviderSet
  BY <1>2 DEF ProviderSet
<1>7. IsFiniteSet(First(n)) /\ Total(w, 1 .. n) = Total(W, First(n))
  BY <1>2, <1>5
<1>8. QED
  <2> HIDE DEF First
  <2>1. QED
    BY <1>1, <1>6, <1>7

\* The weights that a mixed pick sees are those the history is about.
LEMMA SameWeights ==
  ASSUME NEW m \in Models, NEW en, \A p \in ProviderSet : en[p] \in ShardType,
         MixedBest(en, FALSE, Auths) # {},
         NEW sh, \A p \in ProviderSet, pr \in Priorities :
                   sh[p][m].view[pr]["all"].auths = en[p].view[pr]["all"].auths
  PROVE  Given(en, Max(MixedBest(en, FALSE, Auths)), FALSE, Auths) = InOrder(Weights(sh, m))
<1> DEFINE with(p) == PrioritiesWith(en[p], "all", Auths)
<1>1. PICK best, top, pr :
        /\ best = MixedBest(en, FALSE, Auths) /\ pr = Max(best)
        /\ top = UNION {with(p) : p \in ProviderSet}
  OBVIOUS
<1>2. \A p \in ProviderSet : with(p) = PrioritiesWith(sh[p][m], "all", Auths)
  BY DEF PrioritiesWith
<1>3. top = UNION {PrioritiesWith(sh[p][m], "all", Auths) : p \in ProviderSet}
  BY <1>1, <1>2
<1>4. \A p \in ProviderSet :
        HighestReady(en[p], FALSE, Auths) = IF with(p) # {} THEN {Max(with(p))} ELSE {}
  BY DEF HighestReady
<1>5. \A Q \in SUBSET Priorities : Q # {} => Max(Q) \in Q /\ \A q \in Q : Max(Q) >= q
  <2>1. \A Q \in SUBSET Priorities : IsFiniteSet(Q) /\ Q \in SUBSET Int
    BY FS_Subset, SchedulerAssumption
  <2>2. QED
    BY <2>1, MaxOfIntegers
<1>6. /\ \A p \in ProviderSet : with(p) \in SUBSET Priorities /\ with(p) \subseteq top
      /\ top \in SUBSET Priorities
  BY <1>1 DEF PrioritiesWith
<1>7. best = UNION {HighestReady(en[p], FALSE, Auths) : p \in ProviderSet}
  BY <1>1 DEF MixedBest
<1>8. best \subseteq top /\ best # {} /\ top # {} /\ best \in SUBSET Priorities
  <2>1. \A p \in ProviderSet : HighestReady(en[p], FALSE, Auths) \subseteq top
    <3> HIDE DEF with
    <3>1. QED
      BY <1>4, <1>5, <1>6
  <2>2. best \subseteq top
    BY <1>7, <2>1
  <2>3. QED
    BY <1>1, <1>6, <2>2
<1>9. \A x \in top : \E y \in best : y >= x
  <2> SUFFICES ASSUME NEW x \in top PROVE \E y \in best : y >= x
    OBVIOUS
  <2>1. PICK p \in ProviderSet : x \in with(p)
    BY <1>1
  <2>2. Max(with(p)) >= x /\ Max(with(p)) \in HighestReady(en[p], FALSE, Auths)
    BY <1>4, <1>5, <1>6, <2>1
  <2>3. QED
    BY <1>7, <2>2
<1>10. Max(top) = pr
  <2>1. PICK M : M = Max(top)
    OBVIOUS
  <2>2. M \in top /\ (\A x \in top : M >= x) /\ pr \in best /\ \A y \in best : pr >= y
    BY <1>1, <1>5, <1>6, <1>8, <2>1
  <2>3. PICK y \in best : y >= M
    BY <1>9, <2>2
  <2>4. pr \in Int /\ y \in Int /\ M \in Int
    BY <1>6, <1>8, <2>2, SchedulerAssumption
  <2>5. pr >= y /\ M >= pr
    BY <1>8, <2>2
  <2>6. QED
    BY <2>1, <2>3, <2>4, <2>5
<1>11. pr \in Priorities
  BY <1>1, <1>5, <1>8
<1>12. Weights(sh, m) = [p \in ProviderSet |-> Cardinality(en[p].view[pr]["all"].auths)]
  <2>1. Weights(sh, m) = [p \in ProviderSet |-> Cardinality(sh[p][m].view[pr]["all"].auths)]
    BY <1>3, <1>8, <1>10 DEF Weights
  <2>2. QED
    BY <1>11, <2>1
<1>13. ASSUME NEW i \in 1 .. Len(Providers)
       PROVE  Given(en, pr, FALSE, Auths)[i] = InOrder(Weights(sh, m))[i]
  <2>1. PICK p \in ProviderSet : p = Providers[i]
    BY SchedulerAssumption DEF ProviderSet
  <2>2. en[p].view[pr]["all"].auths \cap Auths = en[p].view[pr]["all"].auths
    BY <1>11 DEF ShardType, ViewType, Kinds
  <2>3. Given(en, pr, FALSE, Auths)[i] = Cardinality(en[p].view[pr]["all"].auths \cap Auths)
    BY <2>1 DEF Given, Weight, ReadyCount, ViewKind
  <2>4. InOrder(Weights(sh, m))[i] = Cardinality(en[p].view[pr]["all"].auths)
    BY <1>12, <2>1 DEF InOrder
  <2>5. QED
    BY <2>2, <2>3, <2>4
<1>14. QED
  BY <1>1, <1>13 DEF Given, InOrder

\* A pick changes nothing but the cursor of the view it takes from, which it
\* leaves behind the one picked.
LEMMA PickAtViews ==
  ASSUME NEW sh \in ShardType, NEW pr \in Priorities, NEW pref, NEW ok, NEW how
  PROVE  LET r == PickAt(sh, pr, pref, ok, how)
             k == ViewKind(sh, pr, pref, ok)
         IN  /\ r.view = IF how = "fillFirst" THEN "none" ELSE k
             /\ \A q \in Priorities, l \in Kinds :
                  /\ r.shard.view[q][l].auths = sh.view[q][l].auths
                  /\ r.shard.view[q][l].cursor =
                       IF how # "fillFirst" /\ q = pr /\ l = k
                       THEN Rank(sh.view[pr][k].auths, r.auth) + 1
                       ELSE sh.view[q][l].cursor
<1>1. PICK k, v, a, c, r : /\ k = ViewKind(sh, pr, pref, ok) /\ v = sh.view[pr][k]
                           /\ a = r.auth /\ c = Rank(v.auths, a) + 1
                           /\ r = PickAt(sh, pr, pref, ok, how)
  OBVIOUS
<1>2. CASE how = "fillFirst"
  <2>1. r.shard = sh /\ r.view = "none"
    BY <1>1, <1>2 DEF PickAt, Missed
  <2>2. QED
    BY <1>1, <1>2, <2>1
<1>3. CASE how # "fillFirst"
  <2>1. a = NextInTurn(v, ok) /\ r.view = k
    BY <1>1, <1>3 DEF PickAt
  <2>2. r.shard = [sh EXCEPT !.view[pr][k].cursor = c]
    BY <1>1, <1>3, <2>1 DEF PickAt
  <2>3. k \in Kinds /\ v \in ViewType
    BY <1>1 DEF ViewKind, Kinds, ShardType
  <2>4. r.shard.view = [sh.view EXCEPT ![pr] = [sh.view[pr] EXCEPT ![k] = [v EXCEPT !.cursor = c]]]
    BY <1>1, <2>2 DEF ShardType
  <2>5. sh.view \in [Priorities -> [Kinds -> ViewType]]
    BY DEF ShardType
  <2>6. \A q \in Priorities, l \in Kinds :
          r.shard.view[q][l] = IF q = pr /\ l = k THEN [v EXCEPT !.cursor = c] ELSE sh.view[q][l]
    BY <2>3, <2>4, <2>5
  <2>7. [v EXCEPT !.cursor = c].auths = v.auths /\ [v EXCEPT !.cursor = c].cursor = c
    BY <2>3 DEF ViewType
  <2>8. QED
    BY <1>1, <1>3, <2>1, <2>6, <2>7
<1>4. QED
  BY <1>2, <1>3

\* What a mixed pick r does to the shards of its model and to its cursor.
PickDone(en, best, i, c, x, how, r) ==
  /\ best = {} => r.shards = en /\ r.provider = NoProvider /\ r.cursor = c
  /\ best # {} =>
       /\ r.provider = Providers[i]
       /\ r.cursor = IF how = "fillFirst" THEN c ELSE x + 1
  /\ \A p \in ProviderSet, q \in Priorities, l \in Kinds :
       r.shards[p].view[q][l].auths = en[p].view[q][l].auths

LEMMA MixedPickDoes ==
  ASSUME NEW m \in Models, NEW en, \A p \in ProviderSet : Fit(en[p], p, m), NEW pref \in BOOLEAN,
         NEW ok \in SUBSET Auths, NEW how \in Strategies, mixed \in [Models -> Nat],
         en = [p \in ProviderSet |-> en[p]]
  PROVE  LET best == MixedBest(en, pref, ok)
             pr   == Max(best)
         IN  PickDone(en, best, MixedProvider(m, en, pr, pref, ok, how), mixed[m],
                      MixedSlot(m, en, pr, pref, ok), how, MixedPick(m, en, pref, ok, how))
<1>1. PICK best, pr, i, x, r :
        /\ best = MixedBest(en, pref, ok) /\ pr = Max(best)
        /\ i = MixedProvider(m, en, pr, pref, ok, how) /\ x = MixedSlot(m, en, pr, pref, ok)
        /\ r = MixedPick(m, en, pref, ok, how)
  OBVIOUS
<1>2. CASE best = {}
  BY <1>1, <1>2 DEF MixedPick, PickDone
<1>3. CASE best # {}
  <2>1. PICK p : p = Providers[i]
    OBVIOUS
  <2>2. PICK w : w = Given(en, pr, pref, ok)
    OBVIOUS
  <2>3. PickedWell(en, ok, best, pr, p, w, r.auth)
    BY <1>1, <2>1, <2>2, MixedPickFacts
  <2>4. p \in ProviderSet /\ pr \in Priorities
    BY <1>3, <2>3 DEF PickedWell
  <2>5. PICK t : t = PickAt(en[p], pr, pref /\ p \in WsProviders, ok, how)
    OBVIOUS
  <2>6. /\ r.provider = p /\ r.cursor = MixedCursor(m, en, pr, pref, ok, how)
        /\ r.shards = [en EXCEPT ![p] = t.shard]
    BY <1>1, <1>3, <2>1, <2>5 DEF MixedPick
  <2>7. \A o \in ProviderSet : r.shards[o] = IF o = p THEN t.shard ELSE en[o]
    BY <2>6
  <2>8. \A q \in Priorities, l \in Kinds : t.shard.view[q][l].auths = en[p].view[q][l].auths
    BY <2>4, <2>5, PickAtViews DEF Fit
  <2>9. \A o \in ProviderSet, q \in Priorities, l \in Kinds :
          r.shards[o].view[q][l].auths = en[o].view[q][l].auths
    BY <2>7, <2>8
  <2>10. r.cursor = IF how = "fillFirst" THEN mixed[m] ELSE x + 1
    BY <1>1, <2>6 DEF MixedCursor
  <2>11. QED
    BY <1>1, <1>3, <2>1, <2>6, <2>9, <2>10 DEF PickDone
<1>4. QED
  BY <1>2, <1>3

\* The step of a turn: the provider i whose segment of w has the slot x was picked.
LEMMA PaidStep ==
  ASSUME NEW W \in [ProviderSet -> Nat], NEW i \in 1 .. Len(Providers), NEW j \in 1 .. Len(Providers),
         NEW c \in Nat, NEW t \in Nat, Paid(t, c, W, j), InOrder(W)[j] > 0, i # j,
         NEW s, Consecutive(Len(Providers), InOrder(W), s),
         NEW x, x = c % s[Len(Providers) + 1], s[i] <= x, x < s[i + 1]
  PROVE  Paid(t + 1, x + 1, W, j)
<1>1. PICK n, w, T : n = Len(Providers) /\ w = InOrder(W) /\ T = s[n + 1]
  OBVIOUS
<1>2. /\ n \in Nat /\ s \in [1 .. n + 1 -> Nat] /\ s[1] = 0
      /\ \A k \in 1 .. n : s[k + 1] = s[k] + w[k]
      /\ \A k, l \in 1 .. n + 1 : k <= l => s[k] <= s[l]
      /\ \A k \in 1 .. n + 1 : s[k] = Total(w, 1 .. k - 1)
      /\ i \in 1 .. n /\ j \in 1 .. n /\ w[j] \in Nat /\ w[j] > 0
  <2>1. Providers[j] \in ProviderSet
    BY SchedulerAssumption DEF ProviderSet
  <2>2. w[j] \in Nat /\ w[j] > 0
    BY <1>1, <2>1 DEF InOrder
  <2>3. QED
    BY <1>1, <2>2 DEF Consecutive
<1>3. /\ i \in 1 .. n + 1 /\ i + 1 \in 1 .. n + 1 /\ j \in 1 .. n + 1 /\ j + 1 \in 1 .. n + 1
      /\ n + 1 \in 1 .. n + 1 /\ i + 1 <= n + 1 /\ j + 1 <= n + 1
  BY <1>2
<1>4. /\ T \in Nat /\ s[i] \in Nat /\ s[i + 1] \in Nat /\ s[j] \in Nat /\ s[j + 1] = s[j] + w[j]
      /\ s[j + 1] <= T /\ s[i + 1] <= T
  BY <1>1, <1>2, <1>3
<1>5. T > 0
  BY <1>2, <1>4
<1>6. x = c % T /\ x \in 0 .. T - 1
  BY <1>1, <1>4, <1>5
<1>7. ~(s[j] <= x /\ x < s[j] + w[j])
  <2>1. CASE i < j
    <3>1. i + 1 <= j
      BY <2>1
    <3>2. s[i + 1] <= s[j]
      BY <1>2, <1>3, <3>1
    <3>3. x < s[i + 1] /\ x \in Int /\ s[i + 1] \in Int /\ s[j] \in Int
      BY <1>4, <1>6
    <3>4. QED
      BY <3>2, <3>3
  <2>2. CASE j < i
    <3>1. j + 1 <= i
      BY <2>2
    <3>2. s[j + 1] <= s[i]
      BY <1>2, <1>3, <3>1
    <3>3. /\ s[i] <= x /\ x \in Int /\ s[i] \in Int /\ s[j + 1] \in Int
          /\ s[j + 1] = s[j] + w[j]
      BY <1>2, <1>4, <1>6
    <3>4. QED
      BY <3>2, <3>3
  <2>3. i \in Int /\ j \in Int
    BY <1>2
  <2>4. QED
    BY <2>1, <2>2, <2>3
<1>8. Ahead((x + 1) % T, s[j], T) = Ahead(x, s[j], T) - 1 /\ Ahead(x, s[j], T) <= T - w[j]
  BY <1>2, <1>4, <1>6, <1>7, OneStepCloser
<1>9. T = Total(w, 1 .. n) /\ s[j] = Total(w, 1 .. j - 1)
  <2>1. (n + 1) - 1 = n
    BY <1>2
  <2>2. QED
    BY <1>1, <1>2, <1>3, <2>1
<1>10. t # 0 => t + Ahead(x, s[j], T) <= T - w[j]
  BY <1>1, <1>6, <1>9 DEF Paid
<1>11. (t + 1) + Ahead((x + 1) % T, s[j], T) <= T - w[j]
  <2>1. Ahead(x, s[j], T) \in Int /\ w[j] \in Nat
    <3>1. x \in Int /\ s[j] \in Int /\ T \in Int
      BY <1>4, <1>6
    <3>2. PICK b : b = s[j]
      OBVIOUS
    <3>3. Ahead(x, b, T) \in Int
      BY <3>1, <3>2 DEF Ahead
    <3>4. QED
      BY <1>2, <3>2, <3>3
  <2>2. QED
    BY <1>4, <1>8, <1>10, <2>1
<1>12. QED
  BY <1>1, <1>2, <1>9, <1>11 DEF Paid

LEMMA NoTurnPaid ==
  ASSUME NEW c, NEW W, NEW i
  PROVE  Paid(0, c, W, i)
BY DEF Paid

LEMMA InProviders ==
  /\ \A i \in 1 .. Len(Providers) : Providers[i] \in ProviderSet
  /\ \A p \in ProviderSet : \E i \in 1 .. Len(Providers) : p = Providers[i]
  /\ \A i, j \in 1 .. Len(Providers) : Providers[i] = Providers[j] => i = j
BY SchedulerAssumption DEF ProviderSet

\* A step that is not a mixed pick by turns, and one of another model.
LEMMA OtherTurns ==
  ASSUME TurnInv, NEW m \in Models, mixed'[m] = mixed[m],
         \/ turn'[m] = Turned(m, NoProvider)
         \/ turn'[m] = turn[m] /\ \A p \in ProviderSet : shards'[p][m] = shards[p][m]
  PROVE  turn'[m] \in [ProviderSet -> Nat] /\ TurnsPaid(m)'
<1>1. turn[m] \in [ProviderSet -> Nat] /\ TurnsPaid(m)
  BY DEF TurnInv
<1>2. CASE turn'[m] = Turned(m, NoProvider)
  <2>1. \A p \in ProviderSet : Turned(m, NoProvider)[p] =
          IF Weights(shards', m) # Weights(shards, m) \/ Weights(shards, m)[p] = 0 THEN 0
          ELSE turn[m][p]
    BY SchedulerAssumption DEF Turned
  <2>2. turn'[m] \in [ProviderSet -> Nat]
    BY <1>1, <1>2, <2>1 DEF Turned
  <2>3. ASSUME NEW i \in 1 .. Len(Providers)
        PROVE  Paid(turn'[m][Providers[i]], mixed'[m], Weights(shards', m), i)
    <3>1. PICK p \in ProviderSet : p = Providers[i]
      BY InProviders
    <3>2. CASE turn'[m][p] = 0
      BY <3>1, <3>2, NoTurnPaid
    <3>3. CASE turn'[m][p] # 0
      <4>1. Weights(shards', m) = Weights(shards, m) /\ turn'[m][p] = turn[m][p]
        BY <1>2, <2>1, <3>3
      <4>2. QED
        BY <1>1, <3>1, <4>1 DEF TurnsPaid
    <3>4. QED
      BY <3>2, <3>3
  <2>4. QED
    BY <2>2, <2>3 DEF TurnsPaid
<1>3. CASE turn'[m] = turn[m] /\ \A p \in ProviderSet : shards'[p][m] = shards[p][m]
  <2>1. Weights(shards', m) = Weights(shards, m)
    <3>1. PICK top : top = UNION {PrioritiesWith(shards[p][m], "all", Auths) : p \in ProviderSet}
      OBVIOUS
    <3>2. top = UNION {PrioritiesWith(shards'[p][m], "all", Auths) : p \in ProviderSet}
      BY <1>3, <3>1
    <3>3. QED
      BY <1>3, <3>1, <3>2 DEF Weights
  <2>2. QED
    BY <1>1, <1>3, <2>1 DEF TurnsPaid
<1>4. QED
  BY <1>2, <1>3

\* Where the turns are forgotten.
LEMMA NoTurnsPaid ==
  ASSUME NEW m \in Models, \A p \in ProviderSet : turn'[m][p] = 0
  PROVE  TurnsPaid(m)'
BY NoTurnPaid, InProviders DEF TurnsPaid

LEMMA MixedTurns ==
  ASSUME IInv, TurnInv, NEW m \in Models, NEW pref \in BOOLEAN, NEW ok \in SUBSET Auths,
         NEW how \in Strategies, PickMixed(m, pref, ok, how)
  PROVE  mixed'[m] \in Nat /\ turn'[m] \in [ProviderSet -> Nat] /\ TurnsPaid(m)'
<1>1. PICK en, best, pr, i, w, r :
        /\ en = EnsuredAll(m) /\ best = MixedBest(en, pref, ok) /\ pr = Max(best)
        /\ i = MixedProvider(m, en, pr, pref, ok, how) /\ w = Given(en, pr, pref, ok)
        /\ r = MixedPick(m, en, pref, ok, how)
  OBVIOUS
<1>2. /\ mixed \in [Models -> Nat] /\ turn \in [Models -> [ProviderSet -> Nat]]
      /\ shards \in [ProviderSet -> [Models -> ShardType]] /\ TurnsPaid(m)
  BY DEF TurnInv, IInv
<1>3. /\ shards' = [p \in ProviderSet |-> [shards[p] EXCEPT ![m] = r.shards[p]]]
      /\ mixed'[m] = r.cursor
      /\ turn'[m] = IF how = "roundRobin" /\ ~pref /\ ok = Auths THEN Turned(m, r.provider)
                    ELSE [p \in ProviderSet |-> 0]
  <2>1. /\ shards' = [p \in ProviderSet |-> [shards[p] EXCEPT ![m] = r.shards[p]]]
        /\ mixed' = [mixed EXCEPT ![m] = r.cursor]
        /\ turn' = [turn EXCEPT ![m] =
                      IF how = "roundRobin" /\ ~pref /\ ok = Auths THEN Turned(m, r.provider)
                      ELSE [p \in ProviderSet |-> 0]]
    BY <1>1 DEF PickMixed
  <2>2. QED
    BY <1>2, <2>1
<1>4. (\A p \in ProviderSet : Fit(en[p], p, m)) /\ en = [p \in ProviderSet |-> en[p]]
  BY <1>1, EnsuredAllFacts DEF EnsuredAll
<1>5. PickedWell(en, ok, best, pr, Providers[i], w, r.auth)
  BY <1>1, <1>2, <1>4, MixedPickFacts
<1>6. PickDone(en, best, i, mixed[m], MixedSlot(m, en, pr, pref, ok), how, r)
  BY <1>1, <1>2, <1>4, MixedPickDoes
<1>7. CASE best = {}
  <2>1. mixed'[m] = mixed[m] /\ mixed'[m] \in Nat /\ r.provider = NoProvider
    BY <1>2, <1>3, <1>6, <1>7 DEF PickDone
  <2>2. CASE how = "roundRobin" /\ ~pref /\ ok = Auths
    <3>1. turn'[m] = Turned(m, NoProvider)
      BY <1>3, <2>1, <2>2
    <3>2. QED
      BY <2>1, <3>1, OtherTurns
  <2>3. CASE ~(how = "roundRobin" /\ ~pref /\ ok = Auths)
    <3>1. turn'[m] \in [ProviderSet -> Nat] /\ \A p \in ProviderSet : turn'[m][p] = 0
      BY <1>3, <2>3
    <3>2. QED
      BY <2>1, <3>1, NoTurnsPaid
  <2>4. QED
    BY <2>2, <2>3
<1>8. CASE best # {}
  <2>1. PICK s, x : s = Starts(en, pr, pref, ok) /\ x = MixedSlot(m, en, pr, pref, ok)
    OBVIOUS
  <2>2. w \in [1 .. Len(Providers) -> Nat] /\ \E j \in 1 .. Len(Providers) : w[j] > 0
    BY <1>5, <1>8 DEF PickedWell
  <2>3. Consecutive(Len(Providers), w, s)
    BY <1>1, <2>1, <2>2, SegmentFacts
  <2>4. SlotFound(Len(Providers), w, s, i, mixed[m], x, how)
    BY <1>1, <1>2, <2>1, <2>2, MixedProviderFacts
  <2>5. /\ i \in 1 .. Len(Providers) /\ x \in Nat
        /\ r.provider = Providers[i] /\ r.cursor = IF how = "fillFirst" THEN mixed[m] ELSE x + 1
        /\ mixed'[m] = (IF how = "fillFirst" THEN mixed[m] ELSE x + 1) /\ mixed'[m] \in Nat
    BY <1>2, <1>3, <1>6, <1>8, <2>1, <2>4 DEF SlotFound, PickDone
  <2>6. CASE how = "roundRobin" /\ ~pref /\ ok = Auths
    <3>1. PICK W : W = Weights(shards, m)
      OBVIOUS
    <3>2. turn'[m] = Turned(m, Providers[i]) /\ mixed'[m] = x + 1
      BY <1>3, <2>5, <2>6
    <3>3. \A p \in ProviderSet : turn'[m][p] =
            IF Weights(shards', m) # W \/ p = Providers[i] \/ W[p] = 0 THEN 0
            ELSE turn[m][p] + 1
      BY <2>5, <3>1, <3>2, InProviders, SchedulerAssumption DEF Turned
    <3>4. turn'[m] \in [ProviderSet -> Nat]
      <4>1. \A p \in ProviderSet : turn'[m][p] \in Nat
        BY <1>2, <3>3
      <4>2. QED
        BY <3>2, <4>1 DEF Turned
    <3>5. w = InOrder(Weights(shards', m))
      <4>1. \A p \in ProviderSet, q \in Priorities :
              shards'[p][m].view[q]["all"].auths = en[p].view[q]["all"].auths
        <5>1. \A p \in ProviderSet : shards'[p][m] = r.shards[p]
          BY <1>2, <1>3
        <5>2. QED
          BY <1>6, <5>1 DEF PickDone, Kinds
      <4>2. \A p \in ProviderSet : en[p] \in ShardType
        BY <1>4 DEF Fit
      <4>3. pref = FALSE /\ ok = Auths
        BY <2>6
      <4>4. PICK sh : sh = shards'
        OBVIOUS
      <4>5. best = MixedBest(en, FALSE, Auths) /\ w = Given(en, Max(best), FALSE, Auths)
        BY <1>1, <4>3
      <4>6. w = InOrder(Weights(sh, m))
        <5>1. \A p \in ProviderSet, q \in Priorities :
                sh[p][m].view[q]["all"].auths = en[p].view[q]["all"].auths
          BY <4>1, <4>4
        <5>2. MixedBest(en, FALSE, Auths) # {}
          BY <1>8, <4>5
        <5>3. Given(en, Max(MixedBest(en, FALSE, Auths)), FALSE, Auths) = InOrder(Weights(sh, m))
          BY <4>2, <5>1, <5>2, SameWeights
        <5>4. QED
          BY <4>5, <5>3, Zenon
      <4>7. QED
        BY <4>4, <4>6
    <3>6. ASSUME NEW j \in 1 .. Len(Providers)
          PROVE  Paid(turn'[m][Providers[j]], mixed'[m], Weights(shards', m), j)
      <4>1. PICK p \in ProviderSet : p = Providers[j]
        BY InProviders
      <4>2. CASE turn'[m][p] = 0
        BY <4>1, <4>2, NoTurnPaid
      <4>3. CASE turn'[m][p] # 0
        <5>1. /\ Weights(shards', m) = W /\ p # Providers[i] /\ W[p] # 0
              /\ turn'[m][p] = turn[m][p] + 1 /\ turn[m][p] \in Nat /\ mixed[m] \in Nat
          BY <1>2, <3>3, <4>3
        <5>2. W \in [ProviderSet -> Nat]
          BY <1>2, <3>1, WeightsFacts
        <5>3. InOrder(W)[j] > 0 /\ i # j
          BY <4>1, <5>1, <5>2 DEF InOrder
        <5>4. Paid(turn[m][p], mixed[m], W, j)
          BY <1>2, <3>1, <4>1 DEF TurnsPaid
        <5>5. Consecutive(Len(Providers), InOrder(W), s)
          BY <2>3, <3>5, <5>1
        <5>6. Paid(turn[m][p] + 1, x + 1, W, j)
          <6>1. x = mixed[m] % s[Len(Providers) + 1] /\ s[i] <= x /\ x < s[i + 1]
            BY <2>4, <2>6 DEF SlotFound
          <6>2. QED
            BY <2>5, <5>1, <5>2, <5>3, <5>4, <5>5, <6>1, PaidStep
        <5>7. QED
          BY <3>2, <4>1, <5>1, <5>6
      <4>4. QED
        BY <4>2, <4>3
    <3>7. QED
      BY <2>5, <3>4, <3>6 DEF TurnsPaid
  <2>7. CASE ~(how = "roundRobin" /\ ~pref /\ ok = Auths)
    <3>1. turn'[m] \in [ProviderSet -> Nat] /\ \A p \in ProviderSet : turn'[m][p] = 0
      BY <1>3, <2>7
    <3>2. QED
      BY <2>5, <3>1, NoTurnsPaid
  <2>8. QED
    BY <2>6, <2>7
<1>9. QED
  BY <1>7, <1>8

LEMMA InitTurnInv == Init => TurnInv
<1> SUFFICES ASSUME Init PROVE TurnInv
  OBVIOUS
<1>1. /\ mixed = [m \in Models |-> 0]
      /\ turn = [m \in Models |-> [p \in ProviderSet |-> 0]]
  BY DEF Init, NoTurns
<1>2. \A m \in Models : TurnsPaid(m)
  BY <1>1, NoTurnPaid, InProviders DEF TurnsPaid
<1>3. QED
  BY <1>1, <1>2 DEF TurnInv

\* Steps that touch one model at most, or none by turns.
LEMMA TurnInvOf ==
  ASSUME TurnInv, mixed' \in [Models -> Nat], turn' = [l \in Models |-> turn'[l]],
         \A m \in Models : turn'[m] \in [ProviderSet -> Nat] /\ TurnsPaid(m)'
  PROVE  TurnInv'
<1>1. turn' \in [Models -> [ProviderSet -> Nat]]
  OBVIOUS
<1>2. QED
  BY <1>1 DEF TurnInv

LEMMA NextTurnInv == IInv /\ TurnInv /\ [Next]_vars => TurnInv'
<1> SUFFICES ASSUME IInv, TurnInv, [Next]_vars PROVE TurnInv'
  OBVIOUS
<1>1. /\ mixed \in [Models -> Nat] /\ turn \in [Models -> [ProviderSet -> Nat]]
      /\ shards \in [ProviderSet -> [Models -> ShardType]]
  BY DEF TurnInv, IInv
<1>2. ASSUME NEW a \in Auths, NEW s \in Snapshots[a], Upsert(a, s) PROVE TurnInv'
  <2>1. mixed' = mixed /\ turn' = [m \in Models |-> Turned(m, NoProvider)]
    BY <1>2 DEF Upsert
  <2>2. \A m \in Models : turn'[m] = Turned(m, NoProvider) /\ mixed'[m] = mixed[m]
    BY <2>1
  <2>3. \A m \in Models : turn'[m] \in [ProviderSet -> Nat] /\ TurnsPaid(m)'
    BY <2>2, OtherTurns
  <2>4. QED
    BY <1>1, <2>1, <2>3, TurnInvOf
<1>3. ASSUME turn' = NoTurns, mixed' = [m \in Models |-> 0] PROVE TurnInv'
  <2>1. \A m \in Models : turn'[m] \in [ProviderSet -> Nat] /\ \A p \in ProviderSet : turn'[m][p] = 0
    BY <1>3 DEF NoTurns
  <2>2. turn' = [m \in Models |-> turn'[m]]
    BY <1>3 DEF NoTurns
  <2>3. \A m \in Models : TurnsPaid(m)'
    BY <2>1, NoTurnsPaid
  <2>4. QED
    BY <1>3, <2>1, <2>2, <2>3, TurnInvOf
<1>4. CASE Rebuild
  BY <1>3, <1>4 DEF Rebuild
<1>5. CASE SetSelector
  BY <1>3, <1>5 DEF SetSelector
<1>6. ASSUME NEW m \in Models, NEW ok \in SUBSET Auths, NEW how \in Strategies,
             NEW p \in ProviderSet, NEW pref \in Preferences(p), PickSingle(p, m, pref, ok, how)
      PROVE  TurnInv'
  <2>1. PICK sh : /\ shards' = [shards EXCEPT ![p][m] = sh] /\ mixed' = mixed
                  /\ turn' = [turn EXCEPT ![m] = Turned(m, NoProvider)]
    BY <1>6 DEF PickSingle
  <2>2. turn'[m] = Turned(m, NoProvider)
    BY <1>1, <2>1
  <2>3. \A l \in Models \ {m} :
          turn'[l] = turn[l] /\ \A q \in ProviderSet : shards'[q][l] = shards[q][l]
    BY <1>1, <2>1
  <2>4. \A l \in Models : turn'[l] \in [ProviderSet -> Nat] /\ TurnsPaid(l)'
    BY <2>1, <2>2, <2>3, OtherTurns
  <2>5. turn' = [l \in Models |-> turn'[l]]
    BY <1>1, <2>1
  <2>6. QED
    BY <1>1, <2>1, <2>4, <2>5, TurnInvOf
<1>7. ASSUME NEW m \in Models, NEW ok \in SUBSET Auths, NEW how \in Strategies,
             NEW pref \in BOOLEAN, PickMixed(m, pref, ok, how)
      PROVE  TurnInv'
  <2>1. PICK r, t : /\ shards' = [p \in ProviderSet |-> [shards[p] EXCEPT ![m] = r.shards[p]]]
                    /\ mixed' = [mixed EXCEPT ![m] = r.cursor]
                    /\ turn' = [turn EXCEPT ![m] = t]
    <3>1. PICK r : /\ shards' = [p \in ProviderSet |-> [shards[p] EXCEPT ![m] = r.shards[p]]]
                   /\ mixed' = [mixed EXCEPT ![m] = r.cursor]
                   /\ turn' = [turn EXCEPT ![m] =
                                 IF how = "roundRobin" /\ ~pref /\ ok = Auths
                                 THEN Turned(m, r.provider) ELSE [p \in ProviderSet |-> 0]]
      BY <1>7, Zenon DEF PickMixed
    <3>2. QED
      BY <3>1, Zenon
  <2>2. mixed'[m] \in Nat /\ turn'[m] \in [ProviderSet -> Nat] /\ TurnsPaid(m)'
    BY <1>7, MixedTurns
  <2>3. \A l \in Models \ {m} :
          /\ turn'[l] = turn[l] /\ mixed'[l] = mixed[l]
          /\ \A q \in ProviderSet : shards'[q][l] = shards[q][l]
    BY <1>1, <2>1
  <2>4. \A l \in Models : turn'[l] \in [ProviderSet -> Nat] /\ TurnsPaid(l)'
    BY <2>2, <2>3, OtherTurns
  <2>5. turn' = [l \in Models |-> turn'[l]] /\ mixed' \in [Models -> Nat]
    BY <1>1, <2>1, <2>2
  <2>6. QED
    BY <2>4, <2>5, TurnInvOf
<1>8. CASE Tick
  BY <1>8 DEF Tick, TurnInv, TurnsPaid
<1>9. CASE UNCHANGED vars
  BY <1>9 DEF vars, TurnInv, TurnsPaid
<1>10. QED
  BY <1>2, <1>4, <1>5, <1>6, <1>7, <1>8, <1>9 DEF Next

LEMMA TurnsRight == Spec => []TurnInv
<1>1. QED
  BY InitTurnInv, NextTurnInv, ShardsRight, PTL DEF Spec

\* A request to all providers is always given a credential that serves its
\* model and is not blocked, never misses one that waits for nothing and, unless
\* it prefers websockets, gets the best priority of all.
THEOREM MixedPicksRight == Spec => []MixedPickIsRight
<1>1. IInv /\ TurnInv => MixedPickIsRight
  BY MixedRight DEF MixedPickIsRight, TurnInv
<1>2. QED
  BY <1>1, ShardsRight, TurnsRight, PTL

\* While the weights stay the same, the others are never picked more often between two
\* mixed picks of a provider than they have candidates, wherever the cursor was left.
THEOREM MixedAlwaysFair == Spec => []MixedFair
<1>1. ASSUME IInv, TurnInv, NEW m \in Models, NEW p \in ProviderSet
      PROVE  turn[m][p] <= MapThenSumSet(LAMBDA q : Weights(shards, m)[q], ProviderSet \ {p})
  <2>1. PICK W, t, i : /\ W = Weights(shards, m) /\ t = turn[m][p]
                       /\ i \in 1 .. Len(Providers) /\ p = Providers[i]
    BY InProviders
  <2>2. PICK w, T, c : w = InOrder(W) /\ T = Total(w, 1 .. Len(Providers)) /\ c = mixed[m]
    OBVIOUS
  <2>3. /\ W \in [ProviderSet -> Nat] /\ t \in Nat /\ c \in Nat /\ Paid(t, c, W, i)
    BY <1>1, <2>1, <2>2, WeightsFacts DEF IInv, TurnInv, TurnsPaid
  <2>4. IsFiniteSet(ProviderSet) /\ T = Total(W, ProviderSet) /\ w[i] = W[p]
    BY <2>1, <2>2, <2>3, ProviderTotal DEF InOrder
  <2>5. T = W[p] + Total(W, ProviderSet \ {p}) /\ W[p] \in Nat
    BY <1>1, <2>3, <2>4, TotalFacts
  <2>6. Total(W, ProviderSet \ {p}) \in Nat
    <3>1. IsFiniteSet(ProviderSet \ {p}) /\ \A q \in ProviderSet \ {p} : W[q] \in Nat
      BY <2>3, <2>4, FS_RemoveElement
    <3>2. QED
      BY <3>1, TotalFacts
  <2>7. t <= Total(W, ProviderSet \ {p})
    <3>1. CASE t = 0
      BY <2>6, <3>1
    <3>2. CASE t # 0
      <4>1. PICK s : s = Total(w, 1 .. i - 1)
        OBVIOUS
      <4>2. w[i] > 0 /\ t + Ahead(c % T, s, T) <= T - w[i]
        BY <2>2, <2>3, <3>2, <4>1 DEF Paid
      <4>3. s \in Nat
        <5>1. IsFiniteSet(1 .. i - 1) /\ \A j \in 1 .. i - 1 : j \in 1 .. Len(Providers)
          <6>1. Len(Providers) \in Nat /\ i \in Int /\ i - 1 \in Int
            BY <2>1, SchedulerAssumption
          <6>2. IsFiniteSet(1 .. i - 1)
            BY <6>1, FS_Interval
          <6>3. \A j \in 1 .. i - 1 : j \in 1 .. Len(Providers)
            BY <2>1, <6>1
          <6>4. QED
            BY <6>2, <6>3
        <5>2. \A j \in 1 .. i - 1 : w[j] \in Nat
          BY <2>2, <2>3, <5>1, InProviders DEF InOrder
        <5>3. QED
          BY <4>1, <5>1, <5>2, TotalFacts
      <4>4. T \in Nat /\ T > 0
        BY <2>4, <2>5, <2>6, <4>2
      <4>5. Ahead(c % T, s, T) \in Nat
        BY <2>3, <4>3, <4>4, AheadFacts
      <4>6. QED
        BY <2>3, <2>4, <2>5, <2>6, <4>2, <4>4, <4>5
    <3>3. QED
      BY <3>1, <3>2
  <2>8. MapThenSumSet(LAMBDA q : Weights(shards, m)[q], ProviderSet \ {p})
          = Total(Weights(shards, m), ProviderSet \ {p})
    BY Zenon DEF Total
  <2>9. QED
    BY <2>1, <2>7, <2>8
<1>2. IInv /\ TurnInv => MixedFair
  BY <1>1 DEF MixedFair
<1>3. QED
  BY <1>2, ShardsRight, TurnsRight, PTL

(***************************************************************************)
(* The rotation within a view.                                             *)
(***************************************************************************)

\* Where the cursor of a view points, and how many b is from being next.
Place(v) == v.cursor % Cardinality(v.auths)
Gap(v, b) ==
  LET n == Cardinality(v.auths) IN (Rank(v.auths, b) + n - (v.cursor % n)) % n

LEMMA RankFacts ==
  ASSUME NEW S \in SUBSET Auths, NEW b \in S
  PROVE  /\ Cardinality(S) \in Nat /\ Cardinality(S) > 0
         /\ Rank(S, b) \in 0 .. Cardinality(S) - 1
         /\ \A c \in S : c < b => Rank(S, c) < Rank(S, b)
<1>1. IsFiniteSet(S) /\ Cardinality(S) \in Nat /\ Cardinality(S) > 0
  <2>1. IsFiniteSet(S) /\ S # {}
    BY FS_Subset, SchedulerAssumption
  <2>2. QED
    BY <2>1, FS_CardinalityType, FS_EmptySet
<1>2. \A c \in S : c \in Nat
  BY SchedulerAssumption
<1>3. ASSUME NEW U \in SUBSET S, NEW T \in SUBSET U, NEW x \in U, x \notin T
      PROVE  Cardinality(T) \in Nat /\ Cardinality(T) < Cardinality(U)
  <2>1. IsFiniteSet(U) /\ IsFiniteSet(T)
    BY <1>1, FS_Subset
  <2>2. /\ Cardinality(T) \in Nat /\ Cardinality(U) \in Nat /\ Cardinality(T) <= Cardinality(U)
        /\ (Cardinality(U) = Cardinality(T) => U = T)
    BY <2>1, FS_Subset, FS_CardinalityType
  <2>3. QED
    BY <1>3, <2>2
<1>4. Rank(S, b) \in Nat /\ Rank(S, b) < Cardinality(S)
  <2>1. PICK T : T = {c \in S : c < b}
    OBVIOUS
  <2>2. T \in SUBSET S /\ b \notin T /\ S \in SUBSET S
    BY <1>2, <2>1
  <2>3. Cardinality(T) \in Nat /\ Cardinality(T) < Cardinality(S)
    BY <1>3, <2>2
  <2>4. QED
    BY <2>1, <2>3 DEF Rank
<1>5. ASSUME NEW c \in S, c < b PROVE Rank(S, c) < Rank(S, b)
  <2>1. PICK T, U : T = {d \in S : d < c} /\ U = {d \in S : d < b}
    OBVIOUS
  <2>2. U \in SUBSET S /\ T \in SUBSET U /\ c \in U /\ c \notin T
    BY <1>2, <1>5, <2>1
  <2>3. QED
    BY <1>3, <2>1, <2>2 DEF Rank
<1>6. QED
  BY <1>1, <1>4, <1>5

LEMMA GapFacts ==
  ASSUME NEW v \in ViewType, NEW b \in v.auths
  PROVE  /\ Cardinality(v.auths) \in Nat /\ Cardinality(v.auths) > 0
         /\ Place(v) \in 0 .. Cardinality(v.auths) - 1
         /\ Rank(v.auths, b) \in 0 .. Cardinality(v.auths) - 1
         /\ Gap(v, b) = IF Rank(v.auths, b) >= Place(v) THEN Rank(v.auths, b) - Place(v)
                        ELSE Rank(v.auths, b) + Cardinality(v.auths) - Place(v)
         /\ Gap(v, b) \in 0 .. Cardinality(v.auths) - 1
<1>1. PICK n, r, c : n = Cardinality(v.auths) /\ r = Rank(v.auths, b) /\ c = v.cursor % n
  OBVIOUS
<1>2. n \in Nat /\ n > 0 /\ r \in 0 .. n - 1 /\ v.cursor \in Nat
  BY <1>1, RankFacts DEF ViewType
<1>3. c \in 0 .. n - 1
  BY <1>1, <1>2
<1>4. Gap(v, b) = (r + n - c) % n
  BY <1>1 DEF Gap
<1>5. (r + n - c) % n = IF r >= c THEN r - c ELSE r + n - c
  <2>1. CASE r >= c
    <3>1. PICK x : x = r - c
      OBVIOUS
    <3>2. x \in 0 .. n - 1 /\ r + n - c = x + n
      BY <1>2, <1>3, <2>1, <3>1
    <3>3. (x + n) % n = x
      BY <1>2, <3>2
    <3>4. QED
      BY <2>1, <3>1, <3>2, <3>3
  <2>2. CASE ~(r >= c)
    <3>1. r + n - c \in 0 .. n - 1
      BY <1>2, <1>3, <2>2
    <3>2. (r + n - c) % n = r + n - c
      BY <1>2, <3>1
    <3>3. QED
      BY <2>2, <3>2
  <2>3. QED
    BY <2>1, <2>2
<1>6. Gap(v, b) \in 0 .. n - 1
  BY <1>2, <1>3, <1>4, <1>5
<1>7. QED
  BY <1>1, <1>2, <1>3, <1>4, <1>5, <1>6 DEF Place

LEMMA SamePlace ==
  ASSUME NEW v \in ViewType, NEW w \in ViewType, w.auths = v.auths, Place(w) = Place(v),
         NEW b \in v.auths
  PROVE  Gap(w, b) = Gap(v, b)
BY GapFacts

\* When a is passed, those behind it come closer.
LEMMA ComesCloser ==
  ASSUME NEW v \in ViewType, NEW w \in ViewType, w.auths = v.auths, NEW a \in v.auths,
         w.cursor = Rank(v.auths, a) + 1, NEW b \in v.auths, b # a, Gap(v, a) <= Gap(v, b)
  PROVE  Gap(w, b) < Gap(v, b)
<1>1. PICK n, ra, rb, c, d :
        /\ n = Cardinality(v.auths) /\ ra = Rank(v.auths, a) /\ rb = Rank(v.auths, b)
        /\ c = Place(v) /\ d = Place(w)
  OBVIOUS
<1>2. /\ n \in Nat /\ n > 0 /\ c \in 0 .. n - 1 /\ d \in 0 .. n - 1
      /\ ra \in 0 .. n - 1 /\ rb \in 0 .. n - 1
      /\ Gap(v, a) = (IF ra >= c THEN ra - c ELSE ra + n - c)
      /\ Gap(v, b) = (IF rb >= c THEN rb - c ELSE rb + n - c)
      /\ Gap(w, b) = (IF rb >= d THEN rb - d ELSE rb + n - d)
  BY <1>1, GapFacts
<1>3. ra # rb
  <2>1. a \in Nat /\ b \in Nat /\ v.auths \in SUBSET Auths
    BY SchedulerAssumption DEF ViewType
  <2>2. CASE a < b
    BY <1>1, <1>2, <2>1, <2>2, RankFacts
  <2>3. CASE b < a
    BY <1>1, <1>2, <2>1, <2>3, RankFacts
  <2>4. QED
    BY <2>1, <2>2, <2>3
<1>4. d = IF ra + 1 = n THEN 0 ELSE ra + 1
  <2>1. d = (ra + 1) % n
    BY <1>1 DEF Place
  <2>2. CASE ra + 1 = n
    BY <1>2, <2>1, <2>2
  <2>3. CASE ra + 1 # n
    <3>1. ra + 1 \in 0 .. n - 1
      BY <1>2, <2>3
    <3>2. QED
      BY <1>2, <2>1, <2>3, <3>1
  <2>4. QED
    BY <2>2, <2>3
<1>5. QED
  BY <1>2, <1>3, <1>4

LEMMA TakesNext ==
  ASSUME NEW v \in ViewType, NEW ok, v.auths \cap ok # {}
  PROVE  /\ NextInTurn(v, ok) \in v.auths \cap ok
         /\ \A b \in v.auths \cap ok : Gap(v, NextInTurn(v, ok)) <= Gap(v, b)
<1>1. PICK f : f = [b \in v.auths \cap ok |-> Gap(v, b)]
  OBVIOUS
<1>2. f \in [v.auths \cap ok -> Nat]
  BY <1>1, GapFacts
<1>3. \E a \in v.auths \cap ok : \A b \in v.auths \cap ok : f[a] <= f[b]
  BY <1>2, LeastValue
<1>4. \E a \in v.auths \cap ok : \A b \in v.auths \cap ok : Gap(v, a) <= Gap(v, b)
  BY <1>1, <1>3
<1>5. NextInTurn(v, ok) =
        CHOOSE a \in v.auths \cap ok : \A b \in v.auths \cap ok : Gap(v, a) <= Gap(v, b)
  BY Zenon DEF NextInTurn, Gap
<1>6. QED
  BY <1>4, <1>5

(***************************************************************************)
(* What keeps the place of a rotation.                                     *)
(***************************************************************************)

\* A view that keeps its credentials keeps its place.
Steady(sh, new) ==
  \A pr \in Priorities :
    LET v == sh.view[pr]["all"]
        w == new.view[pr]["all"]
    IN  w.auths = v.auths /\ v.auths # {} => Place(w) = Place(v)

LEMMA ReindexSteady ==
  ASSUME NEW sh \in ShardType, NEW up \in ShardType, up.view = sh.view, NEW md
  PROVE  Steady(sh, Reindex(up, md))
<1> SUFFICES ASSUME NEW pr \in Priorities, NEW v, v = sh.view[pr]["all"],
                    NEW w, w = Reindex(up, md).view[pr]["all"], w.auths = v.auths, v.auths # {}
             PROVE  Place(w) = Place(v)
  BY DEF Steady
<1>1. PICK n : n = Cardinality(v.auths)
  OBVIOUS
<1>2. v \in ViewType
  BY DEF ShardType, Kinds
<1>3. w.cursor = v.cursor % n
  <2>1. PICK S : S = {a \in Auths : up.entry[a].state = "ready" /\ md[a].priority = pr}
    OBVIOUS
  <2>2. PICK M : M = {a \in S : "all" = "ws" => md[a].ws}
    OBVIOUS
  <2>3. w = [auths |-> M, cursor |-> IF M = {} THEN 0 ELSE v.cursor % Cardinality(M)]
    BY <2>1, <2>2 DEF Reindex, ShardType
  <2>4. M = v.auths
    BY <2>3
  <2>5. QED
    BY <1>1, <2>3, <2>4
<1>4. n \in Nat /\ n > 0 /\ v.cursor \in Nat
  BY <1>1, <1>2, GapFacts DEF ViewType
<1>5. (v.cursor % n) % n = v.cursor % n
  <2>1. v.cursor % n \in 0 .. n - 1
    BY <1>4
  <2>2. \A x \in 0 .. n - 1 : x % n = x
    BY <1>4
  <2>3. QED
    BY <2>1, <2>2
<1>6. QED
  BY <1>1, <1>3, <1>5 DEF Place

LEMMA SelfSteady ==
  ASSUME NEW sh
  PROVE  Steady(sh, sh)
BY DEF Steady

LEMMA UpdatedSteady ==
  ASSUME IInv, NEW a \in Auths, NEW s \in Snapshot, NEW p \in ProviderSet, NEW m \in Models,
         NEW md \in MetaType, md[a] = s \/ s.disabled
  PROVE  Steady(shards[p][m], UpdatedShard(a, s, md, p, m))
<1>1. PICK sh, r : sh = shards[p][m] /\ r = UpdatedShard(a, s, md, p, m)
  OBVIOUS
<1>2. sh \in ShardType /\ now \in Nat
  BY <1>1 DEF IInv
<1>3. ASSUME NEW e \in EntryType, NEW up, up = [sh EXCEPT !.entry[a] = e]
      PROVE  Steady(sh, up) /\ Steady(sh, Reindex(up, md))
  <2>1. up.view = sh.view /\ up \in ShardType
    BY <1>2, <1>3 DEF ShardType
  <2>2. Steady(sh, up)
    BY <2>1 DEF Steady
  <2>3. QED
    BY <1>2, <2>1, <2>2, ReindexSteady
<1>4. CASE s.disabled \/ ~Serves(s, p, m)
  <2>1. r = RemoveEntry(sh, a, md)
    BY <1>1, <1>4 DEF UpdatedShard
  <2>2. NoEntry \in EntryType
    BY DEF NoEntry, EntryType
  <2>3. r = sh \/ r = Reindex([sh EXCEPT !.entry[a] = NoEntry], md)
    BY <2>1 DEF RemoveEntry
  <2>4. QED
    BY <1>1, <1>3, <2>2, <2>3, SelfSteady
<1>5. CASE ~s.disabled /\ Serves(s, p, m) /\ sh.built
  <2>1. r = UpsertEntry(sh, a, md)
    BY <1>1, <1>5 DEF UpdatedShard
  <2>2. PICK e : e = EntryAt(md[a], now)
    OBVIOUS
  <2>3. e \in EntryType
    BY <1>2, <2>2, EntryAtFacts DEF MetaType
  <2>4. r = [sh EXCEPT !.entry[a] = e] \/ r = Reindex([sh EXCEPT !.entry[a] = e], md)
    BY <2>1, <2>2 DEF UpsertEntry
  <2>5. QED
    BY <1>1, <1>3, <2>3, <2>4
<1>6. CASE ~s.disabled /\ Serves(s, p, m) /\ ~sh.built
  <2>1. r = sh
    BY <1>1, <1>6 DEF UpdatedShard
  <2>2. QED
    BY <1>1, <2>1, SelfSteady
<1>7. QED
  BY <1>4, <1>5, <1>6

LEMMA EnsuredSteady ==
  ASSUME IInv, NEW p \in ProviderSet, NEW m \in Models
  PROVE  Steady(shards[p][m], Ensured(p, m))
<1>1. PICK sh, r : sh = shards[p][m] /\ r = Ensured(p, m)
  OBVIOUS
<1>2. /\ sh \in ShardType /\ now \in Nat /\ Indexed(sh, meta) /\ HeldRight(sh, p, m, meta, now)
      /\ \A a \in Auths : meta[a] \in Snapshot \cup {NoMeta}
  BY <1>1 DEF IInv, ShardRight, MetaType
<1>3. CASE p \notin known
  BY <1>1, <1>3, SelfSteady DEF Ensured
<1>4. CASE p \in known /\ sh.built
  <2>1. r = Promote(sh)
    BY <1>1, <1>4 DEF Ensured
  <2>2. PICK over, up :
          /\ over = {a \in sh.blocked : sh.entry[a].next # 0 /\ sh.entry[a].next <= now}
          /\ up = [sh EXCEPT !.entry = [a \in Auths |->
                     IF a \in over THEN EntryAt(meta[a], now) ELSE sh.entry[a]]]
    OBVIOUS
  <2>3. r = sh \/ r = Reindex(up, meta)
    BY <2>1, <2>2 DEF Promote
  <2>4. up.view = sh.view /\ up \in ShardType
    <3>1. \A a \in Auths : EntryAt(meta[a], now) \in EntryType
      BY <1>2, EntryAtFacts
    <3>2. QED
      BY <1>2, <2>2, <3>1 DEF ShardType
  <2>5. QED
    BY <1>1, <1>2, <2>3, <2>4, SelfSteady, ReindexSteady
<1>5. CASE p \in known /\ ~sh.built
  <2>1. NoEntry.state # "ready"
    BY DEF NoEntry
  <2>2. \A a \in Auths : sh.entry[a] = NoEntry
    BY <1>2, <1>5 DEF HeldRight, EntryHeld
  <2>3. \A pr \in Priorities : sh.view[pr]["all"].auths = {}
    BY <1>2, <2>1, <2>2 DEF Indexed, ReadyAt
  <2>4. QED
    BY <1>1, <2>3 DEF Steady
<1>6. QED
  BY <1>3, <1>4, <1>5

\* A credential is in one view at most, that of its provider and priority, and
\* takes turns with those in it.
InOneView(sh, m, md, b) ==
  /\ \A p \in ProviderSet, pr \in Priorities : b \in sh[p][m].view[pr]["all"].auths =>
       /\ p = md[b].provider /\ pr = md[b].priority
       /\ Circle(sh, m, b) = sh[p][m].view[pr]["all"].auths
  /\ \A c \in Circle(sh, m, b) : \E p \in ProviderSet, pr \in Priorities :
       b \in sh[p][m].view[pr]["all"].auths

LEMMA CircleFacts ==
  ASSUME NEW sh, NEW m \in Models, NEW md, NEW t,
         \A p \in ProviderSet : ShardRight(sh[p][m], p, m, md, t), NEW b \in Auths
  PROVE  InOneView(sh, m, md, b)
<1>1. PICK views :
        views = {sh[x[1]][m].view[x[2]]["all"].auths : x \in ProviderSet \X Priorities}
  OBVIOUS
<1>2. Circle(sh, m, b) = UNION {v \in views : b \in v}
  BY <1>1 DEF Circle
<1>3. \A v \in views : \E p \in ProviderSet, pr \in Priorities :
        v = sh[p][m].view[pr]["all"].auths
  BY <1>1
<1>4. \A p \in ProviderSet, pr \in Priorities : sh[p][m].view[pr]["all"].auths \in views
  <2> SUFFICES ASSUME NEW p \in ProviderSet, NEW pr \in Priorities
               PROVE  sh[p][m].view[pr]["all"].auths \in views
    OBVIOUS
  <2>1. PICK x : x = <<p, pr>>
    OBVIOUS
  <2>2. x \in ProviderSet \X Priorities /\ x[1] = p /\ x[2] = pr
    BY <2>1
  <2>3. QED
    BY <1>1, <2>2
<1>5. ASSUME NEW p \in ProviderSet, NEW pr \in Priorities, b \in sh[p][m].view[pr]["all"].auths
      PROVE  p = md[b].provider /\ pr = md[b].priority
  <2>1. ShardRight(sh[p][m], p, m, md, t)
    OBVIOUS
  <2>2. sh[p][m].entry[b].state = "ready" /\ md[b].priority = pr
    BY <1>5, <2>1 DEF ShardRight, Indexed, ReadyAt
  <2>3. NoEntry.state # "ready"
    BY DEF NoEntry
  <2>4. Serves(md[b], p, m)
    BY <2>1, <2>2, <2>3 DEF ShardRight, HeldRight, EntryHeld
  <2>5. QED
    BY <2>2, <2>4 DEF Serves
<1>6. ASSUME NEW p \in ProviderSet, NEW pr \in Priorities, b \in sh[p][m].view[pr]["all"].auths
      PROVE  Circle(sh, m, b) = sh[p][m].view[pr]["all"].auths
  <2>1. \A v \in views : b \in v => v = sh[p][m].view[pr]["all"].auths
    BY <1>3, <1>5, <1>6
  <2>2. QED
    BY <1>2, <1>4, <1>6, <2>1
<1>7. \A c \in Circle(sh, m, b) : \E p \in ProviderSet, pr \in Priorities :
        b \in sh[p][m].view[pr]["all"].auths
  BY <1>2, <1>3
<1>8. QED
  BY <1>5, <1>6, <1>7 DEF InOneView

(***************************************************************************)
(* Nobody is passed over too often: the turns missed and those still to    *)
(* come before one's own are fewer than the credentials of the view.       *)
(***************************************************************************)
Waits(t, v, b) == t + Gap(v, b) <= Cardinality(v.auths) - 1

Rotates(m) ==
  \A b \in Auths :
    /\ Circle(shards, m, b) = {} => wait[m][b] = 0
    /\ \A p \in ProviderSet, pr \in Priorities :
         LET v == shards[p][m].view[pr]["all"]
         IN  b \in v.auths => Waits(wait[m][b], v, b)

RotInv == wait \in [Models -> [Auths -> Nat]] /\ \A m \in Models : Rotates(m)

\* Where b takes turns with the same credentials as before, the view v it was in
\* and the view w it is in are those of the same provider and priority if the
\* snapshot of any one in it is the same.
Kept(v, w, b, t, moved) ==
  /\ v \in ViewType /\ w \in ViewType /\ w.auths = v.auths /\ b \in v.auths
  /\ t \in Nat /\ Waits(t, v, b)
  /\ moved => \A c \in v.auths : meta'[c] # meta[c]

LEMMA SameView ==
  ASSUME IInv, RotInv, IInv', NEW m \in Models, NEW b \in Auths,
         Circle(shards', m, b) = Circle(shards, m, b),
         NEW p \in ProviderSet, NEW pr \in Priorities,
         b \in shards'[p][m].view[pr]["all"].auths
  PROVE  \E q \in ProviderSet, qr \in Priorities :
           Kept(shards[q][m].view[qr]["all"], shards'[p][m].view[pr]["all"], b, wait[m][b],
                ~(q = p /\ qr = pr))
<1>1. PICK w : w = shards'[p][m].view[pr]["all"]
  OBVIOUS
<1>2. /\ \A q \in ProviderSet : ShardRight(shards[q][m], q, m, meta, now)
      /\ \A q \in ProviderSet : ShardRight(shards'[q][m], q, m, meta', now')
      /\ shards'[p][m] \in ShardType /\ wait[m][b] \in Nat
  BY DEF IInv, RotInv
<1>3. /\ \A c \in Auths : InOneView(shards, m, meta, c)
      /\ \A c \in Auths : InOneView(shards', m, meta', c)
  BY <1>2, CircleFacts
<1>4. Circle(shards', m, b) = w.auths
  BY <1>1, <1>3 DEF InOneView
<1>5. PICK q \in ProviderSet, qr \in Priorities : b \in shards[q][m].view[qr]["all"].auths
  <2>1. \E c : c \in Circle(shards, m, b)
    BY <1>1, <1>4
  <2>2. QED
    BY <2>1, <1>3 DEF InOneView
<1>6. PICK v : v = shards[q][m].view[qr]["all"]
  OBVIOUS
<1>7. v.auths = w.auths
  <2>1. Circle(shards, m, b) = v.auths
    BY <1>3, <1>5, <1>6 DEF InOneView
  <2>2. QED
    BY <1>4, <2>1
<1>8. v \in ViewType /\ w \in ViewType /\ Waits(wait[m][b], v, b)
  <2>1. shards[q][m] \in ShardType
    BY DEF IInv
  <2>2. QED
    BY <1>1, <1>2, <1>5, <1>6, <2>1 DEF ShardType, Kinds, RotInv, Rotates
<1>9. ASSUME NEW c \in v.auths, meta'[c] = meta[c] PROVE q = p /\ qr = pr
  <2>1. c \in Auths
    BY <1>8, <1>9 DEF ViewType
  <2>2. q = meta[c].provider /\ qr = meta[c].priority
    BY <1>3, <1>6, <1>9, <2>1 DEF InOneView
  <2>3. p = meta'[c].provider /\ pr = meta'[c].priority
    BY <1>1, <1>3, <1>7, <1>9, <2>1 DEF InOneView
  <2>4. QED
    BY <1>9, <2>2, <2>3
<1>10. Kept(v, w, b, wait[m][b], ~(q = p /\ qr = pr))
  BY <1>2, <1>5, <1>6, <1>7, <1>8, <1>9 DEF Kept
<1>11. QED
  BY <1>1, <1>6, <1>10

\* A step that keeps the wait of b, with all views steady and at most the
\* credential x moved.
LEMMA QuietStep ==
  ASSUME IInv, RotInv, IInv', NEW m \in Models, NEW b \in Auths, NEW x,
         \A p \in ProviderSet : Steady(shards[p][m], shards'[p][m]),
         \A c \in Auths : c # x => meta'[c] = meta[c],
         Circle(shards', m, b) = Circle(shards, m, b),
         NEW p \in ProviderSet, NEW pr \in Priorities,
         b \in shards'[p][m].view[pr]["all"].auths
  PROVE  Waits(wait[m][b], shards'[p][m].view[pr]["all"], b)
<1>1. PICK q \in ProviderSet, qr \in Priorities :
        Kept(shards[q][m].view[qr]["all"], shards'[p][m].view[pr]["all"], b, wait[m][b],
             ~(q = p /\ qr = pr))
  BY SameView
<1>2. PICK v, w, t : /\ v = shards[q][m].view[qr]["all"] /\ w = shards'[p][m].view[pr]["all"]
                     /\ t = wait[m][b]
  OBVIOUS
<1>3. /\ v \in ViewType /\ w \in ViewType /\ w.auths = v.auths /\ b \in v.auths
      /\ t \in Nat /\ Waits(t, v, b)
      /\ ~(q = p /\ qr = pr) => \A c \in v.auths : c = x
  <2>1. v \in ViewType => v.auths \in SUBSET Auths
    BY DEF ViewType
  <2>2. QED
    BY <1>1, <1>2, <2>1 DEF Kept
<1>4. CASE q = p /\ qr = pr
  <2>1. Place(w) = Place(v)
    BY <1>2, <1>3, <1>4 DEF Steady
  <2>2. Gap(w, b) = Gap(v, b)
    BY <1>3, <2>1, SamePlace
  <2>3. QED
    BY <1>2, <1>3, <2>2 DEF Waits
<1>5. CASE ~(q = p /\ qr = pr)
  <2>1. v.auths = {b} /\ b \in w.auths
    BY <1>3, <1>5
  <2>2. Cardinality(v.auths) = 1
    BY <2>1, FS_Singleton
  <2>3. Gap(w, b) \in 0 .. 0 /\ Gap(v, b) \in 0 .. 0
    <3>1. /\ Gap(w, b) \in 0 .. Cardinality(w.auths) - 1
          /\ Gap(v, b) \in 0 .. Cardinality(v.auths) - 1
      BY <1>3, <2>1, GapFacts
    <3>2. QED
      BY <1>3, <2>2, <3>1
  <2>4. QED
    BY <1>2, <1>3, <2>2, <2>3 DEF Waits
<1>6. QED
  BY <1>4, <1>5

\* A pick of a from the view of q's priority qr, the rest of it steady.
Taken(mid, new, q, qr, a) ==
  LET v == mid[q].view[qr]["all"]
  IN  \A p \in ProviderSet, pr \in Priorities :
        /\ mid[p].view[pr]["all"] \in ViewType
        /\ new[p].view[pr]["all"].auths = mid[p].view[pr]["all"].auths
        /\ new[p].view[pr]["all"].cursor =
             IF p = q /\ pr = qr THEN Rank(v.auths, a) + 1 ELSE mid[p].view[pr]["all"].cursor

LEMMA PassedStep ==
  ASSUME IInv, RotInv, IInv', meta' = meta, NEW m \in Models, NEW b \in Auths,
         NEW mid, NEW new, NEW q \in ProviderSet, NEW qr \in Priorities, NEW ok, NEW a,
         \A p \in ProviderSet : new[p] = shards'[p][m] /\ Steady(shards[p][m], mid[p]),
         Taken(mid, new, q, qr, a),
         a \in mid[q].view[qr]["all"].auths \cap ok,
         \A c \in mid[q].view[qr]["all"].auths \cap ok :
           Gap(mid[q].view[qr]["all"], a) <= Gap(mid[q].view[qr]["all"], c),
         Circle(shards', m, b) = Circle(shards, m, b), b # a, b \in ok,
         NEW p \in ProviderSet, NEW pr \in Priorities,
         b \in shards'[p][m].view[pr]["all"].auths
  PROVE  Waits(IF a \in Circle(shards, m, b) THEN wait[m][b] + 1 ELSE wait[m][b],
               shards'[p][m].view[pr]["all"], b)
<1>1. Kept(shards[p][m].view[pr]["all"], shards'[p][m].view[pr]["all"], b, wait[m][b], FALSE)
  <2>1. PICK o \in ProviderSet, or \in Priorities :
          Kept(shards[o][m].view[or]["all"], shards'[p][m].view[pr]["all"], b, wait[m][b],
               ~(o = p /\ or = pr))
    BY SameView
  <2>2. o = p /\ or = pr
    BY <2>1 DEF Kept
  <2>3. QED
    BY <2>1, <2>2 DEF Kept
<1>2. PICK u, v, w, t : /\ u = shards[p][m].view[pr]["all"] /\ v = mid[p].view[pr]["all"]
                        /\ w = shards'[p][m].view[pr]["all"] /\ t = wait[m][b]
  OBVIOUS
<1>3. /\ u \in ViewType /\ w \in ViewType /\ w.auths = u.auths /\ b \in u.auths
      /\ t \in Nat /\ Waits(t, u, b)
  BY <1>1, <1>2 DEF Kept
<1>4. v \in ViewType /\ v.auths = w.auths
  BY <1>2 DEF Taken
<1>5. Gap(v, b) = Gap(u, b)
  <2>1. Place(v) = Place(u)
    BY <1>2, <1>3, <1>4 DEF Steady
  <2>2. QED
    BY <1>3, <1>4, <2>1, SamePlace
<1>6. \A c \in Auths : InOneView(shards', m, meta', c)
  <2>1. \A o \in ProviderSet : ShardRight(shards'[o][m], o, m, meta', now')
    BY DEF IInv
  <2>2. QED
    BY <2>1, CircleFacts
<1>7. Circle(shards, m, b) = w.auths
  <2>1. InOneView(shards', m, meta', b)
    BY <1>6
  <2>2. Circle(shards', m, b) = w.auths
    BY <1>2, <2>1 DEF InOneView
  <2>3. QED
    BY <2>2
<1>8. CASE p = q /\ pr = qr
  <2>1. a \in v.auths /\ w.cursor = Rank(v.auths, a) + 1 /\ Gap(v, a) <= Gap(v, b)
    BY <1>2, <1>3, <1>4, <1>8 DEF Taken
  <2>2. Gap(w, b) < Gap(v, b)
    BY <1>3, <1>4, <2>1, ComesCloser
  <2>3. /\ Gap(w, b) \in Int /\ Gap(u, b) \in Int
    BY <1>3, GapFacts
  <2>4. a \in Circle(shards, m, b)
    BY <1>4, <1>7, <2>1
  <2>5. Cardinality(u.auths) \in Nat
    BY <1>3, GapFacts
  <2>6. Waits(t + 1, w, b)
    BY <1>3, <1>5, <2>2, <2>3, <2>5 DEF Waits
  <2>7. QED
    BY <1>2, <2>4, <2>6
<1>9. CASE ~(p = q /\ pr = qr)
  <2>1. w.cursor = v.cursor
    BY <1>2, <1>9 DEF Taken
  <2>2. Gap(w, b) = Gap(u, b)
    BY <1>4, <1>5, <2>1 DEF Gap
  <2>3. a \notin w.auths
    <3>1. SUFFICES ASSUME a \in w.auths PROVE FALSE
      OBVIOUS
    <3>2. a \in Auths
      BY <1>3, <3>1 DEF ViewType
    <3>3. p = meta'[a].provider /\ pr = meta'[a].priority
      BY <1>2, <1>6, <3>1, <3>2 DEF InOneView
    <3>4. a \in shards'[q][m].view[qr]["all"].auths
      BY DEF Taken
    <3>5. q = meta'[a].provider /\ qr = meta'[a].priority
      BY <1>6, <3>2, <3>4 DEF InOneView
    <3>6. QED
      BY <1>9, <3>3, <3>5
  <2>4. Waits(t, w, b)
    BY <1>3, <2>2 DEF Waits
  <2>5. QED
    BY <1>2, <1>7, <2>3, <2>4
<1>10. QED
  BY <1>8, <1>9

\* Those whose wait begins anew.
LEMMA NewWait ==
  ASSUME NEW v \in ViewType, NEW b \in v.auths
  PROVE  Waits(0, v, b)
<1>1. Gap(v, b) \in 0 .. Cardinality(v.auths) - 1 /\ Cardinality(v.auths) \in Nat
  BY GapFacts
<1>2. QED
  BY <1>1 DEF Waits

\* The waits after a step, for those whose circle and wait go on.
LEMMA WaitedRight ==
  ASSUME IInv, RotInv, IInv', NEW m \in Models, NEW a, NEW view, NEW ok,
         wait'[m] = Waited(m, a, view, ok),
         \A b \in Auths, p \in ProviderSet, pr \in Priorities :
           /\ Circle(shards', m, b) = Circle(shards, m, b) /\ b # a /\ b \in ok
           /\ b \in shards'[p][m].view[pr]["all"].auths
           => Waits(IF view = "all" /\ a \in Circle(shards, m, b) THEN wait[m][b] + 1 ELSE wait[m][b],
                    shards'[p][m].view[pr]["all"], b)
  PROVE  wait'[m] \in [Auths -> Nat] /\ Rotates(m)'
<1>1. wait[m] \in [Auths -> Nat] /\ Rotates(m)
  BY DEF RotInv
<1>2. \A b \in Auths : wait'[m][b] =
        IF Circle(shards', m, b) # Circle(shards, m, b) \/ b = a \/ b \notin ok THEN 0
        ELSE IF view = "all" /\ a \in Circle(shards, m, b) THEN wait[m][b] + 1 ELSE wait[m][b]
  BY DEF Waited
<1>3. wait'[m] \in [Auths -> Nat]
  <2>1. \A b \in Auths : wait'[m][b] \in Nat
    BY <1>1, <1>2
  <2>2. QED
    BY <2>1 DEF Waited
<1>4. ASSUME NEW b \in Auths, Circle(shards', m, b) = {} PROVE wait'[m][b] = 0
  BY <1>1, <1>2, <1>4 DEF Rotates
<1>5. ASSUME NEW b \in Auths, NEW p \in ProviderSet, NEW pr \in Priorities,
             b \in shards'[p][m].view[pr]["all"].auths
      PROVE  Waits(wait'[m][b], shards'[p][m].view[pr]["all"], b)
  <2>1. CASE Circle(shards', m, b) # Circle(shards, m, b) \/ b = a \/ b \notin ok
    <3>1. wait'[m][b] = 0
      BY <1>2, <2>1
    <3>2. shards'[p][m].view[pr]["all"] \in ViewType
      BY DEF IInv, ShardType, Kinds
    <3>3. QED
      BY <1>5, <3>1, <3>2, NewWait
  <2>2. CASE ~(Circle(shards', m, b) # Circle(shards, m, b) \/ b = a \/ b \notin ok)
    BY <1>2, <1>5, <2>2
  <2>3. QED
    BY <2>1, <2>2
<1>6. QED
  BY <1>3, <1>4, <1>5 DEF Rotates

\* A step in which nobody is passed over.
LEMMA QuietWaits ==
  ASSUME IInv, RotInv, IInv', NEW m \in Models, NEW a, NEW view, NEW ok, NEW x,
         wait'[m] = Waited(m, a, view, ok), view # "all",
         \A p \in ProviderSet : Steady(shards[p][m], shards'[p][m]),
         \A c \in Auths : c # x => meta'[c] = meta[c]
  PROVE  wait'[m] \in [Auths -> Nat] /\ Rotates(m)'
<1>1. \A b \in Auths, p \in ProviderSet, pr \in Priorities :
        /\ Circle(shards', m, b) = Circle(shards, m, b)
        /\ b \in shards'[p][m].view[pr]["all"].auths
        => Waits(wait[m][b], shards'[p][m].view[pr]["all"], b)
  BY QuietStep
<1>2. QED
  BY <1>1, WaitedRight

\* A pick r from the shard of q among those in mid, which have kept their places.
PicksFrom(mid, m, q, r) ==
  /\ \A p \in ProviderSet : mid[p] \in ShardType /\ Steady(shards[p][m], mid[p])
  /\ \A p \in ProviderSet : shards'[p][m] = IF p = q THEN r.shard ELSE mid[p]

LEMMA PickWaits ==
  ASSUME IInv, RotInv, IInv', meta' = meta, NEW m \in Models, NEW q \in ProviderSet,
         NEW pr \in Priorities, NEW pref \in BOOLEAN, NEW ok \in SUBSET Auths, NEW how \in Strategies,
         NEW mid, NEW r, PicksFrom(mid, m, q, r),
         mid[q].view[pr][ViewKind(mid[q], pr, pref, ok)].auths \cap ok # {},
         r = PickAt(mid[q], pr, pref, ok, how),
         wait'[m] = Waited(m, r.auth, r.view, ok)
  PROVE  wait'[m] \in [Auths -> Nat] /\ Rotates(m)'
<1>0. /\ \A p \in ProviderSet : mid[p] \in ShardType /\ Steady(shards[p][m], mid[p])
      /\ \A p \in ProviderSet : shards'[p][m] = IF p = q THEN r.shard ELSE mid[p]
  BY DEF PicksFrom
<1>1. PICK k, v, new : /\ k = ViewKind(mid[q], pr, pref, ok) /\ v = mid[q].view[pr]["all"]
                       /\ new = [p \in ProviderSet |-> shards'[p][m]]
  OBVIOUS
<1>2. /\ r.view = IF how = "fillFirst" THEN "none" ELSE k
      /\ \A o \in Priorities, l \in Kinds :
           /\ r.shard.view[o][l].auths = mid[q].view[o][l].auths
           /\ r.shard.view[o][l].cursor =
                IF how # "fillFirst" /\ o = pr /\ l = k
                THEN Rank(mid[q].view[pr][k].auths, r.auth) + 1 ELSE mid[q].view[o][l].cursor
  BY <1>0, <1>1, PickAtViews
<1>3. CASE r.view # "all"
  <2>1. \A o \in Priorities : /\ r.shard.view[o]["all"].auths = mid[q].view[o]["all"].auths
                              /\ r.shard.view[o]["all"].cursor = mid[q].view[o]["all"].cursor
    BY <1>2, <1>3 DEF Kinds
  <2>2. \A p \in ProviderSet, o \in Priorities :
          /\ shards'[p][m].view[o]["all"].auths = mid[p].view[o]["all"].auths
          /\ shards'[p][m].view[o]["all"].cursor = mid[p].view[o]["all"].cursor
    BY <1>0, <2>1
  <2>3. \A p \in ProviderSet : Steady(shards[p][m], shards'[p][m])
    BY <1>0, <2>2 DEF Steady, Place
  <2>4. QED
    BY <1>3, <2>3, QuietWaits
<1>4. CASE r.view = "all"
  <2>1. how # "fillFirst" /\ k = "all"
    BY <1>2, <1>4
  <2>2. r.auth = NextInTurn(v, ok) /\ v \in ViewType /\ v.auths \cap ok # {}
    BY <1>0, <1>1, <2>1 DEF PickAt, ShardType, Kinds
  <2>3. r.auth \in v.auths \cap ok /\ \A c \in v.auths \cap ok : Gap(v, r.auth) <= Gap(v, c)
    BY <2>2, TakesNext
  <2>4. Taken(mid, new, q, pr, r.auth)
    <3>1. ASSUME NEW p \in ProviderSet, NEW o \in Priorities
          PROVE  /\ mid[p].view[o]["all"] \in ViewType
                 /\ new[p].view[o]["all"].auths = mid[p].view[o]["all"].auths
                 /\ new[p].view[o]["all"].cursor =
                      IF p = q /\ o = pr THEN Rank(v.auths, r.auth) + 1
                      ELSE mid[p].view[o]["all"].cursor
      <4>1. mid[p].view[o]["all"] \in ViewType
        BY <1>0 DEF ShardType, Kinds
      <4>2. new[p] = IF p = q THEN r.shard ELSE mid[p]
        BY <1>0, <1>1
      <4>3. QED
        BY <1>1, <1>2, <2>1, <4>1, <4>2 DEF Kinds
    <3>2. QED
      BY <1>1, <3>1 DEF Taken
  <2>5. \A p \in ProviderSet : new[p] = shards'[p][m] /\ Steady(shards[p][m], mid[p])
    BY <1>0, <1>1
  <2>6. \A b \in Auths, p \in ProviderSet, o \in Priorities :
          /\ Circle(shards', m, b) = Circle(shards, m, b) /\ b # r.auth /\ b \in ok
          /\ b \in shards'[p][m].view[o]["all"].auths
          => Waits(IF r.auth \in Circle(shards, m, b) THEN wait[m][b] + 1 ELSE wait[m][b],
                   shards'[p][m].view[o]["all"], b)
    BY <1>1, <2>3, <2>4, <2>5, PassedStep
  <2>7. QED
    BY <1>4, <2>6, WaitedRight
<1>5. QED
  BY <1>3, <1>4

LEMMA BestIsBest ==
  ASSUME NEW S \in SUBSET Priorities, S # {}
  PROVE  Max(S) \in S
<1>1. IsFiniteSet(S) /\ S \in SUBSET Int
  BY FS_Subset, SchedulerAssumption
<1>2. QED
  BY <1>1, MaxOfIntegers

LEMMA SingleWaits ==
  ASSUME IInv, RotInv, IInv', NEW p \in ProviderSet, NEW m \in Models, NEW pref \in BOOLEAN,
         NEW ok \in SUBSET Auths, NEW how \in Strategies, PickSingle(p, m, pref, ok, how)
  PROVE  wait'[m] \in [Auths -> Nat] /\ Rotates(m)'
<1>1. PICK en, best, r, mid :
        /\ en = Ensured(p, m) /\ best = HighestReady(en, pref, ok)
        /\ r = PickFrom(en, pref, ok, how)
        /\ mid = [o \in ProviderSet |-> IF o = p THEN en ELSE shards[o][m]]
  OBVIOUS
<1>2. /\ shards \in [ProviderSet -> [Models -> ShardType]]
      /\ wait \in [Models -> [Auths -> Nat]]
  BY DEF IInv, RotInv
<1>3. /\ shards' = [shards EXCEPT ![p][m] = r.shard] /\ meta' = meta
      /\ wait' = [wait EXCEPT ![m] = Waited(m, r.auth, r.view, ok)]
  BY <1>1 DEF PickSingle
<1>4. /\ \A o \in ProviderSet : shards'[o][m] = IF o = p THEN r.shard ELSE mid[o]
      /\ wait'[m] = Waited(m, r.auth, r.view, ok)
  BY <1>1, <1>2, <1>3
<1>5. \A o \in ProviderSet : mid[o] \in ShardType /\ Steady(shards[o][m], mid[o])
  <2>1. en \in ShardType /\ Steady(shards[p][m], en)
    BY <1>1, EnsuredFacts, EnsuredSteady DEF ShardRight
  <2>2. QED
    BY <1>1, <1>2, <2>1, SelfSteady
<1>6. CASE best = {}
  <2>1. r.shard = en /\ r.view = "none"
    BY <1>1, <1>6 DEF PickFrom, Missed
  <2>2. \A o \in ProviderSet : Steady(shards[o][m], shards'[o][m])
    BY <1>1, <1>4, <1>5, <2>1
  <2>3. QED
    BY <1>3, <1>4, <2>1, <2>2, QuietWaits
<1>7. CASE best # {}
  <2>1. PICK pr : pr = Max(best)
    OBVIOUS
  <2>2. r = PickAt(mid[p], pr, pref, ok, how) /\ mid[p] = en
    BY <1>1, <1>7, <2>1 DEF PickFrom
  <2>3. pr \in Priorities /\ en.view[pr][ViewKind(en, pr, pref, ok)].auths \cap ok # {}
    <3>1. \A x \in best : x \in Priorities /\ en.view[x][ViewKind(en, x, pref, ok)].auths \cap ok # {}
      BY <1>1, <1>5, <2>2, BestOfShard
    <3>2. pr \in best
      BY <1>7, <2>1, <3>1, BestIsBest
    <3>3. QED
      BY <3>1, <3>2
  <2>4. mid[p].view[pr][ViewKind(mid[p], pr, pref, ok)].auths \cap ok # {}
    BY <2>2, <2>3
  <2>5. PicksFrom(mid, m, p, r)
    BY <1>4, <1>5 DEF PicksFrom
  <2>6. /\ r = PickAt(mid[p], pr, pref, ok, how) /\ pr \in Priorities
        /\ meta' = meta /\ wait'[m] = Waited(m, r.auth, r.view, ok)
    BY <1>3, <1>4, <2>2, <2>3
  <2>7. QED
    BY <2>4, <2>5, <2>6, PickWaits
<1>8. QED
  BY <1>6, <1>7

LEMMA MixedWaits ==
  ASSUME IInv, TurnInv, RotInv, IInv', NEW m \in Models, NEW pref \in BOOLEAN,
         NEW ok \in SUBSET Auths, NEW how \in Strategies, PickMixed(m, pref, ok, how)
  PROVE  wait'[m] \in [Auths -> Nat] /\ Rotates(m)'
<1>1. PICK en, best, pr, i, p, w, r :
        /\ en = EnsuredAll(m) /\ best = MixedBest(en, pref, ok) /\ pr = Max(best)
        /\ i = MixedProvider(m, en, pr, pref, ok, how) /\ p = Providers[i]
        /\ w = Given(en, pr, pref, ok) /\ r = MixedPick(m, en, pref, ok, how)
  OBVIOUS
<1>2. /\ shards \in [ProviderSet -> [Models -> ShardType]]
      /\ wait \in [Models -> [Auths -> Nat]] /\ mixed \in [Models -> Nat]
  BY DEF IInv, RotInv, TurnInv
<1>3. /\ shards' = [q \in ProviderSet |-> [shards[q] EXCEPT ![m] = r.shards[q]]]
      /\ wait' = [wait EXCEPT ![m] = Waited(m, r.auth, r.view, ok)] /\ meta' = meta
  BY <1>1 DEF PickMixed
<1>4. /\ \A q \in ProviderSet : shards'[q][m] = r.shards[q]
      /\ wait'[m] = Waited(m, r.auth, r.view, ok)
  BY <1>2, <1>3
<1>5. \A q \in ProviderSet :
        Fit(en[q], q, m) /\ en[q] \in ShardType /\ Steady(shards[q][m], en[q])
  BY <1>1, EnsuredAllFacts, EnsuredSteady DEF EnsuredAll, Fit
<1>6. PickedWell(en, ok, best, pr, p, w, r.auth)
  BY <1>1, <1>2, <1>5, MixedPickFacts
<1>7. CASE best = {}
  <2>1. r.shards = en /\ r.view = "none"
    BY <1>1, <1>7 DEF MixedPick
  <2>2. \A q \in ProviderSet : Steady(shards[q][m], shards'[q][m])
    BY <1>4, <1>5, <2>1
  <2>3. QED
    BY <1>3, <1>4, <2>1, <2>2, QuietWaits
<1>8. CASE best # {}
  <2>1. PICK prefers \in BOOLEAN : prefers = (pref /\ p \in WsProviders)
    OBVIOUS
  <2>2. PICK t : t = PickAt(en[p], pr, prefers, ok, how)
    OBVIOUS
  <2>3. r.auth = t.auth /\ r.view = t.view /\ r.shards = [en EXCEPT ![p] = t.shard]
    BY <1>1, <1>8, <2>1, <2>2 DEF MixedPick
  <2>4. p \in ProviderSet /\ pr \in Priorities
    BY <1>6, <1>8 DEF PickedWell
  <2>5. PicksFrom(en, m, p, t)
    <3>1. en = [q \in ProviderSet |-> en[q]]
      BY <1>1 DEF EnsuredAll
    <3>2. QED
      BY <1>4, <1>5, <2>3, <3>1 DEF PicksFrom
  <2>6. en[p].view[pr][ViewKind(en[p], pr, prefers, ok)].auths \cap ok # {}
    <3>1. w \in [1 .. Len(Providers) -> Nat] /\ \E j \in 1 .. Len(Providers) : w[j] > 0
      BY <1>6, <1>8 DEF PickedWell
    <3>2. i \in 1 .. Len(Providers) /\ w[i] > 0
      BY <1>1, <1>2, <3>1, MixedProviderFacts DEF SlotFound
    <3>3. QED
      BY <1>1, <1>5, <2>1, <2>4, <3>2, GivenFacts
  <2>7. wait'[m] = Waited(m, t.auth, t.view, ok)
    BY <1>4, <2>3
  <2>8. QED
    BY <1>3, <2>2, <2>4, <2>5, <2>6, <2>7, PickWaits
<1>9. QED
  BY <1>7, <1>8

LEMMA InitRotInv == Init => RotInv
<1> SUFFICES ASSUME Init PROVE RotInv
  OBVIOUS
<1>1. /\ wait = [m \in Models |-> [a \in Auths |-> 0]] /\ IInv
  BY InitIInv DEF Init
<1>2. \A p \in ProviderSet, m \in Models, pr \in Priorities :
        shards[p][m].view[pr]["all"] \in ViewType
  BY <1>1 DEF IInv, ShardType, Kinds
<1>3. \A m \in Models : Rotates(m)
  BY <1>1, <1>2, NewWait DEF Rotates
<1>4. QED
  BY <1>1, <1>3 DEF RotInv

LEMMA RotInvOf ==
  ASSUME wait' = [m \in Models |-> wait'[m]],
         \A m \in Models : wait'[m] \in [Auths -> Nat] /\ Rotates(m)'
  PROVE  RotInv'
<1>1. wait' \in [Models -> [Auths -> Nat]]
  OBVIOUS
<1>2. QED
  BY <1>1 DEF RotInv

\* A model that a step does not touch.
LEMMA SameWaits ==
  ASSUME RotInv, NEW m \in Models, wait'[m] = wait[m],
         \A p \in ProviderSet : shards'[p][m] = shards[p][m]
  PROVE  wait'[m] \in [Auths -> Nat] /\ Rotates(m)'
<1>1. wait[m] \in [Auths -> Nat] /\ Rotates(m)
  BY DEF RotInv
<1>2. \A b \in Auths : Circle(shards', m, b) = Circle(shards, m, b)
  <2>1. \A p \in ProviderSet, pr \in Priorities :
          shards'[p][m].view[pr]["all"].auths = shards[p][m].view[pr]["all"].auths
    OBVIOUS
  <2>2. {shards'[x[1]][m].view[x[2]]["all"].auths : x \in ProviderSet \X Priorities}
          = {shards[x[1]][m].view[x[2]]["all"].auths : x \in ProviderSet \X Priorities}
    BY <2>1
  <2>3. QED
    BY <2>2 DEF Circle
<1>3. QED
  BY <1>1, <1>2 DEF Rotates

LEMMA NextRotInv == IInv /\ TurnInv /\ RotInv /\ [Next]_vars => RotInv'
<1> SUFFICES ASSUME IInv, TurnInv, RotInv, [Next]_vars PROVE RotInv'
  OBVIOUS
<1>1. IInv'
  BY NextIInv
<1>2. /\ wait \in [Models -> [Auths -> Nat]] /\ meta \in MetaType
      /\ shards \in [ProviderSet -> [Models -> ShardType]]
  BY DEF RotInv, IInv
<1>3. ASSUME NEW a \in Auths, NEW s \in Snapshots[a], Upsert(a, s) PROVE RotInv'
  <2>1. PICK md : md = [meta EXCEPT ![a] = IF s.disabled THEN NoMeta ELSE s]
    OBVIOUS
  <2>2. /\ meta' = md
        /\ shards' = [p \in ProviderSet |-> [m \in Models |-> UpdatedShard(a, s, md, p, m)]]
        /\ wait' = [m \in Models |-> Waited(m, Nobody, "none", Auths)]
    BY <1>3, <2>1 DEF Upsert
  <2>3. s \in Snapshot
    BY SchedulerAssumption
  <2>4. /\ md \in MetaType /\ (md[a] = s \/ s.disabled)
        /\ \A c \in Auths : c # a => meta'[c] = meta[c]
    BY <1>2, <2>1, <2>2, <2>3 DEF MetaType
  <2>5. \A p \in ProviderSet, m \in Models : Steady(shards[p][m], shards'[p][m])
    BY <2>2, <2>3, <2>4, UpdatedSteady
  <2>6. \A m \in Models : wait'[m] = Waited(m, Nobody, "none", Auths)
    BY <2>2
  <2>7. \A m \in Models : wait'[m] \in [Auths -> Nat] /\ Rotates(m)'
    BY <1>1, <2>4, <2>5, <2>6, QuietWaits
  <2>8. wait' = [m \in Models |-> wait'[m]]
    BY <2>2
  <2>9. QED
    BY <2>7, <2>8, RotInvOf
<1>4. CASE Rebuild
  <2>1. wait' = [m \in Models |-> [a \in Auths |-> 0]]
    BY <1>4 DEF Rebuild
  <2>2. \A p \in ProviderSet, m \in Models, pr \in Priorities :
          shards'[p][m].view[pr]["all"] \in ViewType
    BY <1>1 DEF IInv, ShardType, Kinds
  <2>3. \A m \in Models : Rotates(m)'
    BY <2>1, <2>2, NewWait DEF Rotates
  <2>4. QED
    BY <2>1, <2>3 DEF RotInv
<1>5. CASE UNCHANGED <<shards, wait>>
  <2>1. \A m \in Models : wait'[m] \in [Auths -> Nat] /\ Rotates(m)'
    BY <1>5, SameWaits
  <2>2. QED
    BY <1>2, <1>5, <2>1 DEF RotInv
<1>6. ASSUME NEW m \in Models, NEW ok \in SUBSET Auths, NEW how \in Strategies,
             NEW p \in ProviderSet, NEW pref \in Preferences(p), PickSingle(p, m, pref, ok, how)
      PROVE  RotInv'
  <2>1. PICK sh, f : shards' = [shards EXCEPT ![p][m] = sh] /\ wait' = [wait EXCEPT ![m] = f]
    BY <1>6 DEF PickSingle
  <2>2. wait'[m] \in [Auths -> Nat] /\ Rotates(m)'
    BY <1>1, <1>6, SingleWaits DEF Preferences
  <2>3. \A l \in Models \ {m} :
          wait'[l] = wait[l] /\ \A q \in ProviderSet : shards'[q][l] = shards[q][l]
    BY <1>2, <2>1
  <2>4. \A l \in Models : wait'[l] \in [Auths -> Nat] /\ Rotates(l)'
    BY <2>2, <2>3, SameWaits
  <2>5. wait' = [l \in Models |-> wait'[l]]
    BY <1>2, <2>1
  <2>6. QED
    BY <2>4, <2>5, RotInvOf
<1>7. ASSUME NEW m \in Models, NEW ok \in SUBSET Auths, NEW how \in Strategies,
             NEW pref \in BOOLEAN, PickMixed(m, pref, ok, how)
      PROVE  RotInv'
  <2>1. PICK r, f : /\ shards' = [p \in ProviderSet |-> [shards[p] EXCEPT ![m] = r.shards[p]]]
                    /\ wait' = [wait EXCEPT ![m] = f]
    <3>1. PICK r : /\ shards' = [p \in ProviderSet |-> [shards[p] EXCEPT ![m] = r.shards[p]]]
                   /\ wait' = [wait EXCEPT ![m] = Waited(m, r.auth, r.view, ok)]
      BY <1>7, Zenon DEF PickMixed
    <3>2. QED
      BY <3>1, Zenon
  <2>2. wait'[m] \in [Auths -> Nat] /\ Rotates(m)'
    BY <1>1, <1>7, MixedWaits
  <2>3. \A l \in Models \ {m} :
          wait'[l] = wait[l] /\ \A q \in ProviderSet : shards'[q][l] = shards[q][l]
    BY <1>2, <2>1
  <2>4. \A l \in Models : wait'[l] \in [Auths -> Nat] /\ Rotates(l)'
    BY <2>2, <2>3, SameWaits
  <2>5. wait' = [l \in Models |-> wait'[l]]
    BY <1>2, <2>1
  <2>6. QED
    BY <2>4, <2>5, RotInvOf
<1>8. QED
  BY <1>3, <1>4, <1>5, <1>6, <1>7 DEF Next, SetSelector, Tick, vars

LEMMA RotationsRight == Spec => []RotInv
<1>1. QED
  BY InitRotInv, NextRotInv, ShardsRight, TurnsRight, PTL DEF Spec

\* However many upserts and filtered picks come in between, no credential is ever
\* passed over as often as its view has credentials, while that has the same members.
THEOREM RotationAlwaysFair == Spec => []RotationFair
<1>1. ASSUME IInv, RotInv, NEW m \in Models, NEW b \in Auths, wait[m][b] # 0
      PROVE  wait[m][b] < Cardinality(Circle(shards, m, b))
  <2>1. /\ wait[m][b] \in Nat /\ Rotates(m) /\ InOneView(shards, m, meta, b)
    <3>1. \A p \in ProviderSet : ShardRight(shards[p][m], p, m, meta, now)
      BY <1>1 DEF IInv
    <3>2. QED
      BY <1>1, <3>1, CircleFacts DEF RotInv
  <2>2. \E c : c \in Circle(shards, m, b)
    BY <1>1, <2>1 DEF Rotates
  <2>3. PICK p \in ProviderSet, pr \in Priorities : b \in shards[p][m].view[pr]["all"].auths
    BY <2>1, <2>2 DEF InOneView
  <2>4. PICK v : v = shards[p][m].view[pr]["all"]
    OBVIOUS
  <2>5. /\ v \in ViewType /\ b \in v.auths /\ Circle(shards, m, b) = v.auths
        /\ Waits(wait[m][b], v, b)
    BY <1>1, <2>1, <2>3, <2>4 DEF InOneView, Rotates, IInv, ShardType, Kinds
  <2>6. Cardinality(v.auths) \in Nat /\ Gap(v, b) \in 0 .. Cardinality(v.auths) - 1
    BY <2>5, GapFacts
  <2>7. QED
    BY <2>1, <2>5, <2>6 DEF Waits
<1>2. IInv /\ RotInv => RotationFair
  BY <1>1 DEF RotationFair
<1>3. QED
  BY <1>2, ShardsRight, RotationsRight, PTL
=============================================================================
