------------------------------ MODULE Cooldowns ------------------------------
(***************************************************************************)
(* What a result does to the state of a model and to its credential        *)
(* (sdk/cliproxy/auth/conductor.go): the pure part of MarkResult and of    *)
(* the Codex quota check, as functions from states to states.  Times are   *)
(* numbers from 1 on; 0 is the zero time.                                  *)
(***************************************************************************)
EXTENDS Naturals, FiniteSets, FiniteSetsExt

CONSTANTS
  Models,
  AuthCooldown,                  \* after 401, 402 and 403
  LongCooldown,                  \* after 404 and an unsupported model
  TransientBase, TransientMax,   \* bounds of the backoff after other failures
  QuotaBase, QuotaMax,           \* bounds of the backoff after 429
  RetryAfter                     \* a provider's hint

ASSUME CooldownAssumption ==
  /\ IsFiniteSet(Models)
  /\ {AuthCooldown, LongCooldown, TransientBase, TransientMax, QuotaBase, QuotaMax,
      RetryAfter} \subseteq Nat \ {0}
  /\ TransientBase <= TransientMax /\ QuotaBase <= QuotaMax

\* Classes of answers: MarkResult treats the members of a class alike.
Failures == {"scoped", "unsupported", "auth", "notFound", "quota", "limit", "transient"}
Answers == {"ok"} \cup Failures

(***************************************************************************)
(* ModelState.  exceeded, recover and level are its Quota, retry is        *)
(* RetryBackoffLevel, err says that LastError is set.                      *)
(***************************************************************************)
Clean == [known |-> TRUE, status |-> "active", unavail |-> FALSE, err |-> FALSE, next |-> 0,
          exceeded |-> FALSE, recover |-> 0, level |-> 0, retry |-> 0]
NoState == [Clean EXCEPT !.known = FALSE]

\* nextBackoffCooldown
Backoff(level, base, limit) ==
  IF base * 2^level >= limit THEN [for |-> limit, level |-> level]
                             ELSE [for |-> base * 2^level, level |-> level + 1]

\* Until when a model rests: not at all without cooling.
After(t, cooling, d) == IF cooling THEN t + d ELSE 0

Failing(s) == [s EXCEPT !.known = TRUE, !.unavail = TRUE, !.status = "error", !.err = TRUE]

FailTransient(s, cooling, t) ==
  LET b == Backoff(s.retry, TransientBase, TransientMax)
  IN  [s EXCEPT !.next = After(t, cooling, b.for), !.retry = IF cooling THEN b.level ELSE @]

FailQuota(s, hint, cooling, t) ==
  LET b == Backoff(s.level, QuotaBase, QuotaMax)
      next == After(t, cooling, IF hint THEN RetryAfter ELSE b.for)
  IN  [s EXCEPT !.next = next, !.exceeded = TRUE, !.recover = next,
                !.level = IF cooling /\ ~hint THEN b.level ELSE @]

\* A usage limit also ends the model's times: the quota check decides.
FailLimit(s, hint, cooling, t) ==
  [FailQuota(s, hint, cooling, t) EXCEPT !.status = "disabled", !.next = 0, !.recover = 0]

\* The model state after an answer; a request-scoped error says nothing of it.
AfterAnswer(s, answer, hint, cooling, t) ==
  CASE answer = "ok"          -> Clean
    [] answer = "scoped"      -> s
    [] answer = "unsupported" -> [Failing(s) EXCEPT !.next = t + LongCooldown]
    [] answer = "auth"        -> [Failing(s) EXCEPT !.next = After(t, cooling, AuthCooldown)]
    [] answer = "notFound"    -> [Failing(s) EXCEPT !.next = After(t, cooling, LongCooldown)]
    [] answer = "quota"       -> FailQuota(Failing(s), hint, cooling, t)
    [] answer = "limit"       -> FailLimit(Failing(s), hint, cooling, t)
    [] answer = "transient"   -> FailTransient(Failing(s), cooling, t)

(***************************************************************************)
(* A credential.  limited says that its metadata asks for a quota check.   *)
(***************************************************************************)
Fresh(off) ==
  [disabled |-> off, status |-> IF off THEN "disabled" ELSE "active", err |-> FALSE,
   unavail |-> FALSE, next |-> 0, exceeded |-> FALSE, recover |-> 0, level |-> 0,
   limited |-> FALSE, models |-> [m \in Models |-> NoState]]

Known(a) == {m \in Models : a.models[m].known}

\* isAuthBlockedForModel
StateBlocked(s, t) == s.status = "disabled" \/ (s.unavail /\ s.next > t)
Blocked(a, m, t) == a.disabled \/ a.status = "disabled" \/ StateBlocked(a.models[m], t)

Earliest(S) == IF S \ {0} = {} THEN 0 ELSE Min(S \ {0})

\* An unavailable model whose time has come is available again.
Woken(s, t) ==
  IF s.status # "disabled" /\ s.unavail /\ s.next # 0 /\ s.next <= t
  THEN [s EXCEPT !.unavail = FALSE, !.next = 0] ELSE s

\* Mutant: the credential rests until the last of its models is back.
AggregatedLatest(a, t) ==
  LET ms == [m \in Models |-> Woken(a.models[m], t)]
      all == Known(a) # {} /\ \A m \in Known(a) : StateBlocked(ms[m], t)
      timed == {m \in Known(a) : ms[m].status # "disabled"}
      over == {m \in Known(a) : ms[m].exceeded}
  IN  [a EXCEPT !.models = ms, !.unavail = all,
        !.next = IF all /\ timed # {} THEN Max({ms[m].next : m \in timed}) ELSE 0,
        !.exceeded = over # {},
        !.recover = Earliest({ms[m].recover : m \in over}),
        !.level = Max({0} \cup {ms[m].level : m \in over})]

\* updateAggregatedAvailability
Aggregated(a, t) ==
  LET ms == [m \in Models |-> Woken(a.models[m], t)]
      all == Known(a) # {} /\ \A m \in Known(a) : StateBlocked(ms[m], t)
      timed == {m \in Known(a) : ms[m].status # "disabled"}
      over == {m \in Known(a) : ms[m].exceeded}
  IN  [a EXCEPT !.models = ms, !.unavail = all,
        !.next = IF all THEN Earliest({ms[m].next : m \in timed}) ELSE 0,
        !.exceeded = over # {},
        !.recover = Earliest({ms[m].recover : m \in over}),
        !.level = Max({0} \cup {ms[m].level : m \in over})]

HasModelError(a, t) ==
  \E m \in Known(a) :
    LET s == a.models[m]
    IN  s.err \/ (s.status = "error" /\ s.unavail /\ (s.next = 0 \/ s.next > t))

\* A credential none of whose models has an error is active, disabled or not.
Settled(a, t) == IF HasModelError(a, t) THEN a ELSE [a EXCEPT !.err = FALSE, !.status = "active"]

\* applyPermanentUsageLimitDisable
Limited(a) ==
  [a EXCEPT !.disabled = TRUE, !.unavail = FALSE, !.status = "disabled", !.next = 0,
            !.recover = 0, !.limited = TRUE]

\* MarkResult, for a result of a model.
Recorded(a, m, answer, hint, cooling, t) ==
  LET b == [a EXCEPT !.models[m] = AfterAnswer(@, answer, hint, cooling, t)]
      c == IF answer = "limit" THEN Limited(b) ELSE b
  IN  CASE answer = "scoped" -> a
        [] answer = "ok"     -> Settled(Aggregated(b, t), t)
        [] answer \notin {"ok", "scoped"} ->
             Aggregated([c EXCEPT !.err = TRUE,
                                  !.status = IF @ = "disabled" THEN @ ELSE "error"], t)

(***************************************************************************)
(* Registration and quota checks.                                          *)
(***************************************************************************)
\* An update of an enabled credential inherits the model states of an enabled one.
Inheriting(new, old) ==
  IF ~new.disabled /\ new.status # "disabled" /\ ~old.disabled /\ old.status # "disabled"
     /\ Known(new) = {}
  THEN [new EXCEPT !.models = old.models] ELSE new

\* Mutant: only what is no longer supported is dropped.
ReconciledDropping(a, supported, t) ==
  LET ms == [m \in Models |-> IF m \notin supported \/ ~a.models[m].known THEN NoState
                              ELSE a.models[m]]
  IN  IF ms = a.models THEN a ELSE Settled(Aggregated([a EXCEPT !.models = ms], t), t)

\* ReconcileRegistryModelStates: supported models start clean, others go.
Reconciled(a, supported, t) ==
  LET ms == [m \in Models |-> IF m \notin supported \/ ~a.models[m].known THEN NoState
                              ELSE Clean]
  IN  IF ms = a.models THEN a ELSE Settled(Aggregated([a EXCEPT !.models = ms], t), t)

\* applyCodexQuotaCheckResult; the models keep their states.
QuotaEnabled(a) ==
  [a EXCEPT !.disabled = FALSE, !.unavail = FALSE, !.status = "active", !.err = FALSE,
            !.next = 0, !.exceeded = FALSE, !.recover = 0, !.limited = FALSE]
QuotaLimited(a) == [a EXCEPT !.disabled = TRUE, !.status = "disabled", !.limited = TRUE]
QuotaUnknown(a) == [a EXCEPT !.status = "disabled", !.limited = TRUE]
=============================================================================
