--------------------------- MODULE ConductorProofs ---------------------------
(***************************************************************************)
(* Proofs about the conductor's results and requests.                      *)
(* AuthResults: for all models, requests, cooldowns and lengths of the     *)
(* run, the copies of the credential (in memory, in the file, in the       *)
(* scheduler, and its marks in the registry) agree when those who write    *)
(* them are done, and an aggregate rest is one of every model.             *)
(* RequestExecution: for any number of requests and credentials, every ask *)
(* is recorded once, and a rest that was waited for pays off.              *)
(***************************************************************************)
EXTENDS AuthResults, RequestExecution, FiniteSetTheorems, TLAPS

Statuses == {"active", "error", "disabled"}
State ==
  [known : BOOLEAN, status : Statuses, unavail : BOOLEAN, err : BOOLEAN, next : Nat,
   exceeded : BOOLEAN, recover : Nat, level : Nat, retry : Nat]
Credential ==
  [disabled : BOOLEAN, status : Statuses, err : BOOLEAN, unavail : BOOLEAN, next : Nat,
   exceeded : BOOLEAN, recover : Nat, level : Nat, limited : BOOLEAN, models : [Models -> State]]

(***************************************************************************)
(* Least and greatest elements.                                            *)
(***************************************************************************)

\* A function into the naturals takes its least value somewhere.
LEMMA LeastValue ==
  ASSUME NEW S, S # {}, NEW f \in [S -> Nat]
  PROVE  \E x \in S : \A y \in S : f[x] <= f[y]
<1> DEFINE R == {ss \in Nat \X Nat : ss[1] < ss[2]}
           T == {f[x] : x \in S}
<1>1. OpToRel(<, Nat) = R
  BY Zenon DEF OpToRel
<1>2. T \subseteq Nat /\ T # {}
  OBVIOUS
<1>3. \E x \in T : \A y \in T : ~ (<<y, x>> \in R)
  <2> HIDE DEF R, T
  <2>1. IsWellFoundedOn(R, Nat)
    BY <1>1, NatLessThanWellFounded
  <2>2. QED
    BY <2>1, <1>2, WFMin
<1>4. PICK v \in T : \A w \in T : ~ (<<w, v>> \in R)
  BY <1>3
<1>5. PICK x \in S : f[x] = v
  BY <1>4
<1>6. ASSUME NEW y \in S PROVE f[x] <= f[y]
  <2>1. ~ (<<f[y], f[x]>> \in R)
    BY <1>4, <1>5
  <2>2. f[x] \in Nat /\ f[y] \in Nat
    OBVIOUS
  <2>3. QED
    BY <2>1, <2>2
<1>7. QED
  BY <1>6

LEMMA MinOfNaturals ==
  ASSUME NEW S \in SUBSET Nat, S # {}
  PROVE  Min(S) \in S /\ \A y \in S : Min(S) <= y
<1> DEFINE f == [x \in S |-> x]
<1>1. f \in [S -> Nat]
  OBVIOUS
<1>2. PICK x \in S : \A y \in S : f[x] <= f[y]
  <2> HIDE DEF f
  <2>1. QED
    BY <1>1, LeastValue
<1>3. \A y \in S : x =< y
  BY <1>2
<1>4. QED
  BY <1>3 DEF Min

\* The greatest of finitely many integers: the one with fewest above it.
LEMMA MaxOfIntegers ==
  ASSUME NEW S \in SUBSET Int, IsFiniteSet(S), S # {}
  PROVE  Max(S) \in S /\ \A y \in S : Max(S) >= y
<1> DEFINE Above(x) == {y \in S : y > x}
           f == [x \in S |-> Cardinality(Above(x))]
<1>1. ASSUME NEW x \in S PROVE IsFiniteSet(Above(x)) /\ Cardinality(Above(x)) \in Nat
  BY FS_Subset, FS_CardinalityType
<1>2. f \in [S -> Nat]
  BY <1>1
<1>3. PICK x \in S : \A y \in S : f[x] <= f[y]
  <2> HIDE DEF f
  <2>1. QED
    BY <1>2, LeastValue
<1>4. ASSUME NEW y \in S, ~(x >= y) PROVE FALSE
  <2>1. y > x
    BY <1>4
  <2>2. Above(y) \subseteq Above(x) /\ y \in Above(x) /\ y \notin Above(y)
    <3>1. \A z \in S : z \in Int
      OBVIOUS
    <3>2. \A z \in S : z > y => z > x
      BY <2>1, <3>1
    <3>3. ~(y > y)
      BY <3>1
    <3>4. QED
      BY <2>1, <3>2, <3>3
  <2>3. Cardinality(Above(y)) <= Cardinality(Above(x))
        /\ Cardinality(Above(x)) # Cardinality(Above(y))
    <3> HIDE DEF Above
    <3>1. QED
      BY <2>2, <1>1, FS_Subset
  <2>4. Cardinality(Above(x)) <= Cardinality(Above(y))
    BY <1>3
  <2>5. QED
    BY <2>3, <2>4, <1>1
<1>5. QED
  BY <1>4 DEF Max

(***************************************************************************)
(* Numbers.                                                                *)
(***************************************************************************)
LEMMA Numbers ==
  /\ AuthCooldown \in Nat /\ LongCooldown \in Nat /\ TransientBase \in Nat /\ TransientMax \in Nat
  /\ QuotaBase \in Nat /\ QuotaMax \in Nat /\ RetryAfter \in Nat
BY CooldownAssumption

\* A power of two is a natural number: it counts the subsets of a set.
LEMMA Power ==
  ASSUME NEW n \in Nat
  PROVE  2^n \in Nat
<1>1. IsFiniteSet(1..n) /\ Cardinality(1..n) = n
  BY FS_Interval
<1>2. IsFiniteSet(SUBSET (1..n)) /\ Cardinality(SUBSET (1..n)) = 2^n
  BY <1>1, FS_SUBSET
<1>3. QED
  BY <1>2, FS_CardinalityType

LEMMA BackoffFacts ==
  ASSUME NEW level \in Nat, NEW base \in Nat, NEW limit \in Nat
  PROVE  Backoff(level, base, limit).for \in Nat /\ Backoff(level, base, limit).level \in Nat
<1>1. PICK p \in Nat : p = 2^level
  BY Power
<1>2. base * p \in Nat
  OBVIOUS
<1>3. Backoff(level, base, limit) = IF base * p >= limit THEN [for |-> limit, level |-> level]
                                    ELSE [for |-> base * p, level |-> level + 1]
  BY <1>1 DEF Backoff
<1>4. QED
  BY <1>2, <1>3

\* The earliest of some times is a time, and later than none of them but 0.
LEMMA EarliestFacts ==
  ASSUME NEW S \in SUBSET Nat
  PROVE  Earliest(S) \in Nat /\ \A x \in S : x # 0 => Earliest(S) <= x
<1>1. CASE S \ {0} = {}
  BY <1>1 DEF Earliest
<1>2. CASE S \ {0} # {}
  BY <1>2, MinOfNaturals DEF Earliest
<1>3. QED
  BY <1>1, <1>2

(***************************************************************************)
(* What an answer makes of a model's state.                                *)
(***************************************************************************)
LEMMA CleanFacts ==
  /\ Clean \in State /\ NoState \in State
  /\ \A s \in {Clean, NoState} : s.status = "active" /\ ~s.err /\ ~s.exceeded /\ ~s.unavail
<1>1. Clean \in State /\ Clean.status = "active" /\ ~Clean.err /\ ~Clean.exceeded /\ ~Clean.unavail
  BY DEF Clean, State, Statuses
<1>2. NoState \in State /\ NoState.status = "active" /\ ~NoState.err /\ ~NoState.exceeded
      /\ ~NoState.unavail
  BY <1>1 DEF NoState, State, Statuses
<1>3. QED
  BY <1>1, <1>2

LEMMA AfterAnswerFacts ==
  ASSUME NEW s \in State, NEW answer \in Answers, NEW hint \in BOOLEAN, NEW cooling_ \in BOOLEAN,
         NEW t \in Nat
  PROVE  LET r == AfterAnswer(s, answer, hint, cooling_, t)
         IN  /\ r \in State
             /\ answer # "ok" => /\ s.err => r.err
                                 /\ s.exceeded => r.exceeded
             /\ answer \notin {"ok", "scoped"} => r.err
             /\ answer \in {"quota", "limit"} => r.exceeded
             /\ answer # "limit" /\ s.status # "disabled" => r.status # "disabled"
<1> DEFINE r == AfterAnswer(s, answer, hint, cooling_, t)
<1> USE DEF State
<1>1. \A d \in Nat : After(t, cooling_, d) \in Nat
  BY DEF After
<1>2. /\ Failing(s) \in State /\ Failing(s).err /\ Failing(s).status = "error"
      /\ Failing(s).exceeded = s.exceeded /\ Failing(s).level = s.level /\ Failing(s).retry = s.retry
  BY DEF Failing, Statuses
<1>3. ASSUME NEW f \in State
      PROVE  /\ FailQuota(f, hint, cooling_, t) \in State
             /\ FailQuota(f, hint, cooling_, t).err = f.err
             /\ FailQuota(f, hint, cooling_, t).status = f.status
             /\ FailQuota(f, hint, cooling_, t).exceeded
  <2> DEFINE b == Backoff(f.level, QuotaBase, QuotaMax)
             next == After(t, cooling_, IF hint THEN RetryAfter ELSE b.for)
  <2>1. b.for \in Nat /\ b.level \in Nat
    BY BackoffFacts, Numbers
  <2> HIDE DEF b
  <2>2. next \in Nat
    BY <1>1, <2>1, Numbers
  <2> HIDE DEF next
  <2>3. FailQuota(f, hint, cooling_, t) =
          [f EXCEPT !.next = next, !.exceeded = TRUE, !.recover = next,
                    !.level = IF cooling_ /\ ~hint THEN b.level ELSE f.level]
    BY DEF FailQuota, b, next
  <2>4. QED
    BY <2>1, <2>2, <2>3
<1>4. ASSUME NEW f \in State
      PROVE  /\ FailTransient(f, cooling_, t) \in State
             /\ FailTransient(f, cooling_, t).err = f.err
             /\ FailTransient(f, cooling_, t).status = f.status
             /\ FailTransient(f, cooling_, t).exceeded = f.exceeded
  <2> DEFINE b == Backoff(f.retry, TransientBase, TransientMax)
             next == After(t, cooling_, b.for)
  <2>1. b.for \in Nat /\ b.level \in Nat
    BY BackoffFacts, Numbers
  <2> HIDE DEF b
  <2>2. next \in Nat
    BY <1>1, <2>1
  <2> HIDE DEF next
  <2>3. FailTransient(f, cooling_, t) =
          [f EXCEPT !.next = next, !.retry = IF cooling_ THEN b.level ELSE f.retry]
    BY DEF FailTransient, b, next
  <2>4. QED
    BY <2>1, <2>2, <2>3
<1>5. ASSUME NEW f \in State
      PROVE  /\ FailLimit(f, hint, cooling_, t) \in State
             /\ FailLimit(f, hint, cooling_, t).err = f.err
             /\ FailLimit(f, hint, cooling_, t).exceeded
  BY <1>3 DEF FailLimit, Statuses
<1>6. CASE answer = "ok"
  BY <1>6, CleanFacts DEF AfterAnswer
<1>7. CASE answer = "scoped"
  BY <1>7 DEF AfterAnswer
<1>8. CASE answer \in {"unsupported", "auth", "notFound"}
  <2>1. PICK next \in Nat : r = [Failing(s) EXCEPT !.next = next]
    <3>1. t + LongCooldown \in Nat /\ After(t, cooling_, AuthCooldown) \in Nat
          /\ After(t, cooling_, LongCooldown) \in Nat
      BY <1>1, Numbers
    <3>2. QED
      BY <1>8, <3>1 DEF AfterAnswer
  <2>2. QED
    BY <1>2, <1>8, <2>1
<1>9. CASE answer = "quota"
  BY <1>2, <1>3, <1>9 DEF AfterAnswer
<1>10. CASE answer = "limit"
  BY <1>2, <1>5, <1>10 DEF AfterAnswer
<1>11. CASE answer = "transient"
  BY <1>2, <1>4, <1>11 DEF AfterAnswer
<1>12. QED
  BY <1>6, <1>7, <1>8, <1>9, <1>10, <1>11 DEF Answers, Failures

(***************************************************************************)
(* What is made of a credential.                                           *)
(***************************************************************************)
\* While the credential rests, so do its models.
Rests(a) ==
  a.unavail /\ a.next # 0 =>
    \A m \in Known(a) : \/ a.models[m].status = "disabled"
                        \/ a.models[m].unavail /\ a.models[m].next >= a.next

\* a has the models of b, but for times.
Alike(a, b) ==
  \A m \in Models : /\ a.models[m].known = b.models[m].known
                    /\ a.models[m].status = b.models[m].status
                    /\ a.models[m].err = b.models[m].err
                    /\ a.models[m].exceeded = b.models[m].exceeded

LEMMA FreshFacts ==
  ASSUME NEW disabled_ \in BOOLEAN
  PROVE  /\ Fresh(disabled_) \in Credential /\ Fresh(disabled_).disabled = disabled_ /\ ~Fresh(disabled_).limited
         /\ Rests(Fresh(disabled_)) /\ ~Fresh(disabled_).unavail
         /\ ~disabled_ => Fresh(disabled_).status # "disabled"
         /\ \A m \in Models : Fresh(disabled_).models[m] = NoState
BY CleanFacts DEF Fresh, Credential, Statuses, Rests

LEMMA AggregatedFacts ==
  ASSUME NEW a \in Credential, NEW t \in Nat
  PROVE  LET r == Aggregated(a, t)
         IN  /\ r \in Credential /\ Alike(r, a) /\ Rests(r)
             /\ r.disabled = a.disabled /\ r.limited = a.limited /\ r.status = a.status
<1> DEFINE ms == [m \in Models |-> Woken(a.models[m], t)]
           all == Known(a) # {} /\ \A m \in Known(a) : StateBlocked(ms[m], t)
           timed == {m \in Known(a) : ms[m].status # "disabled"}
           over == {m \in Known(a) : ms[m].exceeded}
           next == IF all THEN Earliest({ms[m].next : m \in timed}) ELSE 0
           recover == Earliest({ms[m].recover : m \in over})
           level == Max({0} \cup {ms[m].level : m \in over})
           r == [a EXCEPT !.models = ms, !.unavail = all, !.next = next, !.exceeded = over # {},
                          !.recover = recover, !.level = level]
<1>1. Aggregated(a, t) = r
  BY DEF Aggregated
<1>2. a.models \in [Models -> State]
  BY DEF Credential
<1>3. ASSUME NEW s \in State
      PROVE  /\ Woken(s, t) \in State /\ Woken(s, t).known = s.known /\ Woken(s, t).status = s.status
             /\ Woken(s, t).err = s.err /\ Woken(s, t).exceeded = s.exceeded
  BY DEF Woken, State
<1>4. ms \in [Models -> State]
  BY <1>2, <1>3
<1>5. \A m \in Models : /\ ms[m].known = a.models[m].known /\ ms[m].status = a.models[m].status
                        /\ ms[m].err = a.models[m].err /\ ms[m].exceeded = a.models[m].exceeded
  BY <1>2, <1>3
<1> HIDE DEF ms
<1>6. Known(a) \subseteq Models /\ timed \subseteq Models /\ over \subseteq Models
  BY DEF Known
<1>7. \A m \in Models : ms[m].next \in Nat /\ ms[m].recover \in Nat /\ ms[m].level \in Nat
  BY <1>4 DEF State
<1>8. {ms[m].next : m \in timed} \in SUBSET Nat /\ {ms[m].recover : m \in over} \in SUBSET Nat
      /\ {ms[m].level : m \in over} \in SUBSET Nat
  BY <1>6, <1>7
<1>9. next \in Nat /\ recover \in Nat
  BY <1>8, EarliestFacts
<1>10. level \in Nat
  <2> DEFINE S == {0} \cup {ms[m].level : m \in over}
  <2>1. S \in SUBSET Int /\ S \subseteq Nat /\ S # {}
    BY <1>8
  <2>2. IsFiniteSet(S)
    <3>1. IsFiniteSet(over)
      BY <1>6, CooldownAssumption, FS_Subset
    <3> DEFINE f == [m \in over |-> ms[m].level]
               L == {ms[m].level : m \in over}
    <3>2. IsFiniteSet(L)
      <4>1. f \in Surjection(over, L)
        BY DEF Surjection
      <4>2. QED
        BY <3>1, <4>1, FS_Surjection
    <3>3. IsFiniteSet({0})
      BY FS_Singleton
    <3>4. QED
      BY <3>2, <3>3, FS_Union
  <2>3. Max(S) \in S
    BY <2>1, <2>2, MaxOfIntegers
  <2>4. QED
    BY <2>1, <2>3
<1>11. ASSUME all, next # 0, NEW m \in Known(a)
       PROVE  ms[m].status = "disabled" \/ (ms[m].unavail /\ ms[m].next >= next)
  <2>1. CASE m \in timed
    <3>1. ms[m].unavail /\ ms[m].next > t
      BY <1>11, <2>1 DEF StateBlocked
    <3>2. ms[m].next \in {ms[n].next : n \in timed} /\ ms[m].next # 0
      BY <1>6, <1>7, <2>1, <3>1
    <3>3. Earliest({ms[n].next : n \in timed}) <= ms[m].next
      BY <1>8, <3>2, EarliestFacts
    <3>4. QED
      BY <1>6, <1>7, <1>9, <1>11, <3>1, <3>3
  <2>2. QED
    BY <1>11, <2>1
<1>12. r \in Credential
  BY <1>4, <1>9, <1>10 DEF Credential
<1>13. /\ r.disabled = a.disabled /\ r.limited = a.limited /\ r.status = a.status
       /\ r.models = ms /\ r.unavail = all /\ r.next = next
  BY DEF Credential
<1>14. Alike(r, a)
  BY <1>5, <1>13 DEF Alike
<1>15. Known(r) = Known(a)
  BY <1>5, <1>13 DEF Known
<1>16. Rests(r)
  BY <1>11, <1>13, <1>15 DEF Rests
<1> HIDE DEF r
<1>17. QED
  BY <1>1, <1>12, <1>13, <1>14, <1>16

LEMMA SettledFacts ==
  ASSUME NEW a \in Credential, NEW t \in Nat
  PROVE  LET r == Settled(a, t)
         IN  /\ r \in Credential /\ r.models = a.models
             /\ r.disabled = a.disabled /\ r.limited = a.limited
             /\ r.unavail = a.unavail /\ r.next = a.next
             /\ r.status = a.status \/ r.status = "active"
             /\ (\A m \in Models : ~a.models[m].err /\ a.models[m].status # "error") => r.status = "active"
BY DEF Settled, Credential, Statuses, HasModelError, Known

\* MarkResult: the model gets what the answer says, the others keep what they have.
LEMMA RecordedFacts ==
  ASSUME NEW a \in Credential, NEW m \in Models, NEW answer \in Answers, NEW hint \in BOOLEAN,
         NEW cooling_ \in BOOLEAN, NEW t \in Nat
  PROVE  LET r == Recorded(a, m, answer, hint, cooling_, t)
             s == AfterAnswer(a.models[m], answer, hint, cooling_, t)
         IN  /\ r \in Credential
             /\ Rests(a) => Rests(r)
             /\ answer # "limit" => r.disabled = a.disabled /\ r.limited = a.limited
             /\ answer = "limit" => r.disabled
             /\ answer # "limit" /\ a.status # "disabled" => r.status # "disabled"
             /\ \A n \in Models :
                  LET o == IF n = m THEN s ELSE a.models[n]
                  IN  /\ r.models[n].status = o.status /\ r.models[n].err = o.err
                      /\ r.models[n].exceeded = o.exceeded
<1> DEFINE s == AfterAnswer(a.models[m], answer, hint, cooling_, t)
           ms == [a.models EXCEPT ![m] = s]
           b == [a EXCEPT !.models[m] = AfterAnswer(@, answer, hint, cooling_, t)]
           c == IF answer = "limit" THEN Limited(b) ELSE b
           d == [c EXCEPT !.err = TRUE, !.status = IF @ = "disabled" THEN @ ELSE "error"]
           r == Recorded(a, m, answer, hint, cooling_, t)
<1>1. a.models \in [Models -> State] /\ a.models[m] \in State
  BY DEF Credential
<1>2. s \in State
  BY <1>1, AfterAnswerFacts
<1>3. r = CASE answer = "scoped" -> a
            [] answer = "ok"     -> Settled(Aggregated(b, t), t)
            [] answer \notin {"ok", "scoped"} -> Aggregated(d, t)
  BY DEF Recorded
<1>4. b = [a EXCEPT !.models = ms]
  OBVIOUS
<1>5. answer = "scoped" => s = a.models[m]
  BY DEF AfterAnswer
<1> HIDE DEF s
<1>6. ms \in [Models -> State] /\ \A n \in Models : ms[n] = IF n = m THEN s ELSE a.models[n]
  BY <1>1, <1>2
<1> HIDE DEF ms, b
<1>7. /\ b \in Credential /\ b.models = ms /\ b.disabled = a.disabled /\ b.limited = a.limited
      /\ b.status = a.status
  BY <1>4, <1>6 DEF Credential
<1>8. /\ c \in Credential /\ c.models = ms
      /\ answer # "limit" => c = b
      /\ answer = "limit" => c.disabled
  BY <1>7 DEF Limited, Credential, Statuses
<1> HIDE DEF c
<1>9. /\ d \in Credential /\ d.models = ms /\ d.disabled = c.disabled /\ d.limited = c.limited
      /\ c.status # "disabled" => d.status # "disabled"
  BY <1>8 DEF Credential, Statuses
<1> HIDE DEF d
<1>10. ASSUME NEW e \in Credential, e.models = ms, Alike(r, e)
       PROVE  \A n \in Models :
                  LET o == IF n = m THEN s ELSE a.models[n]
                  IN  /\ r.models[n].status = o.status /\ r.models[n].err = o.err
                      /\ r.models[n].exceeded = o.exceeded
  BY <1>6, <1>10 DEF Alike
<1>11. CASE answer = "scoped"
  BY <1>3, <1>5, <1>11 DEF s
<1>12. CASE answer = "ok"
  <2> DEFINE g == Aggregated(b, t)
  <2>1. /\ g \in Credential /\ Alike(g, b) /\ Rests(g)
        /\ g.disabled = b.disabled /\ g.limited = b.limited /\ g.status = b.status
    BY <1>7, AggregatedFacts
  <2> HIDE DEF g
  <2>2. r = Settled(g, t)
    BY <1>3, <1>12 DEF g
  <2> HIDE DEF r
  <2>3. /\ r \in Credential /\ r.models = g.models
        /\ r.disabled = g.disabled /\ r.limited = g.limited /\ r.unavail = g.unavail /\ r.next = g.next
        /\ r.status = g.status \/ r.status = "active"
    BY <2>1, <2>2, SettledFacts
  <2>4. Rests(r) /\ Alike(r, b)
    BY <2>1, <2>3 DEF Rests, Known, Alike
  <2>5. QED
    BY <1>7, <1>10, <1>12, <2>1, <2>3, <2>4 DEF r, s
<1>13. CASE answer \notin {"ok", "scoped"}
  <2>1. r = Aggregated(d, t)
    BY <1>3, <1>13
  <2> HIDE DEF r
  <2>2. /\ r \in Credential /\ Alike(r, d) /\ Rests(r)
        /\ r.disabled = d.disabled /\ r.limited = d.limited /\ r.status = d.status
    BY <1>9, <2>1, AggregatedFacts
  <2>3. QED
    BY <1>7, <1>8, <1>9, <1>10, <1>13, <2>2 DEF r, s
<1>14. QED
  BY <1>11, <1>12, <1>13

LEMMA ReconciledFacts ==
  ASSUME NEW a \in Credential, NEW supported \in SUBSET Models, NEW t \in Nat
  PROVE  LET r == Reconciled(a, supported, t)
         IN  /\ r \in Credential /\ r.disabled = a.disabled /\ r.limited = a.limited
             /\ Rests(a) => Rests(r)
             /\ a.status # "disabled" => r.status # "disabled"
             /\ \A m \in Models : r.models[m].status = "active"
<1> DEFINE ms == [m \in Models |-> IF m \notin supported \/ ~a.models[m].known THEN NoState ELSE Clean]
           b == [a EXCEPT !.models = ms]
           r == Reconciled(a, supported, t)
<1>1. r = IF ms = a.models THEN a ELSE Settled(Aggregated(b, t), t)
  BY DEF Reconciled
<1>2. ms \in [Models -> State] /\ \A m \in Models : ms[m].status = "active"
  BY CleanFacts
<1> HIDE DEF ms
<1>3. b \in Credential /\ b.models = ms /\ b.disabled = a.disabled /\ b.limited = a.limited
      /\ b.status = a.status
  BY <1>2 DEF Credential
<1> HIDE DEF b, r
<1>4. CASE ms = a.models
  BY <1>1, <1>2, <1>4 DEF r
<1>5. CASE ms # a.models
  <2> DEFINE g == Aggregated(b, t)
  <2>1. /\ g \in Credential /\ Alike(g, b) /\ Rests(g)
        /\ g.disabled = b.disabled /\ g.limited = b.limited /\ g.status = b.status
    BY <1>3, AggregatedFacts
  <2> HIDE DEF g
  <2>2. r = Settled(g, t)
    BY <1>1, <1>5 DEF g
  <2>3. /\ r \in Credential /\ r.models = g.models
        /\ r.disabled = g.disabled /\ r.limited = g.limited /\ r.unavail = g.unavail /\ r.next = g.next
        /\ r.status = g.status \/ r.status = "active"
    BY <2>1, <2>2, SettledFacts
  <2>4. Rests(r) /\ Alike(r, b)
    BY <2>1, <2>3 DEF Rests, Known, Alike
  <2>5. QED
    BY <1>2, <1>3, <2>1, <2>3, <2>4 DEF r, Alike
<1>6. QED
  BY <1>4, <1>5

LEMMA InheritingFacts ==
  ASSUME NEW a \in Credential, NEW b \in Credential
  PROVE  LET r == Inheriting(a, b)
         IN  /\ r \in Credential /\ FileOf(r) = FileOf(a)
             /\ r.disabled = a.disabled /\ r.status = a.status /\ r.unavail = a.unavail
BY DEF Inheriting, Credential, FileOf

LEMMA QuotaFacts ==
  ASSUME NEW a \in Credential, NEW r \in {QuotaEnabled(a), QuotaLimited(a), QuotaUnknown(a)}
  PROVE  r \in Credential /\ r.models = a.models /\ (Rests(a) => Rests(r))
<1>1. CASE r = QuotaEnabled(a)
  BY <1>1 DEF QuotaEnabled, Credential, Statuses, Rests
<1>2. CASE r = QuotaLimited(a)
  BY <1>2 DEF QuotaLimited, Credential, Statuses, Rests, Known
<1>3. CASE r = QuotaUnknown(a)
  BY <1>3 DEF QuotaUnknown, Credential, Statuses, Rests, Known
<1>4. QED
  BY <1>1, <1>2, <1>3

(***************************************************************************)
(* Type correctness.                                                       *)
(***************************************************************************)
FileState == [disabled : BOOLEAN, limited : BOOLEAN]
Result == [at : {"asked", "push", "quota", "suspend", "done"}, model : Models \cup {"none"},
           mark : {"none", "clear", "quota", "suspend"}, auth : Credential]
UpdatePlaces == {"idle", "fetch", "update", "push", "register", "reconcile", "pushReconciled",
                 "entry", "pushEntry"}

Typed ==
  /\ now \in Nat /\ cooling \in BOOLEAN
  /\ core \in Credential /\ sched \in Credential
  /\ registered \in BOOLEAN /\ quota \subseteq Models /\ suspended \subseteq Models
  /\ file \in FileState /\ dirty \in BOOLEAN
  /\ req \in [Workers -> Result]
  /\ \A w \in Workers : /\ req[w].mark # "none" => req[w].at \in {"push", "quota", "suspend"}
                        /\ req[w].at \in {"push", "quota", "suspend"} => req[w].model \in Models
                        /\ req[w].at \in {"quota", "suspend"} => req[w].mark # "none"
                        /\ req[w].at = "quota" => req[w].mark \in {"clear", "quota"}
  /\ upd \in [at : UpdatePlaces, auth : Credential]
  /\ chk \in [at : {"idle", "queued", "asking", "apply", "persist"}, loaded : FileState,
              answer : {"none", "enable", "disable", "error"}]
  /\ chk.at = "apply" => chk.answer # "none"
  /\ raced \subseteq Models /\ crossed \in BOOLEAN

LEMMA AuthOfFacts ==
  ASSUME NEW f \in FileState
  PROVE  /\ AuthOf(f) \in Credential /\ FileOf(AuthOf(f)) = f
         /\ AuthOf(f).disabled = f.disabled /\ ~AuthOf(f).unavail
         /\ ~f.disabled => AuthOf(f).status # "disabled"
<1>1. f.disabled \in BOOLEAN /\ f.limited \in BOOLEAN
  BY DEF FileState
<1>2. /\ Fresh(f.disabled) \in Credential /\ Fresh(f.disabled).disabled = f.disabled
      /\ ~Fresh(f.disabled).unavail
      /\ ~f.disabled => Fresh(f.disabled).status # "disabled"
  BY <1>1, FreshFacts
<1>3. /\ AuthOf(f) \in Credential /\ AuthOf(f).disabled = f.disabled /\ AuthOf(f).limited = f.limited
      /\ AuthOf(f).unavail = Fresh(f.disabled).unavail /\ AuthOf(f).status = Fresh(f.disabled).status
  BY <1>1, <1>2 DEF AuthOf, Credential
<1>4. FileOf(AuthOf(f)) = f
  BY <1>3 DEF FileOf, FileState
<1>5. QED
  BY <1>2, <1>3, <1>4

LEMMA FileOfTyped ==
  ASSUME NEW a \in Credential
  PROVE  FileOf(a) \in FileState /\ FileOf(a).disabled = a.disabled /\ FileOf(a).limited = a.limited
BY DEF FileOf, FileState, Credential

LEMMA SilentTyped ==
  /\ Silent \in Result /\ Silent.at = "done" /\ Silent.mark = "none"
  /\ Fresh(TRUE) \in Credential /\ Fresh(FALSE) \in Credential
  /\ Idle \in [at : UpdatePlaces, auth : Credential]
  /\ NoCheck \in [at : {"idle", "queued", "asking", "apply", "persist"}, loaded : FileState,
                  answer : {"none", "enable", "disable", "error"}]
BY FreshFacts DEF Silent, Result, Idle, UpdatePlaces, NoCheck, FileState

LEMMA InitTyped == Init => Typed
<1> SUFFICES ASSUME Init PROVE Typed
  OBVIOUS
<1>1. core \in Credential /\ sched \in Credential /\ file \in FileState
  BY SilentTyped, FileOfTyped DEF Init
<1>2. /\ req \in [Workers -> Result]
      /\ \A w \in Workers : req[w].mark = "none" /\ req[w].at = "asked"
  BY SilentTyped DEF Init, Result
<1>3. /\ upd \in [at : UpdatePlaces, auth : Credential]
      /\ chk \in [at : {"idle", "queued", "asking", "apply", "persist"}, loaded : FileState,
                  answer : {"none", "enable", "disable", "error"}]
      /\ chk.at = "idle"
  BY SilentTyped DEF Init, NoCheck
<1>4. QED
  BY <1>1, <1>2, <1>3 DEF Init, Typed

LEMMA RequestTyped ==
  ASSUME Typed, NEW w \in Workers,
         \/ \E m \in Models, answer \in Answers, hint \in BOOLEAN : Record(w, m, answer, hint)
         \/ Push(w) \/ MarkQuota(w) \/ MarkSuspended(w)
  PROVE  Typed'
<1> USE DEF Typed
<1>1. req[w] \in Result
  OBVIOUS
<1>2. ASSUME NEW m \in Models, NEW answer \in Answers, NEW hint \in BOOLEAN, Record(w, m, answer, hint)
      PROVE  Typed'
  <2>1. core' \in Credential /\ file' \in FileState /\ dirty' \in BOOLEAN
    <3>1. core' \in Credential
      BY <1>2, RecordedFacts DEF Record
    <3>2. QED
      BY <1>2, <3>1, FileOfTyped DEF Record, Save
  <2>2. MarkFor(answer) \in {"none", "clear", "quota", "suspend"}
    BY DEF MarkFor
  <2>3. req' = [req EXCEPT ![w] = [at |-> "push", model |-> m, mark |-> MarkFor(answer), auth |-> core']]
    BY <1>2 DEF Record
  <2>4. /\ req' \in [Workers -> Result]
        /\ req'[w].at = "push" /\ req'[w].model = m
        /\ \A v \in Workers \ {w} : req'[v] = req[v]
    BY <2>1, <2>2, <2>3 DEF Result
  <2>5. raced' \subseteq Models /\ crossed' \in BOOLEAN
    BY <1>2 DEF Record, RacedBy
  <2>6. QED
    BY <1>2, <2>1, <2>4, <2>5 DEF Record, Registry
<1>3. ASSUME NEW s \in Result, req' = [req EXCEPT ![w] = s],
             s.mark # "none" => s.at \in {"push", "quota", "suspend"},
             s.at \in {"push", "quota", "suspend"} => s.model \in Models,
             s.at \in {"quota", "suspend"} => s.mark # "none",
             s.at = "quota" => s.mark \in {"clear", "quota"},
             UNCHANGED <<now, cooling, core, registered, file, dirty, upd, chk, raced, crossed>>,
             sched' \in Credential, quota' \subseteq Models, suspended' \subseteq Models
      PROVE  Typed'
  <2>1. /\ req' \in [Workers -> Result] /\ req'[w] = s
        /\ \A v \in Workers \ {w} : req'[v] = req[v]
    BY <1>3
  <2>2. QED
    BY <1>3, <2>1
<1>4. CASE Push(w)
  <2> DEFINE s == CASE req[w].mark \in {"clear", "quota"} -> [req[w] EXCEPT !.at = "quota", !.auth = Silent.auth]
                 [] req[w].mark = "suspend"            -> [req[w] EXCEPT !.at = "suspend", !.auth = Silent.auth]
                 [] req[w].mark = "none"               -> Silent
  <2>1. Silent.auth \in Credential
    BY SilentTyped DEF Result
  <2>2. /\ s \in Result
        /\ s.mark # "none" => s.at \in {"push", "quota", "suspend"}
        /\ s.at \in {"push", "quota", "suspend"} => s.model \in Models
        /\ s.at \in {"quota", "suspend"} => s.mark # "none"
        /\ s.at = "quota" => s.mark \in {"clear", "quota"}
    BY <1>1, <1>4, <2>1, SilentTyped DEF Result, Push
  <2>3. req' = [req EXCEPT ![w] = s]
    BY <1>4 DEF Push
  <2> HIDE DEF s
  <2>4. sched' \in Credential /\ quota' \subseteq Models /\ suspended' \subseteq Models
        /\ UNCHANGED <<now, cooling, core, registered, file, dirty, upd, chk, raced, crossed>>
    BY <1>1, <1>4 DEF Push, Registry, Result
  <2>5. QED
    BY <1>3, <2>2, <2>3, <2>4
<1>5. CASE MarkQuota(w)
  <2> DEFINE s == [req[w] EXCEPT !.at = "suspend"]
  <2>1. /\ s \in Result /\ s.at = "suspend" /\ s.mark # "none" /\ s.model \in Models
    BY <1>1, <1>5 DEF Result, MarkQuota
  <2>2. req' = [req EXCEPT ![w] = s]
    BY <1>5 DEF MarkQuota
  <2> HIDE DEF s
  <2>3. sched' \in Credential /\ quota' \subseteq Models /\ suspended' \subseteq Models
        /\ UNCHANGED <<now, cooling, core, registered, file, dirty, upd, chk, raced, crossed>>
    BY <1>5 DEF MarkQuota
  <2>4. QED
    BY <1>3, <2>1, <2>2, <2>3
<1>6. CASE MarkSuspended(w)
  <2>1. req' = [req EXCEPT ![w] = Silent]
    BY <1>6 DEF MarkSuspended
  <2>2. sched' \in Credential /\ quota' \subseteq Models /\ suspended' \subseteq Models
        /\ UNCHANGED <<now, cooling, core, registered, file, dirty, upd, chk, raced, crossed>>
    BY <1>6 DEF MarkSuspended
  <2>3. QED
    BY <1>3, <2>1, <2>2, SilentTyped
<1>7. QED
  BY <1>2, <1>4, <1>5, <1>6

Consumer == ReadFile \/ Fetch \/ Update \/ PushUpdated \/ Register \/ Reconcile
            \/ PushReconciled \/ ReadEntry \/ PushEntry
Check == Dispatch \/ CheckLoad \/ CheckFailed \/ CheckApply \/ CheckPersist
         \/ \E windows \in {"free", "used", "unclear", "unknown"} : CheckAnswered(windows)

LEMMA ConsumerTyped ==
  ASSUME Typed, Consumer
  PROVE  Typed'
<1> USE DEF Typed
<1>1. upd.auth \in Credential /\ upd.at \in UpdatePlaces
  OBVIOUS
<1>2. UNCHANGED <<now, cooling, file, req, chk>>
  BY DEF Consumer, ReadFile, Fetch, Update, PushUpdated, Register, Reconcile, PushReconciled, ReadEntry,
         PushEntry
<1>3. dirty' \in BOOLEAN /\ registered' \in BOOLEAN /\ quota' \subseteq Models /\ suspended' \subseteq Models
  <2>1. upd.auth.disabled \in BOOLEAN
    BY <1>1 DEF Credential
  <2>2. QED
    BY <2>1 DEF Consumer, ReadFile, Fetch, Update, PushUpdated, Register, Reconcile, PushReconciled, ReadEntry,
         PushEntry, Registry
<1>4. core' \in Credential
  <2>1. CASE Update
    BY <1>1, <2>1, InheritingFacts DEF Update
  <2>2. CASE Reconcile
    BY <2>2, ReconciledFacts DEF Reconcile
  <2>3. QED
    BY <2>1, <2>2 DEF Consumer, ReadFile, Fetch, PushUpdated, Register, PushReconciled, ReadEntry,
         PushEntry
<1>5. sched' \in Credential
  BY <1>1 DEF Consumer, ReadFile, Fetch, Update, PushUpdated, Register, Reconcile, PushReconciled, ReadEntry,
         PushEntry
<1>6. Held \subseteq Models /\ \A w \in Workers : req[w].mark # "none" => req[w].model \in Models
  BY DEF Held, Marking
<1>7. raced' \subseteq Models /\ crossed' \in BOOLEAN
  BY <1>6 DEF Consumer, ReadFile, Fetch, Update, PushUpdated, Register, Reconcile, PushReconciled, ReadEntry,
         PushEntry
<1>8. upd' \in [at : UpdatePlaces, auth : Credential]
  <2>1. \A at \in UpdatePlaces, a \in Credential : [at |-> at, auth |-> a] \in [at : UpdatePlaces, auth : Credential]
    OBVIOUS
  <2>2. \A at \in UpdatePlaces : [Idle EXCEPT !.at = at] \in [at : UpdatePlaces, auth : Credential]
    BY SilentTyped
  <2>3. {"idle", "fetch", "update", "push", "register", "reconcile", "pushReconciled",
                 "entry", "pushEntry"} \subseteq UpdatePlaces
    BY DEF UpdatePlaces
  <2>4. CASE ReadFile
    BY <2>1, <2>3, <2>4, AuthOfFacts DEF ReadFile
  <2>5. CASE Fetch
    BY <1>1, <2>1, <2>3, <2>5, InheritingFacts DEF Fetch
  <2>6. CASE Update
    BY <1>4, <2>1, <2>3, <2>6 DEF Update
  <2>7. CASE PushUpdated
    <3>1. Fresh(upd.auth.disabled) \in Credential
      BY <1>1, FreshFacts DEF Credential
    <3>2. QED
      BY <2>1, <2>3, <2>7, <3>1 DEF PushUpdated
  <2>8. CASE Register \/ PushReconciled \/ PushEntry
    BY <2>2, <2>3, <2>8, SilentTyped DEF Register, PushReconciled, PushEntry
  <2>9. CASE Reconcile
    BY <1>4, <2>1, <2>2, <2>3, <2>9 DEF Reconcile
  <2>10. CASE ReadEntry
    BY <2>1, <2>3, <2>10 DEF ReadEntry
  <2>11. QED
    BY <2>4, <2>5, <2>6, <2>7, <2>8, <2>9, <2>10 DEF Consumer
<1>9. QED
  BY <1>2, <1>3, <1>4, <1>5, <1>7, <1>8

LEMMA CheckApplyFacts ==
  ASSUME Typed, CheckApply
  PROVE  /\ core' \in Credential /\ core'.models = core.models /\ (Rests(core) => Rests(core'))
         /\ sched' = core' /\ chk'.at = "persist" /\ chk' = [NoCheck EXCEPT !.at = "persist", !.loaded = FileOf(core')]
         /\ crossed' = (Pushing # {})
         /\ UNCHANGED <<now, cooling, registered, quota, suspended, file, dirty, req, upd, raced>>
<1>1. core' \in {QuotaEnabled(core), QuotaLimited(core), QuotaUnknown(core)}
  BY DEF CheckApply, Typed
<1>2. core \in Credential
  BY DEF Typed
<1>3. core' \in Credential /\ core'.models = core.models /\ (Rests(core) => Rests(core'))
  BY <1>1, <1>2, QuotaFacts
<1>4. QED
  BY <1>3 DEF CheckApply, NoCheck, Registry

LEMMA CheckTyped ==
  ASSUME Typed, Check
  PROVE  Typed'
<1> USE DEF Typed
<1> DEFINE Checks == [at : {"idle", "queued", "asking", "apply", "persist"}, loaded : FileState,
                      answer : {"none", "enable", "disable", "error"}]
<1>1. /\ chk \in Checks /\ NoCheck \in Checks /\ chk.loaded \in FileState
      /\ chk.loaded.disabled \in BOOLEAN /\ chk.loaded.limited \in BOOLEAN
      /\ NoCheck.at = "idle"
  BY SilentTyped DEF FileState, NoCheck
<1>2. CASE Dispatch \/ CheckLoad \/ CheckFailed
  <2>1. chk' \in Checks /\ (chk'.at = "apply" => chk'.answer # "none")
    BY <1>1, <1>2 DEF Dispatch, CheckLoad, CheckFailed
  <2>2. QED
    BY <1>2, <2>1 DEF Dispatch, CheckLoad, CheckFailed, Registry
<1>3. CASE CheckApply
  <2>1. FileOf(core') \in FileState
    BY <1>3, CheckApplyFacts, FileOfTyped
  <2>2. chk' \in Checks /\ chk'.at = "persist" /\ crossed' \in BOOLEAN
    BY <1>1, <1>3, <2>1, CheckApplyFacts
  <2>3. QED
    BY <1>3, <2>2, CheckApplyFacts
<1>4. CASE CheckPersist
  BY <1>1, <1>4 DEF CheckPersist, Registry
<1>5. ASSUME NEW windows \in {"free", "used", "unclear", "unknown"}, CheckAnswered(windows)
      PROVE  Typed'
  <2>1. file' \in FileState
    BY <1>1, <1>5 DEF CheckAnswered, FileState
  <2>2. PICK answer \in {"enable", "disable", "error"} : chk' = [chk EXCEPT !.at = "apply", !.answer = answer]
    BY <1>1, <1>5 DEF CheckAnswered
  <2>3. chk' \in Checks /\ chk'.answer # "none"
    BY <1>1, <2>2
  <2>4. QED
    BY <1>5, <2>1, <2>3 DEF CheckAnswered, Registry
<1>6. QED
  BY <1>2, <1>3, <1>4, <1>5 DEF Check

LEMMA TypedStep == Typed /\ [Next]_vars => Typed'
<1> SUFFICES ASSUME Typed, [Next]_vars PROVE Typed'
  OBVIOUS
<1>1. CASE UNCHANGED vars
  BY <1>1 DEF vars, Typed
<1>2. CASE Tick
  BY <1>2 DEF Tick, Registry, Typed
<1>3. CASE Edit
  <2>1. file' \in FileState
    <3>1. file \in FileState /\ file.disabled \in BOOLEAN /\ (~file.disabled) \in BOOLEAN
      BY DEF Typed, FileState
    <3>2. \A b \in BOOLEAN : [file EXCEPT !.disabled = b] \in FileState
      BY <3>1 DEF FileState
    <3>3. [disabled |-> FALSE, limited |-> FALSE] \in FileState
      BY DEF FileState
    <3>4. \/ file' = [file EXCEPT !.disabled = ~file.disabled]
          \/ file' = [disabled |-> FALSE, limited |-> FALSE]
      BY <1>3 DEF Edit
    <3>5. QED
      BY <3>1, <3>2, <3>3, <3>4
  <2>2. QED
    BY <1>3, <2>1 DEF Edit, Registry, Typed
<1>4. CASE Consumer
  BY <1>4, ConsumerTyped
<1>5. CASE Check
  BY <1>5, CheckTyped
<1>6. QED
  BY <1>1, <1>2, <1>3, <1>4, <1>5, RequestTyped DEF Next, Consumer, Check

\* What a worker has to do after its result.
LEMMA MarkStep ==
  ASSUME Typed, NEW w \in Workers, Push(w) \/ MarkQuota(w) \/ MarkSuspended(w)
  PROVE  /\ \A v \in Workers \ {w} : req'[v] = req[v]
         /\ \/ req'[w].mark = "none"
            \/ /\ req[w].mark # "none" /\ req'[w].mark = req[w].mark /\ req'[w].model = req[w].model
               /\ req'[w].at = "suspend" => MarkQuota(w) \/ req[w].mark = "suspend"
         /\ req'[w].at # "push"
<1>1. req \in [Workers -> Result] /\ req[w] \in Result
  BY DEF Typed
<1>2. CASE Push(w)
  <2>1. CASE req[w].mark \in {"clear", "quota"}
    <3>1. req' = [req EXCEPT ![w] = [req[w] EXCEPT !.at = "quota", !.auth = Silent.auth]]
      BY <1>2, <2>1 DEF Push
    <3>2. QED
      BY <1>1, <2>1, <3>1 DEF Result
  <2>2. CASE req[w].mark = "suspend"
    <3>1. req' = [req EXCEPT ![w] = [req[w] EXCEPT !.at = "suspend", !.auth = Silent.auth]]
      BY <1>2, <2>2 DEF Push
    <3>2. QED
      BY <1>1, <2>2, <3>1 DEF Result
  <2>3. CASE req[w].mark = "none"
    BY <1>1, <1>2, <2>3, SilentTyped DEF Push
  <2>4. QED
    BY <1>1, <2>1, <2>2, <2>3 DEF Result
<1>3. CASE MarkQuota(w)
  <2>1. req' = [req EXCEPT ![w] = [req[w] EXCEPT !.at = "suspend"]] /\ req[w].mark # "none"
    BY <1>3 DEF MarkQuota, Typed
  <2>2. QED
    BY <1>1, <1>3, <2>1 DEF Result
<1>4. CASE MarkSuspended(w)
  BY <1>1, <1>4, SilentTyped DEF MarkSuspended
<1>5. QED
  BY <1>2, <1>3, <1>4


(***************************************************************************)
(* Memory, file and scheduler.                                             *)
(***************************************************************************)
\* The file says of the credential what memory says, or the file is still to be
\* read or written, or what was read of it is on its way.
FileFollowed ==
  \/ dirty \/ chk.at = "persist"
  \/ upd.at \in {"fetch", "update"} /\ FileOf(upd.auth) = file
  \/ upd.at \notin {"fetch", "update"} /\ FileOf(core) = file

\* Only those who are about to replace what they serve leave an enabled credential
\* with something that is disabled.
StatusServes ==
  /\ ~core.disabled /\ core.status = "disabled" => dirty \/ chk.at = "persist" \/ upd.at \in {"fetch", "update"}
  /\ upd.at \in {"fetch", "update"} /\ ~upd.auth.disabled => upd.auth.status # "disabled"
ModelsServe ==
  ~core.disabled /\ (\E m \in Models : core.models[m].status = "disabled") =>
    dirty \/ chk.at = "persist" \/ upd.at \in {"fetch", "update", "push", "register", "reconcile"}

\* Unless results crossed, every snapshot on its way is the latest.
Latest ==
  ~crossed =>
    /\ \A w \in Workers : req[w].at = "push" => req[w].auth = core
    /\ upd.at \in {"push", "pushReconciled", "pushEntry"} => upd.auth = core
    /\ Pushing = {} => sched = core

\* The credential in memory, and the one that is to replace it, rest only with
\* all their models.
AllRest == Rests(core) /\ (upd.at \in {"fetch", "update"} => ~upd.auth.unavail)

Kept == FileFollowed /\ StatusServes /\ ModelsServe /\ Latest /\ AllRest

LEMMA InitKept == Init => Kept
<1> SUFFICES ASSUME Init PROVE Kept
  OBVIOUS
<1>1. /\ core = Fresh(FALSE) /\ sched = core /\ file = FileOf(core) /\ upd.at = "idle"
      /\ \A w \in Workers : req[w].at = "asked"
  <2>1. Idle.at = "idle"
    BY DEF Idle
  <2>2. \A w \in Workers : req[w] = [Silent EXCEPT !.at = "asked"]
    BY DEF Init
  <2>3. QED
    BY <2>1, <2>2, SilentTyped DEF Init, Result
<1>2. Rests(core) /\ core.status # "disabled" /\ \A m \in Models : core.models[m].status # "disabled"
  BY <1>1, FreshFacts, CleanFacts
<1>3. QED
  BY <1>1, <1>2 DEF Kept, FileFollowed, StatusServes, ModelsServe, Latest, AllRest

LEMMA RecordKept ==
  ASSUME Typed, Kept, NEW w \in Workers, NEW m \in Models, NEW answer \in Answers, NEW hint \in BOOLEAN,
         Record(w, m, answer, hint)
  PROVE  Kept'
<1>1. /\ core \in Credential /\ cooling \in BOOLEAN /\ now \in Nat /\ req \in [Workers -> Result]
      /\ core.models \in [Models -> State]
  BY DEF Typed, Credential
<1>2. /\ core' = Recorded(core, m, answer, hint, cooling, now) /\ Save(core')
      /\ req' = [req EXCEPT ![w] = [at |-> "push", model |-> m, mark |-> MarkFor(answer), auth |-> core']]
      /\ crossed' = (Pushing # {}) /\ UNCHANGED <<upd, chk, sched>>
  BY DEF Record
<1>3. /\ core' \in Credential /\ (Rests(core) => Rests(core'))
      /\ answer = "limit" => core'.disabled
      /\ answer # "limit" => core'.disabled = core.disabled
      /\ answer # "limit" /\ core.status # "disabled" => core'.status # "disabled"
      /\ answer # "limit" => \A n \in Models : core.models[n].status # "disabled" => core'.models[n].status # "disabled"
  <2>1. \A n \in Models : n # m => core'.models[n].status = core.models[n].status
    BY <1>1, <1>2, RecordedFacts
  <2>2. core'.models[m].status = AfterAnswer(core.models[m], answer, hint, cooling, now).status
    BY <1>1, <1>2, RecordedFacts
  <2>3. answer # "limit" /\ core.models[m].status # "disabled" => core'.models[m].status # "disabled"
    BY <1>1, <2>2, AfterAnswerFacts
  <2>4. /\ core' \in Credential /\ (Rests(core) => Rests(core'))
        /\ answer = "limit" => core'.disabled
        /\ answer # "limit" => core'.disabled = core.disabled
        /\ answer # "limit" /\ core.status # "disabled" => core'.status # "disabled"
    BY <1>1, <1>2, RecordedFacts
  <2>5. QED
    BY <2>1, <2>3, <2>4
<1>4. dirty' = (dirty \/ file' # file) /\ file' = FileOf(core')
  BY <1>2 DEF Save
<1>5. FileFollowed'
  BY <1>2, <1>4 DEF Kept, FileFollowed
<1>6. StatusServes' /\ ModelsServe'
  BY <1>2, <1>3, <1>4 DEF Kept, StatusServes, ModelsServe
<1>7. Latest'
  <2>1. req'[w].at = "push" /\ req'[w].auth = core' /\ \A v \in Workers \ {w} : req'[v] = req[v]
    BY <1>1, <1>2
  <2>2. Pushing' # {}
    BY <2>1 DEF Pushing
  <2>3. QED
    BY <1>2, <2>1, <2>2 DEF Latest, Pushing
<1>8. AllRest'
  BY <1>2, <1>3 DEF Kept, AllRest
<1>9. QED
  BY <1>5, <1>6, <1>7, <1>8 DEF Kept

LEMMA MarkKept ==
  ASSUME Typed, Kept, NEW w \in Workers, Push(w) \/ MarkQuota(w) \/ MarkSuspended(w)
  PROVE  Kept'
<1>1. UNCHANGED <<core, file, dirty, upd, chk, crossed>> /\ req \in [Workers -> Result]
  BY DEF Push, MarkQuota, MarkSuspended, Typed
<1>2. /\ req'[w].at # "push" /\ \A v \in Workers \ {w} : req'[v] = req[v]
      /\ \/ req[w].at = "push" /\ sched' = req[w].auth
         \/ req[w].at # "push" /\ sched' = sched
  BY MarkStep DEF Push, MarkQuota, MarkSuspended
<1>3. Latest'
  <2>1. req[w].at # "push" => Pushing' = Pushing
    BY <1>1, <1>2 DEF Pushing
  <2>2. QED
    BY <1>1, <1>2, <2>1 DEF Kept, Latest
<1>4. QED
  BY <1>1, <1>3 DEF Kept, FileFollowed, StatusServes, ModelsServe, AllRest

LEMMA ConsumerKept ==
  ASSUME Typed, Kept, Consumer
  PROVE  Kept'
<1>1. /\ core \in Credential /\ upd.auth \in Credential /\ file \in FileState /\ registered \in BOOLEAN
      /\ now \in Nat
  BY DEF Typed
<1>2. Pushing = {} <=> ((\A w \in Workers : req[w].at # "push")
                        /\ upd.at \notin {"push", "pushReconciled", "pushEntry"})
  BY DEF Pushing
<1>3. Pushing' = {} <=> ((\A w \in Workers : req'[w].at # "push")
                        /\ upd'.at \notin {"push", "pushReconciled", "pushEntry"})
  BY DEF Pushing
<1> USE DEF Kept, FileFollowed, StatusServes, ModelsServe, Latest, AllRest
<1>4. CASE ReadFile
  <2>1. /\ upd' = [at |-> "fetch", auth |-> AuthOf(file)] /\ upd.at = "idle"
        /\ UNCHANGED <<core, sched, file, req, chk, crossed>>
    BY <1>4 DEF ReadFile
  <2>2. FileOf(AuthOf(file)) = file /\ ~AuthOf(file).unavail
        /\ (~AuthOf(file).disabled => AuthOf(file).status # "disabled")
    BY <1>1, AuthOfFacts
  <2>3. QED
    BY <1>2, <1>3, <2>1, <2>2
<1>5. CASE Fetch
  <2>1. /\ upd' = [at |-> "update", auth |-> Inheriting(upd.auth, core)] /\ upd.at = "fetch"
        /\ UNCHANGED <<core, sched, file, dirty, req, chk, crossed>>
    BY <1>5 DEF Fetch
  <2>2. /\ FileOf(upd'.auth) = FileOf(upd.auth) /\ upd'.auth.unavail = upd.auth.unavail
        /\ upd'.auth.disabled = upd.auth.disabled /\ upd'.auth.status = upd.auth.status
    BY <1>1, <2>1, InheritingFacts
  <2>3. QED
    BY <1>2, <1>3, <2>1, <2>2
<1>6. CASE Update
  <2>1. /\ core' = Inheriting(upd.auth, core) /\ upd' = [at |-> "push", auth |-> core'] /\ upd.at = "update"
        /\ crossed' = (Pushing # {}) /\ UNCHANGED <<sched, file, dirty, req, chk>>
    BY <1>6 DEF Update
  <2>2. /\ FileOf(core') = FileOf(upd.auth) /\ core'.unavail = upd.auth.unavail
        /\ core'.disabled = upd.auth.disabled /\ core'.status = upd.auth.status
    BY <1>1, <2>1, InheritingFacts
  <2>3. Rests(core')
    BY <2>1, <2>2 DEF Rests
  <2>4. QED
    BY <1>2, <1>3, <2>1, <2>2, <2>3
<1>7. CASE PushUpdated
  BY <1>2, <1>3, <1>7 DEF PushUpdated
<1>8. CASE Register
  BY <1>2, <1>3, <1>8 DEF Register, Idle
<1>9. CASE Reconcile
  <2>1. /\ core' = Reconciled(core, IF registered THEN Models ELSE {}, now) /\ upd.at = "reconcile"
        /\ upd' = IF core' = core THEN [Idle EXCEPT !.at = "entry"]
                                  ELSE [at |-> "pushReconciled", auth |-> core']
        /\ crossed' = (IF core' = core THEN crossed ELSE Pushing # {})
        /\ UNCHANGED <<sched, file, dirty, req, chk>>
    BY <1>9 DEF Reconcile
  <2>2. /\ core'.disabled = core.disabled /\ core'.limited = core.limited
        /\ Rests(core) => Rests(core')
        /\ core.status # "disabled" => core'.status # "disabled"
        /\ \A m \in Models : core'.models[m].status = "active"
    <3>1. (IF registered THEN Models ELSE {}) \in SUBSET Models
      OBVIOUS
    <3>2. QED
      BY <1>1, <2>1, <3>1, ReconciledFacts
  <2>3. FileOf(core') = FileOf(core)
    BY <2>2 DEF FileOf
  <2>4. upd'.at \in {"entry", "pushReconciled"} /\ (upd'.at = "entry" <=> core' = core)
        /\ (upd'.at = "pushReconciled" => upd'.auth = core')
    BY <2>1 DEF Idle
  <2>5. FileFollowed' /\ StatusServes' /\ ModelsServe' /\ AllRest'
    BY <2>1, <2>2, <2>3, <2>4
  <2>6. Latest'
    BY <1>2, <1>3, <2>1, <2>4
  <2>7. QED
    BY <2>5, <2>6
<1>10. CASE PushReconciled
  BY <1>2, <1>3, <1>10 DEF PushReconciled, Idle
<1>11. CASE ReadEntry
  BY <1>2, <1>3, <1>11 DEF ReadEntry
<1>12. CASE PushEntry
  BY <1>2, <1>3, <1>12 DEF PushEntry, Idle
<1>13. QED
  BY <1>4, <1>5, <1>6, <1>7, <1>8, <1>9, <1>10, <1>11, <1>12 DEF Consumer

LEMMA CheckKept ==
  ASSUME Typed, Kept, Check
  PROVE  Kept'
<1>1. UNCHANGED <<req, upd>>
  BY DEF Check, Dispatch, CheckLoad, CheckFailed, CheckApply, CheckPersist, CheckAnswered
<1>2. Pushing' = Pushing
  BY <1>1 DEF Pushing
<1>3. CASE CheckApply
  <2>1. /\ chk'.at = "persist" /\ Rests(core') /\ sched' = core' /\ crossed' = (Pushing # {})
    BY <1>3, CheckApplyFacts DEF Kept, AllRest
  <2>2. Pushing = {} => (\A w \in Workers : req[w].at # "push")
                        /\ upd.at \notin {"push", "pushReconciled", "pushEntry"}
    BY DEF Pushing
  <2>3. QED
    BY <1>1, <1>2, <2>1, <2>2 DEF Kept, FileFollowed, StatusServes, ModelsServe, Latest, AllRest
<1>4. CASE CheckPersist \/ \E windows \in {"free", "used", "unclear", "unknown"} : CheckAnswered(windows)
  <2>1. dirty' /\ UNCHANGED <<core, sched, crossed>>
    BY <1>4 DEF CheckPersist, CheckAnswered
  <2>2. QED
    BY <1>1, <1>2, <2>1 DEF Kept, FileFollowed, StatusServes, ModelsServe, Latest, AllRest
<1>5. CASE Dispatch \/ CheckLoad \/ CheckFailed
  <2>1. UNCHANGED <<core, sched, crossed, file, dirty>> /\ chk.at # "persist"
    BY <1>5 DEF Dispatch, CheckLoad, CheckFailed
  <2>2. QED
    BY <1>1, <1>2, <2>1 DEF Kept, FileFollowed, StatusServes, ModelsServe, Latest, AllRest
<1>6. QED
  BY <1>3, <1>4, <1>5 DEF Check

LEMMA KeptStep == Typed /\ Kept /\ [Next]_vars => Kept'
<1> SUFFICES ASSUME Typed, Kept, [Next]_vars PROVE Kept'
  OBVIOUS
<1>1. CASE UNCHANGED vars \/ Tick
  <2>1. UNCHANGED <<core, sched, file, dirty, req, upd, chk, crossed>>
    BY <1>1 DEF vars, Tick
  <2>2. QED
    BY <2>1 DEF Kept, FileFollowed, StatusServes, ModelsServe, Latest, AllRest, Pushing
<1>2. CASE Edit
  <2>1. UNCHANGED <<core, sched, req, upd, chk, crossed>> /\ dirty'
    BY <1>2 DEF Edit
  <2>2. QED
    BY <2>1 DEF Kept, FileFollowed, StatusServes, ModelsServe, Latest, AllRest, Pushing
<1>3. CASE Consumer
  BY <1>3, ConsumerKept
<1>4. CASE Check
  BY <1>4, CheckKept
<1>5. QED
  BY <1>1, <1>2, <1>3, <1>4, RecordKept, MarkKept DEF Next, Consumer, Check

\* Whatever results, edits, updates of the watcher and quota checks overtake one
\* another, when nothing is under way memory and file agree.
THEOREM MemoryFollowsFile == Spec => []MemoryMatchesFile
<1>1. Init => Typed /\ Kept
  BY InitTyped, InitKept
<1>2. Typed /\ Kept /\ [Next]_vars => (Typed /\ Kept)'
  BY TypedStep, KeptStep
<1>3. Kept => MemoryMatchesFile
  BY DEF Kept, FileFollowed, MemoryMatchesFile, AtRest
<1>4. QED
  BY <1>1, <1>2, <1>3, PTL DEF Spec

\* A credential that is enabled again serves all its models, whoever enabled it.
THEOREM EnabledServes == Spec => []ReenabledServes
<1>1. Init => Typed /\ Kept
  BY InitTyped, InitKept
<1>2. Typed /\ Kept /\ [Next]_vars => (Typed /\ Kept)'
  BY TypedStep, KeptStep
<1>3. Kept => ReenabledServes
  BY DEF Kept, StatusServes, ModelsServe, ReenabledServes, AtRest
<1>4. QED
  BY <1>1, <1>2, <1>3, PTL DEF Spec

\* The scheduler gets the latest snapshot, unless two crossed.
THEOREM SchedulerAlwaysFollows == Spec => []SchedulerFollows
<1>1. Init => Typed /\ Kept
  BY InitTyped, InitKept
<1>2. Typed /\ Kept /\ [Next]_vars => (Typed /\ Kept)'
  BY TypedStep, KeptStep
<1>3. Kept => SchedulerFollows
  BY DEF Kept, Latest, SchedulerFollows
<1>4. QED
  BY <1>1, <1>2, <1>3, PTL DEF Spec

\* A credential rests as a whole only while each of its models does.
THEOREM AggregateAlwaysSound == Spec => []AggregateIsSound
<1>1. Init => Typed /\ Kept
  BY InitTyped, InitKept
<1>2. Typed /\ Kept /\ [Next]_vars => (Typed /\ Kept)'
  BY TypedStep, KeptStep
<1>3. Typed /\ Kept => AggregateIsSound
  <2> SUFFICES ASSUME Typed, Rests(core), core.unavail, now < core.next, NEW m \in Known(core)
               PROVE  Blocked(core, m, now)
    BY DEF AggregateIsSound, Kept, AllRest
  <2>1. core.next \in Nat /\ core.models[m] \in State /\ now \in Nat
    BY DEF Typed, Credential, Known
  <2>2. core.models[m].next \in Nat
    BY <2>1 DEF State
  <2>3. \/ core.models[m].status = "disabled"
        \/ core.models[m].unavail /\ core.models[m].next >= core.next
    BY <2>1 DEF Rests
  <2>4. QED
    BY <2>1, <2>2, <2>3 DEF Blocked, StateBlocked
<1>4. QED
  BY <1>1, <1>2, <1>3, PTL DEF Spec

(***************************************************************************)
(* The marks in the registry.                                              *)
(***************************************************************************)
\* w has to mark m; what it marks it for still shows in the model's state.
Marks(w, m) == req[w].mark # "none" /\ req[w].model = m
Grounded(w, m) ==
  /\ req[w].mark = "quota" => core.models[m].exceeded /\ core.models[m].err
  /\ req[w].mark = "suspend" => core.models[m].err

\* The marks of m have their reasons, or one who clears them is on the way.
Reasoned(m) ==
  /\ \A v, w \in Workers : Marks(v, m) /\ Marks(w, m) => v = w
  /\ \A w \in Workers : Marks(w, m) => Grounded(w, m)
  /\ m \in quota => \/ core.models[m].exceeded
                    \/ \E w \in Workers : Marks(w, m) /\ req[w].mark = "clear" /\ req[w].at # "suspend"
  /\ m \in suspended => \/ core.models[m].err
                        \/ \E w \in Workers : Marks(w, m) /\ req[w].mark = "clear"

\* A registration begins without marks, and nobody is to mark.
Unmarked(m) ==
  m \notin quota /\ m \notin suspended /\ \A w \in Workers : ~Marks(w, m)

MarksRight ==
  /\ upd.at = "reconcile" => \A m \in Models \ raced : Unmarked(m)
  /\ upd.at \notin {"push", "register", "reconcile"} => \A m \in Models \ raced : Reasoned(m)

LEMMA InitMarks == Init => MarksRight
<1> SUFFICES ASSUME Init PROVE MarksRight
  OBVIOUS
<1>1. upd.at = "idle" /\ quota = {} /\ suspended = {}
  BY DEF Init, Idle
<1>2. ASSUME NEW w \in Workers PROVE req[w].mark = "none"
  BY SilentTyped DEF Init, Result
<1>3. QED
  BY <1>1, <1>2 DEF MarksRight, Reasoned, Marks

\* Where nothing is said about marks nor models, nothing is to be shown.
LEMMA SameMarks ==
  ASSUME MarksRight, UNCHANGED <<req, quota, suspended, raced>>, core'.models = core.models,
         upd'.at = "reconcile" => upd.at = "reconcile",
         upd'.at \notin {"push", "register", "reconcile"} => upd.at \notin {"push", "register", "reconcile"}
  PROVE  MarksRight'
BY DEF MarksRight, Reasoned, Unmarked, Marks, Grounded

LEMMA RecordMarks ==
  ASSUME Typed, MarksRight, NEW w \in Workers, NEW m \in Models, NEW answer \in Answers,
         NEW hint \in BOOLEAN, Record(w, m, answer, hint)
  PROVE  MarksRight'
<1>1. /\ core \in Credential /\ cooling \in BOOLEAN /\ now \in Nat /\ req \in [Workers -> Result]
      /\ core.models \in [Models -> State]
  BY DEF Typed, Credential
<1>2. /\ req[w].at = "asked" /\ core' = Recorded(core, m, answer, hint, cooling, now)
      /\ req' = [req EXCEPT ![w] = [at |-> "push", model |-> m, mark |-> MarkFor(answer), auth |-> core']]
      /\ raced' = RacedBy(w, m, answer) /\ UNCHANGED <<upd, quota, suspended>>
  BY DEF Record, Registry
<1>3. /\ req'[w].mark = MarkFor(answer) /\ req'[w].model = m /\ req'[w].at = "push"
      /\ \A v \in Workers \ {w} : req'[v] = req[v]
      /\ req[w].mark = "none"
  BY <1>1, <1>2 DEF Typed
<1>4. \A n \in Models \ {m} : /\ core'.models[n].err = core.models[n].err
                              /\ core'.models[n].exceeded = core.models[n].exceeded
  BY <1>1, <1>2, RecordedFacts
<1>5. ASSUME NEW n \in Models \ {m}, n \notin raced'
      PROVE  /\ n \notin raced
             /\ \A v \in Workers : Marks(v, n)' <=> Marks(v, n)
             /\ Reasoned(n) => Reasoned(n)'
             /\ Unmarked(n) => Unmarked(n)'
  <2>1. n \notin raced
    BY <1>2, <1>5 DEF RacedBy
  <2>2. \A v \in Workers : Marks(v, n)' <=> Marks(v, n)
    BY <1>3, <1>5 DEF Marks
  <2>3. \A v \in Workers : Marks(v, n) => req'[v] = req[v]
    BY <1>3 DEF Marks
  <2>4. QED
    BY <1>2, <1>4, <1>5, <2>1, <2>2, <2>3 DEF Reasoned, Unmarked, Grounded
<1>6. ASSUME m \notin raced', upd.at \notin {"push", "register"}
      PROVE  upd.at # "reconcile" /\ Reasoned(m)'
  <2>1. m \notin HeldBut(w)
    BY <1>2, <1>6 DEF RacedBy
  <2>2. upd.at # "reconcile" /\ \A v \in Workers : ~Marks(v, m)
    <3>1. \A v \in Workers \ {w} : ~Marks(v, m)
      BY <2>1 DEF HeldBut, Marking, Marks
    <3>2. QED
      BY <1>3, <2>1, <3>1 DEF HeldBut, Marks
  <2>3. \A v \in Workers : Marks(v, m)' => v = w
    BY <1>3, <2>2 DEF Marks
  <2>4. CASE answer = "ok"
    <3>1. req'[w].mark = "clear" /\ Marks(w, m)'
      BY <1>3, <2>4 DEF MarkFor, Marks
    <3>2. Grounded(w, m)' /\ req'[w].at # "suspend"
      BY <1>3, <3>1 DEF Grounded
    <3>3. QED
      BY <2>2, <2>3, <3>1, <3>2 DEF Reasoned
  <2>5. CASE answer # "ok"
    <3>1. m \notin raced
      BY <1>2, <1>6, <2>1, <2>5 DEF RacedBy
    <3>2. /\ core.models[m].err => core'.models[m].err
          /\ core.models[m].exceeded => core'.models[m].exceeded
          /\ answer # "scoped" => core'.models[m].err
          /\ answer \in {"quota", "limit"} => core'.models[m].exceeded
      <4>1. LET s == AfterAnswer(core.models[m], answer, hint, cooling, now)
            IN  core'.models[m].err = s.err /\ core'.models[m].exceeded = s.exceeded
        BY <1>1, <1>2, RecordedFacts
      <4>2. QED
        BY <1>1, <2>5, <4>1, AfterAnswerFacts
    <3>3. /\ req'[w].mark = "quota" => answer = "quota"
          /\ req'[w].mark = "suspend" => answer \in {"unsupported", "auth", "notFound"}
      BY <1>3, <2>5 DEF MarkFor
    <3>4. Reasoned(m)
      BY <1>6, <2>2, <3>1 DEF MarksRight
    <3>5. QED
      BY <1>2, <2>2, <2>3, <3>2, <3>3, <3>4 DEF Reasoned, Grounded
  <2>6. QED
    BY <2>2, <2>4, <2>5
<1>7. QED
  BY <1>2, <1>5, <1>6 DEF MarksRight

LEMMA MarkMarks ==
  ASSUME Typed, MarksRight, NEW w \in Workers, Push(w) \/ MarkQuota(w) \/ MarkSuspended(w)
  PROVE  MarksRight'
<1>1. UNCHANGED <<core, upd, raced>> /\ req \in [Workers -> Result]
  BY DEF Push, MarkQuota, MarkSuspended, Typed
<1>2. /\ quota' \subseteq quota \cup {req[w].model} /\ quota \subseteq quota' \cup {req[w].model}
      /\ ~Marks(w, req[w].model) => quota' = quota /\ suspended' = suspended
      /\ suspended' \subseteq suspended \cup {req[w].model}
      /\ suspended \subseteq suspended' \cup {req[w].model}
      /\ req[w].mark = "suspend" => quota' = quota
  <2>1. CASE Push(w)
    BY <2>1 DEF Push, Registry
  <2>2. CASE MarkQuota(w)
    <3>1. req[w].mark \in {"clear", "quota"}
      BY <2>2 DEF MarkQuota, Typed
    <3>2. QED
      BY <2>2, <3>1 DEF MarkQuota, Marks
  <2>3. CASE MarkSuspended(w)
    <3>1. req[w].mark # "none"
      BY <2>3 DEF MarkSuspended, Typed
    <3>2. QED
      BY <2>3, <3>1 DEF MarkSuspended, Marks
  <2>4. QED
    BY <2>1, <2>2, <2>3
<1>3. ASSUME NEW m \in Models, ~Marks(w, m)
      PROVE  /\ ~Marks(w, m)' /\ (m \in quota' <=> m \in quota) /\ (m \in suspended' <=> m \in suspended)
             /\ \A v \in Workers : Marks(v, m)' <=> Marks(v, m)
             /\ \A v \in Workers : Marks(v, m) => req'[v] = req[v]
  <2>1. ~Marks(w, m)' /\ \A v \in Workers \ {w} : req'[v] = req[v]
    BY <1>3, MarkStep DEF Marks
  <2>2. \A v \in Workers : Marks(v, m)' <=> Marks(v, m)
    BY <1>3, <2>1 DEF Marks
  <2>3. \A v \in Workers : Marks(v, m) => req'[v] = req[v]
    BY <1>3, <2>1
  <2>4. (m \in quota' <=> m \in quota) /\ (m \in suspended' <=> m \in suspended)
    <3>1. CASE m = req[w].model
      BY <1>2, <1>3, <3>1
    <3>2. CASE m # req[w].model
      BY <1>2, <3>2
    <3>3. QED
      BY <3>1, <3>2
  <2>5. QED
    BY <2>1, <2>2, <2>3, <2>4
<1>4. ASSUME NEW m \in Models, Unmarked(m) PROVE Unmarked(m)'
  BY <1>3, <1>4 DEF Unmarked
<1>5. ASSUME NEW m \in Models, Reasoned(m) PROVE Reasoned(m)'
  <2>1. CASE ~Marks(w, m)
    BY <1>1, <1>3, <1>5, <2>1 DEF Reasoned, Grounded
  <2>2. CASE Marks(w, m)
    <3>1. \A v \in Workers : Marks(v, m) => v = w
      BY <1>5, <2>2 DEF Reasoned
    <3>2. \A v \in Workers : Marks(v, m)' => v = w
      BY <3>1, MarkStep DEF Marks
    <3>3. Grounded(w, m) /\ req[w].model = m /\ req[w].mark \in {"clear", "quota", "suspend"}
      BY <1>1, <1>5, <2>2 DEF Reasoned, Marks, Result
    <3>4. Marks(w, m)' => Grounded(w, m)' /\ req'[w].mark = req[w].mark
      BY <1>1, <3>3, MarkStep DEF Grounded, Marks
    <3>5. m \in quota' => \/ core.models[m].exceeded
                          \/ Marks(w, m)' /\ req'[w].mark = "clear" /\ req'[w].at # "suspend"
      <4>1. CASE req[w].mark = "clear"
        <5>1. CASE Push(w)
          <6>1. req'[w] = [req[w] EXCEPT !.at = "quota", !.auth = Silent.auth] /\ req[w] \in Result
            BY <1>1, <4>1, <5>1 DEF Push
          <6>2. QED
            BY <3>3, <4>1, <6>1 DEF Result, Marks
        <5>2. CASE MarkQuota(w)
          BY <3>3, <4>1, <5>2 DEF MarkQuota
        <5>3. CASE MarkSuspended(w)
          <6>1. req[w].at = "suspend" /\ quota' = quota
            BY <5>3 DEF MarkSuspended
          <6>2. QED
            BY <1>5, <3>1, <6>1 DEF Reasoned
        <5>4. QED
          BY <5>1, <5>2, <5>3
      <4>2. CASE req[w].mark = "quota"
        BY <3>3, <4>2 DEF Grounded
      <4>3. CASE req[w].mark = "suspend"
        <5>1. m \in quota' => m \in quota
          BY <1>2, <4>3
        <5>2. QED
          BY <1>5, <3>1, <4>3, <5>1 DEF Reasoned
      <4>4. QED
        BY <3>3, <4>1, <4>2, <4>3
    <3>6. m \in suspended' => \/ core.models[m].err
                              \/ Marks(w, m)' /\ req'[w].mark = "clear"
      <4>1. CASE req[w].mark = "clear"
        <5>1. CASE MarkSuspended(w)
          BY <3>3, <4>1, <5>1 DEF MarkSuspended
        <5>2. CASE ~MarkSuspended(w)
          <6>1. req'[w].mark = "clear" /\ req'[w].model = m
            <7>1. CASE Push(w)
              <8>1. req'[w] = [req[w] EXCEPT !.at = "quota", !.auth = Silent.auth] /\ req[w] \in Result
                BY <1>1, <4>1, <7>1 DEF Push
              <8>2. QED
                BY <3>3, <4>1, <8>1 DEF Result
            <7>2. CASE MarkQuota(w)
              <8>1. req'[w] = [req[w] EXCEPT !.at = "suspend"] /\ req[w] \in Result
                BY <1>1, <7>2 DEF MarkQuota
              <8>2. QED
                BY <3>3, <4>1, <8>1 DEF Result
            <7>3. QED
              BY <5>2, <7>1, <7>2
          <6>2. QED
            BY <6>1 DEF Marks
        <5>3. QED
          BY <5>1, <5>2
      <4>2. CASE req[w].mark # "clear"
        BY <3>3, <4>2 DEF Grounded
      <4>3. QED
        BY <4>1, <4>2
    <3>7. QED
      BY <1>1, <2>2, <3>2, <3>4, <3>5, <3>6 DEF Reasoned
  <2>3. QED
    BY <2>1, <2>2
<1>6. QED
  BY <1>1, <1>4, <1>5 DEF MarksRight

LEMMA ConsumerMarks ==
  ASSUME Typed, MarksRight, Consumer
  PROVE  MarksRight'
<1>1. UNCHANGED req
  BY DEF Consumer, ReadFile, Fetch, Update, PushUpdated, Register, Reconcile, PushReconciled, ReadEntry,
         PushEntry
<1>2. ASSUME NEW m \in Models \ Held, NEW w \in Workers PROVE ~Marks(w, m)
  BY <1>2 DEF Held, Marking, Marks
<1>3. CASE Register
  <2>1. upd'.at = "reconcile" /\ quota' = {} /\ suspended' = {} /\ raced' = Held
    BY <1>3 DEF Register, Idle
  <2>2. QED
    BY <1>1, <1>2, <2>1 DEF MarksRight, Unmarked, Marks
<1>4. CASE Reconcile
  <2>1. /\ upd.at = "reconcile" /\ upd'.at \in {"entry", "pushReconciled"}
        /\ UNCHANGED <<quota, suspended>> /\ raced' = raced \cup Held
    BY <1>4 DEF Reconcile, Idle, Registry
  <2>2. \A m \in Models \ raced' : Unmarked(m)
    BY <2>1 DEF MarksRight
  <2>3. QED
    BY <1>1, <2>1, <2>2 DEF MarksRight, Unmarked, Reasoned, Marks
<1>5. CASE Update \/ PushUpdated
  BY <1>5 DEF Update, PushUpdated, MarksRight
<1>6. CASE ReadFile \/ Fetch \/ PushReconciled \/ ReadEntry \/ PushEntry
  <2>1. /\ UNCHANGED <<quota, suspended, raced, core>>
        /\ upd'.at # "reconcile" /\ upd.at \notin {"push", "register", "reconcile"}
    <3>1. CASE ReadFile
      BY <3>1 DEF ReadFile, Registry
    <3>2. CASE Fetch
      BY <3>2 DEF Fetch, Registry
    <3>3. CASE PushReconciled
      BY <3>3 DEF PushReconciled, Registry, Idle
    <3>4. CASE ReadEntry
      BY <3>4 DEF ReadEntry, Registry
    <3>5. CASE PushEntry
      BY <3>5 DEF PushEntry, Registry, Idle
    <3>6. QED
      BY <1>6, <3>1, <3>2, <3>3, <3>4, <3>5
  <2>2. QED
    BY <1>1, <2>1, SameMarks
<1>7. QED
  BY <1>3, <1>4, <1>5, <1>6 DEF Consumer

LEMMA MarksStep == Typed /\ MarksRight /\ [Next]_vars => MarksRight'
<1> SUFFICES ASSUME Typed, MarksRight, [Next]_vars PROVE MarksRight'
  OBVIOUS
<1>1. CASE UNCHANGED vars \/ Tick \/ Edit
  <2>1. UNCHANGED <<req, quota, suspended, raced, core, upd>>
    BY <1>1 DEF vars, Tick, Edit, Registry
  <2>2. QED
    BY <2>1, SameMarks
<1>2. CASE Consumer
  BY <1>2, ConsumerMarks
<1>3. CASE Check
  <2>1. UNCHANGED <<req, quota, suspended, raced, upd>>
    BY <1>3 DEF Check, Dispatch, CheckLoad, CheckFailed, CheckApply, CheckPersist, CheckAnswered, Registry
  <2>2. core'.models = core.models
    BY <1>3, CheckApplyFacts DEF Check, Dispatch, CheckLoad, CheckFailed, CheckPersist, CheckAnswered
  <2>3. QED
    BY <2>1, <2>2, SameMarks
<1>4. QED
  BY <1>1, <1>2, <1>3, RecordMarks, MarkMarks DEF Next, Consumer, Check

\* A mark in the registry has its reason in memory, unless two overlapped.
THEOREM MarksAlwaysFollow == Spec => []MarksFollow
<1>1. Init => Typed /\ MarksRight
  BY InitTyped, InitMarks
<1>2. Typed /\ MarksRight /\ [Next]_vars => (Typed /\ MarksRight)'
  BY TypedStep, MarksStep
<1>3. Typed /\ MarksRight => MarksFollow
  <2> SUFFICES ASSUME Typed, MarksRight, AtRest, NEW m \in Models \ raced
               PROVE  /\ m \in quota => core.models[m].exceeded
                      /\ m \in suspended => core.models[m].err
    BY DEF MarksFollow
  <2>1. \A w \in Workers : ~Marks(w, m)
    BY DEF AtRest, Typed, Marks
  <2>2. Reasoned(m)
    BY DEF AtRest, MarksRight
  <2>3. QED
    BY <2>1, <2>2 DEF Reasoned
<1>4. QED
  BY <1>1, <1>2, <1>3, PTL DEF Spec

(***************************************************************************)
(* RequestExecution: any number of requests and credentials.               *)
(***************************************************************************)
Places == {"pick", "roundOver", "bind", "asking", "streaming", "push", "waiting", "done", "gone"}
Seens == [next : Nat, recover : Nat, level : Nat, retry : Nat]
Locals ==
  [at : Places, auth : Auths \cup {None}, tried : SUBSET Auths, attempt : Nat,
   err : {"none", "hinted", "other"}, wait : Nat, drop : BOOLEAN, failed : BOOLEAN,
   then : {"pick", "streaming", "done"}, sure : BOOLEAN]

RequestsTyped ==
  /\ set \in [cooling : BOOLEAN, compat : BOOLEAN, credentials : Nat, wait : Nat]
  /\ state \in [Auths -> Seens] /\ off \subseteq Auths
  /\ request \in [Requests -> Locals] /\ due \in [Requests -> Int]
  /\ \A r \in Requests :
       request[r].at \in {"bind", "asking", "streaming", "push"} => request[r].auth \in Auths

LEMMA SeenFacts ==
  ASSUME NEW s \in State
  PROVE  Seen(s) \in Seens
BY DEF Seen, Seens, State

LEMMA StateOfFacts ==
  ASSUME RequestsTyped, NEW a \in Auths
  PROVE  /\ StateOf(a) \in State
         /\ StateOf(a).status = "active" /\ StateOf(a).next = state[a].next
<1> DEFINE up == state[a].next > 0
<1>1. state[a] \in Seens /\ up \in BOOLEAN
  BY DEF RequestsTyped
<1>2. StateOf(a) = [Clean EXCEPT !.unavail = up, !.next = state[a].next,
                                 !.recover = state[a].recover, !.level = state[a].level,
                                 !.retry = state[a].retry]
  BY DEF StateOf
<1> HIDE DEF up
<1>3. QED
  BY <1>1, <1>2 DEF Clean, Seens, State, Statuses

\* A credential is off if it is disabled or rests.
LEMMA OffFacts ==
  ASSUME RequestsTyped, NEW a \in Auths, Off(a)
  PROVE  a \in off \/ state[a].next > 0
<1>1. state[a].next \in Nat
  BY DEF RequestsTyped, Seens
<1>2. QED
  BY <1>1, StateOfFacts DEF Off, StateBlocked

LEMMA WaitsFacts ==
  ASSUME RequestsTyped, NEW r \in Requests
  PROVE  Waits(r) \subseteq Nat
<1> DEFINE resting == Resting(request[r].attempt)
           closest == Min({Until(a) : a \in resting})
<1>1. set.wait \in Nat /\ RetryAfter \in Nat
  BY Numbers DEF RequestsTyped
<1>2. resting # {} => closest \in Nat
  <2>1. {Until(a) : a \in resting} \in SUBSET Nat
    <3>1. \A a \in Auths : Until(a) \in Nat
      BY DEF Until, RequestsTyped, Seens
    <3>2. resting \subseteq Auths
      BY DEF Resting
    <3>3. QED
      BY <3>1, <3>2
  <2>2. QED
    BY <2>1, MinOfNaturals
<1> HIDE DEF closest, resting
<1>3. resting # {} => Min({closest, set.wait}) \in Nat
  <2> SUFFICES ASSUME resting # {} PROVE Min({closest, set.wait}) \in Nat
    OBVIOUS
  <2>1. {closest, set.wait} \in SUBSET Nat /\ {closest, set.wait} # {}
    BY <1>1, <1>2
  <2>2. QED
    BY <2>1, MinOfNaturals
<1>4. Waits(r) \in {{}, {Min({closest, set.wait})}, {RetryAfter}}
      /\ (Waits(r) = {Min({closest, set.wait})} => resting # {} \/ Waits(r) = {RetryAfter})
  <2>1. set.wait = 0 \/ set.wait > 0
    BY <1>1
  <2>2. CASE set.wait = 0
    BY <2>2 DEF Waits, closest, resting
  <2>3. CASE set.wait > 0 /\ resting # {}
    BY <2>3, <1>1 DEF Waits, closest, resting
  <2>4. CASE set.wait > 0 /\ resting = {}
    BY <2>4, <1>1 DEF Waits, closest, resting
  <2>5. QED
    BY <2>1, <2>2, <2>3, <2>4
<1>5. QED
  BY <1>1, <1>3, <1>4

\* What a result leaves of the request, the credential and the others.
Marked(r, then) ==
  /\ state' \in [Auths -> Seens] /\ off' \subseteq Auths
  /\ request' \in [Requests -> Locals]
  /\ request'[r].at = "push" /\ request'[r].auth = request[r].auth
  /\ request'[r].then = then /\ request'[r].failed = (then = "streaming")
  /\ \A q \in Requests : request'[q].sure = FALSE
  /\ \A q \in Requests \ {r} : request'[q] = [request[q] EXCEPT !.sure = FALSE]
  /\ due' = [due EXCEPT ![r] = @ - 1]

LEMMA MarkFacts ==
  ASSUME RequestsTyped, NEW r \in Requests, request[r].auth \in Auths,
         NEW answer \in Answers, NEW hint \in BOOLEAN, NEW err \in {"none", "hinted", "other"},
         NEW then \in {"pick", "streaming", "done"}, Mark(r, answer, hint, err, then)
  PROVE  Marked(r, then)
<1> DEFINE a == request[r].auth
           new == AfterAnswer(StateOf(a), answer, hint, set.cooling, 0)
           gone == answer = "limit" \/ a \in off
           drop == answer \notin {"ok", "scoped"} /\ (gone \/ StateBlocked(new, 0))
           broken == then = "streaming"
           own == [request[r] EXCEPT !.at = "push", !.err = err, !.then = then, !.sure = FALSE,
                                     !.drop = drop, !.failed = broken]
<1>1. new \in State
  BY StateOfFacts, AfterAnswerFacts DEF RequestsTyped
<1> HIDE DEF new
<1>2. /\ state' = [state EXCEPT ![a] = Seen(new)]
      /\ off' = IF gone THEN off \cup {a} ELSE off
      /\ due' = [due EXCEPT ![r] = @ - 1]
      /\ request' = [q \in Requests |->
                       IF q = r THEN own ELSE [request[q] EXCEPT !.sure = FALSE]]
  BY DEF Mark, new
<1>3. drop \in BOOLEAN
  BY <1>1 DEF StateBlocked, State
<1>4. request[r] \in Locals /\ \A q \in Requests : request[q] \in Locals
  BY DEF RequestsTyped
<1>5. own \in Locals /\ own.at = "push" /\ own.auth = a /\ own.then = then
      /\ own.failed = broken /\ own.sure = FALSE
  <2>1. broken \in BOOLEAN
    OBVIOUS
  <2> HIDE DEF drop, broken
  <2>2. QED
    BY <1>3, <1>4, <2>1 DEF Locals, Places
<1> HIDE DEF own
<1>6. ASSUME NEW q \in Requests
      PROVE  /\ [request[q] EXCEPT !.sure = FALSE] \in Locals
             /\ [request[q] EXCEPT !.sure = FALSE].sure = FALSE
  BY <1>4 DEF Locals
<1>7. request' \in [Requests -> Locals]
  BY <1>2, <1>5, <1>6
<1>8. state' \in [Auths -> Seens] /\ off' \subseteq Auths
  BY <1>1, <1>2, SeenFacts DEF RequestsTyped
<1>9. QED
  BY <1>2, <1>5, <1>6, <1>7, <1>8 DEF Marked

\* Every result that is recorded is one of these.
LEMMA AnswerMarks ==
  ASSUME NEW r \in Requests, Answer(r)
  PROVE  \E answer \in Answers, hint \in BOOLEAN, err \in {"none", "hinted", "other"},
            then \in {"pick", "done"} : Mark(r, answer, hint, err, then)
<1>1. PICK answer \in ErrorsOf(request[r].auth) \cup {"ok"} : \E hint \in Hints(answer) :
        \/ /\ answer \notin {"ok", "scoped"}
           /\ \E err \in {IF hint THEN "hinted" ELSE "other"}
                         \cup (IF r \in Streams THEN {"other"} ELSE {}) :
                Mark(r, answer, hint, err, "pick")
        \/ answer = "scoped" /\ Mark(r, answer, hint, "other", "done")
        \/ answer = "ok" /\ r \notin Streams /\ Mark(r, answer, hint, "none", "done")
  BY Zenon DEF Answer
<1>2. answer \in Answers /\ Hints(answer) \subseteq BOOLEAN
  BY RequestAssumption DEF ErrorsOf, Answers, Hints
<1>3. QED
  BY <1>1, <1>2

LEMMA StreamMarks ==
  ASSUME NEW r \in Requests, StreamFails(r)
  PROVE  \E answer \in Answers : Mark(r, answer, FALSE, "other", "streaming")
BY RequestAssumption DEF StreamFails, ErrorsOf, Answers

\* What a request does to itself, but for results, leaves the others alone.
Moved(r) ==
  /\ UNCHANGED <<set, state, off>> /\ swapped' \in {swapped, swapped \cap Late}
  /\ request' \in [Requests -> Locals] /\ request'[r].at # "push"
  /\ request'[r].at \in {"bind", "asking", "streaming"} => request'[r].auth \in Auths
  /\ \A q \in Requests \ {r} : request'[q] = request[q]
  /\ due' \in [Requests -> Int] /\ \A q \in Requests \ {r} : due'[q] = due[q]

LEMMA EndedFacts ==
  ASSUME NEW how \in {"done", "gone"}
  PROVE  Ended(how) \in Locals /\ Ended(how).at = how /\ ~Ended(how).sure /\ ~Ended(how).failed
BY DEF Ended, Starting, Locals, Places

LEMMA GoMoves ==
  ASSUME RequestsTyped, NEW r \in Requests, Go(r) \/ Cancel(r),
         ~Answer(r), ~StreamFails(r), ~(StreamCloses(r) /\ ~request[r].failed)
  PROVE  Moved(r)
<1> USE DEF RequestsTyped
<1>1. request[r] \in Locals
  OBVIOUS
<1>2. ASSUME NEW l \in Locals, request' = [request EXCEPT ![r] = l], l.at # "push",
             l.at \in {"bind", "asking", "streaming"} => l.auth \in Auths,
             UNCHANGED <<set, state, off, due>>, swapped' \in {swapped, swapped \cap Late}
      PROVE  Moved(r)
  BY <1>2 DEF Moved
<1>3. CASE LimitReached(r)
  <2> DEFINE l == [request[r] EXCEPT !.at = "roundOver"]
  <2>1. l \in Locals /\ l.at = "roundOver"
    BY <1>1 DEF Locals, Places
  <2>2. request' = [request EXCEPT ![r] = l]
    BY <1>3 DEF LimitReached
  <2> HIDE DEF l
  <2>3. QED
    BY <1>2, <1>3, <2>1, <2>2 DEF LimitReached, Shared
<1>4. CASE Pick(r)
  <2>1. PICK ready \in Ready(Late \cup swapped) :
          \E a \in (IF pin \in ready \ request[r].tried THEN {pin} ELSE ready \ request[r].tried) :
             request' = [request EXCEPT ![r].at = "bind", ![r].auth = a, ![r].tried = @ \cup {a}]
    BY <1>4 DEF Pick
  <2>2. PICK a \in ready \ request[r].tried :
             request' = [request EXCEPT ![r].at = "bind", ![r].auth = a, ![r].tried = @ \cup {a}]
    BY <2>1
  <2> DEFINE l == [request[r] EXCEPT !.at = "bind", !.auth = a, !.tried = @ \cup {a}]
  <2>3. a \in Auths
    BY <2>2 DEF Ready
  <2>4. l \in Locals /\ l.at = "bind" /\ l.auth = a
    BY <1>1, <2>3 DEF Locals, Places
  <2>5. request' = [request EXCEPT ![r] = l]
    BY <2>2
  <2> HIDE DEF l
  <2>6. QED
    BY <1>2, <1>4, <2>3, <2>4, <2>5 DEF Pick, Shared
<1>5. CASE Miss(r)
  <2> DEFINE l == [request[r] EXCEPT !.at = "roundOver"]
  <2>1. l \in Locals /\ l.at = "roundOver"
    BY <1>1 DEF Locals, Places
  <2>2. request' = [request EXCEPT ![r] = l]
    BY <1>5 DEF Miss
  <2> HIDE DEF l
  <2>3. QED
    BY <1>2, <1>5, <2>1, <2>2 DEF Miss
<1>6. CASE Bind(r)
  <2> DEFINE l == [request[r] EXCEPT !.at = "asking"]
  <2>1. l \in Locals /\ l.at = "asking" /\ l.auth = request[r].auth /\ request[r].auth \in Auths
    BY <1>1, <1>6 DEF Locals, Places, Bind
  <2>2. request' = [request EXCEPT ![r] = l] /\ due' = [due EXCEPT ![r] = @ + 1]
    BY <1>6 DEF Bind
  <2> HIDE DEF l
  <2>3. QED
    BY <1>6, <2>1, <2>2 DEF Bind, Moved
<1>7. CASE StreamStarts(r)
  <2> DEFINE l == [request[r] EXCEPT !.at = "streaming", !.tried = {}, !.err = "none"]
  <2>1. l \in Locals /\ l.at = "streaming" /\ l.auth = request[r].auth /\ request[r].auth \in Auths
    BY <1>1, <1>7 DEF Locals, Places, StreamStarts
  <2>2. request' = [request EXCEPT ![r] = l]
    BY <1>7 DEF StreamStarts
  <2> HIDE DEF l
  <2>3. QED
    BY <1>2, <1>7, <2>1, <2>2 DEF StreamStarts, Shared
<1>8. CASE StreamCloses(r)
  <2>1. request' = [request EXCEPT ![r] = Ended("done")] /\ UNCHANGED Shared
    BY <1>8 DEF StreamCloses
  <2>2. QED
    BY <1>2, <2>1, EndedFacts DEF Shared
<1>9. CASE PushResult(r)
  <2> DEFINE again == [request[r] EXCEPT !.at = "pick", !.then = "done", !.drop = FALSE,
                                         !.auth = None]
             stream == [request[r] EXCEPT !.at = "streaming", !.then = "done", !.drop = FALSE]
             l == CASE request[r].then = "pick" -> again
                    [] request[r].then = "streaming" -> stream
                    [] request[r].then = "done" -> Ended("done")
  <2>1. again \in Locals /\ again.at = "pick"
    BY <1>1 DEF Locals, Places
  <2>2. stream \in Locals /\ stream.at = "streaming" /\ stream.auth \in Auths
    BY <1>1, <1>9 DEF Locals, Places, PushResult
  <2>3. request' = [request EXCEPT ![r] = l]
    BY <1>9 DEF PushResult
  <2>4. l \in {again, stream, Ended("done")}
    BY <1>1 DEF Locals
  <2> HIDE DEF l, again, stream
  <2>5. l \in Locals /\ l.at # "push"
        /\ (l.at \in {"bind", "asking", "streaming"} => l.auth \in Auths)
    BY <2>1, <2>2, <2>4, EndedFacts
  <2>6. QED
    BY <1>2, <1>9, <2>3, <2>5 DEF PushResult
<1>10. CASE RoundOver(r)
  <2>1. CASE request' = [request EXCEPT ![r] = Ended("done")]
    BY <1>2, <1>10, <2>1, EndedFacts DEF RoundOver, Shared
  <2>2. ASSUME NEW wait \in Waits(r),
               request' = [request EXCEPT ![r].at = "waiting", ![r].wait = wait,
                                          ![r].sure = Worthwhile(r, wait)]
        PROVE  Moved(r)
    <3> DEFINE sure == Worthwhile(r, wait)
               l == [request[r] EXCEPT !.at = "waiting", !.wait = wait, !.sure = sure]
    <3>1. wait \in Nat /\ sure \in BOOLEAN
      BY WaitsFacts DEF Worthwhile
    <3>2. request' = [request EXCEPT ![r] = l]
      BY <2>2
    <3> HIDE DEF sure
    <3>3. l \in Locals /\ l.at = "waiting"
      BY <1>1, <3>1 DEF Locals, Places
    <3> HIDE DEF l
    <3>4. QED
      BY <1>2, <1>10, <3>2, <3>3 DEF RoundOver, Shared
  <2>3. QED
    BY <1>10, <2>1, <2>2 DEF RoundOver
<1>11. CASE Wake(r)
  <2> DEFINE n == request[r].attempt + 1
             l == [request[r] EXCEPT !.at = "pick", !.attempt = n, !.tried = {}, !.err = "none"]
  <2>1. n \in Nat
    BY <1>1 DEF Locals
  <2>2. request' = [request EXCEPT ![r] = l]
    BY <1>11 DEF Wake
  <2> HIDE DEF n
  <2>3. l \in Locals /\ l.at = "pick"
    BY <1>1, <2>1 DEF Locals, Places
  <2> HIDE DEF l
  <2>4. QED
    BY <1>2, <1>11, <2>2, <2>3 DEF Wake, Shared
<1>12. CASE Cancel(r)
  BY <1>2, <1>12, EndedFacts DEF Cancel, Shared
<1>13. QED
  BY <1>3, <1>4, <1>5, <1>6, <1>7, <1>8, <1>9, <1>10, <1>11, <1>12 DEF Go

\* The recording of a result is one of the answers, of a stream's failures or ends.
RecordsResult(r, answer, err, then) ==
  /\ request[r].at \in {"asking", "streaming"} /\ request[r].auth \in Auths
  /\ request[r].at = "streaming" => ~request[r].failed
  /\ \E hint \in BOOLEAN : Mark(r, answer, hint, err, then)

LEMMA GoOrMark ==
  ASSUME RequestsTyped, NEW r \in Requests, Go(r) \/ Cancel(r)
  PROVE  \/ Moved(r) /\ ~Answer(r) /\ ~StreamFails(r) /\ ~(StreamCloses(r) /\ ~request[r].failed)
         \/ \E answer \in Answers, err \in {"none", "hinted", "other"},
               then \in {"pick", "streaming", "done"} : RecordsResult(r, answer, err, then)
<1>1. CASE Answer(r)
  <2>1. request[r].at = "asking" /\ request[r].auth \in Auths
    BY <1>1 DEF Answer, RequestsTyped
  <2>2. QED
    BY <1>1, <2>1, AnswerMarks DEF RecordsResult
<1>2. CASE StreamFails(r)
  <2>1. request[r].at = "streaming" /\ request[r].auth \in Auths /\ ~request[r].failed
    BY <1>2 DEF StreamFails, RequestsTyped
  <2>2. QED
    BY <1>2, <2>1, StreamMarks DEF RecordsResult
<1>3. CASE StreamCloses(r) /\ ~request[r].failed
  <2>1. request[r].at = "streaming" /\ request[r].auth \in Auths
        /\ Mark(r, "ok", FALSE, "none", "done") /\ "ok" \in Answers
    BY <1>3 DEF StreamCloses, RequestsTyped, Answers
  <2>2. QED
    BY <1>3, <2>1 DEF RecordsResult
<1>4. QED
  BY <1>1, <1>2, <1>3, GoMoves

(***************************************************************************)
(* Every result once, and waits that pay off.                              *)
(***************************************************************************)
\* What was asked and is not recorded, per place; a stream that failed is
\* remembered while its failure is pushed.
Ledger ==
  /\ RecordedOnce
  /\ \A r \in Requests :
       request[r].failed <=> \/ request[r].at = "streaming" /\ request[r].failed
                             \/ request[r].at = "push" /\ request[r].then = "streaming"

\* Somebody who is back after wait, and whom the scheduler knows.
Promised(wait) == \E a \in Auths \ (off \cup (swapped \cap Late)) : state[a].next <= wait

\* A request that is sure has not been disappointed: nobody has recorded a
\* result since, so its credential is back when the wait is over.
Assured(r) ==
  request[r].sure =>
    /\ request[r].at # "push"
    /\ request[r].at \in {"waiting", "pick"} => Promised(request[r].wait)
    /\ request[r].at = "pick" => request[r].wait = 0
    /\ request[r].at = "roundOver" => request[r].tried # {}

RequestsInv == RequestsTyped /\ Ledger /\ \A r \in Requests : Assured(r)

LEMMA RequestsInitInv == RequestsInit => RequestsInv
<1> SUFFICES ASSUME RequestsInit PROVE RequestsInv
  OBVIOUS
<1>1. Starting \in Locals /\ Starting.at = "pick" /\ ~Starting.failed /\ ~Starting.sure
  BY DEF Starting, Locals, Places
<1>2. Seen(NoState) \in Seens
  BY CleanFacts, SeenFacts
<1>3. request \in [Requests -> Locals] /\ due \in [Requests -> Int]
      /\ \A r \in Requests : request[r] = Starting /\ due[r] = 0
  BY <1>1 DEF RequestsInit
<1>4. RequestsTyped
  BY <1>1, <1>2, <1>3, RequestAssumption DEF RequestsInit, RequestsTyped
<1>5. Ledger
  BY <1>1, <1>3 DEF Ledger, RecordedOnce
<1>6. QED
  BY <1>1, <1>3, <1>4, <1>5 DEF RequestsInv, Assured

\* A step of a request, but a result, leaves everybody else's promise.
LEMMA MovedOthers ==
  ASSUME RequestsTyped, NEW r \in Requests, Moved(r)
  PROVE  /\ RequestsTyped' /\ Late' \subseteq Late
         /\ \A wait \in Nat : Promised(wait) => Promised(wait)'
<1>1. RequestsTyped'
  BY DEF RequestsTyped, Moved
<1>2. Late' \subseteq Late
  <2>1. ASSUME NEW q \in Requests, request'[q].at = "push"
        PROVE  request'[q].auth \in Late
    BY <2>1 DEF Moved, Late
  <2>2. QED
    BY <2>1 DEF Late
<1>3. (swapped \cap Late)' \subseteq swapped \cap Late
  BY <1>2 DEF Moved
<1>4. QED
  BY <1>1, <1>2, <1>3 DEF Promised, Moved

LEMMA MovedAssured ==
  ASSUME RequestsInv, NEW r \in Requests, Moved(r), Go(r) \/ Cancel(r),
         ~Answer(r), ~StreamFails(r), ~(StreamCloses(r) /\ ~request[r].failed)
  PROVE  \A q \in Requests : Assured(q)'
<1> USE DEF RequestsInv
<1>1. RequestsTyped' /\ \A wait \in Nat : Promised(wait) => Promised(wait)'
  BY MovedOthers
<1>2. request[r] \in Locals /\ request'[r] \in Locals
  BY DEF RequestsTyped, Moved
<1>3. ASSUME NEW q \in Requests \ {r} PROVE Assured(q)'
  <2>1. request'[q] = request[q] /\ request[q].wait \in Nat
    BY DEF Moved, RequestsTyped, Locals
  <2>2. QED
    BY <1>1, <2>1 DEF Assured
<1>4. SUFFICES Assured(r)'
  BY <1>3
<1>5. Assured(r)
  OBVIOUS
<1>6. ASSUME request'[r].at \notin {"push", "waiting", "pick", "roundOver"} PROVE Assured(r)'
  BY <1>6 DEF Assured
<1>7. ASSUME ~request'[r].sure PROVE Assured(r)'
  BY <1>7 DEF Assured
<1>8. CASE LimitReached(r)
  <2>1. request' = [request EXCEPT ![r].at = "roundOver"] /\ Full(r) /\ request[r].at = "pick"
    BY <1>8 DEF LimitReached
  <2>2. request[r].tried # {}
    <3>1. SUFFICES ASSUME request[r].tried = {} PROVE FALSE
      OBVIOUS
    <3>2. Cardinality(request[r].tried) = 0
      BY <3>1, FS_EmptySet
    <3>3. set.credentials \in Nat
      BY DEF RequestsTyped
    <3>4. QED
      BY <2>1, <3>2, <3>3 DEF Full
  <2>3. request'[r].at = "roundOver" /\ request'[r].tried = request[r].tried
    BY <1>2, <2>1 DEF RequestsTyped, Locals
  <2>4. QED
    BY <2>2, <2>3 DEF Assured
<1>9. CASE Pick(r)
  <2>1. request'[r].at = "bind"
    BY <1>2, <1>9 DEF Pick, RequestsTyped, Locals
  <2>2. QED
    BY <1>6, <2>1
<1>10. CASE Miss(r)
  <2>1. request' = [request EXCEPT ![r].at = "roundOver"] /\ request[r].at = "pick"
    BY <1>10 DEF Miss
  <2>2. PICK ready \in Ready(Late \cap swapped) : ready \ request[r].tried = {}
    BY <1>10 DEF Miss
  <2>3. request'[r].at = "roundOver" /\ request'[r].tried = request[r].tried
        /\ request'[r].sure = request[r].sure
    BY <1>2, <2>1 DEF RequestsTyped, Locals
  <2>4. ASSUME request[r].sure PROVE request[r].tried # {}
    <3>1. Promised(0)
      BY <1>5, <2>1, <2>4 DEF Assured
    <3>2. PICK a \in Auths \ (off \cup (swapped \cap Late)) : state[a].next <= 0
      BY <3>1 DEF Promised
    <3>3. ~Off(a)
      <4>1. state[a].next \in Nat
        BY DEF RequestsTyped, Seens
      <4>2. QED
        BY <3>2, <4>1, OffFacts
    <3>4. a \in ready
      BY <2>2, <3>2, <3>3 DEF Ready
    <3>5. QED
      BY <2>2, <3>4
  <2>5. QED
    BY <2>3, <2>4 DEF Assured
<1>11. CASE Bind(r)
  <2>1. request'[r].at = "asking"
    BY <1>2, <1>11 DEF Bind, RequestsTyped, Locals
  <2>2. QED
    BY <1>6, <2>1
<1>12. CASE StreamStarts(r)
  <2>1. request'[r].at = "streaming"
    BY <1>2, <1>12 DEF StreamStarts, RequestsTyped, Locals
  <2>2. QED
    BY <1>6, <2>1
<1>13. CASE StreamCloses(r)
  <2>1. request'[r] = Ended("done")
    BY <1>13 DEF StreamCloses, RequestsTyped
  <2>2. QED
    BY <1>7, <2>1, EndedFacts
<1>14. CASE PushResult(r)
  <2>1. request[r].at = "push" /\ ~request[r].sure
    BY <1>5, <1>14 DEF PushResult, Assured
  <2>2. request[r].then \in {"pick", "streaming", "done"}
    BY <1>2 DEF Locals
  <2>3. \/ request'[r] = [request[r] EXCEPT !.at = "pick", !.then = "done", !.drop = FALSE,
                                            !.auth = None]
        \/ request'[r] = [request[r] EXCEPT !.at = "streaming", !.then = "done", !.drop = FALSE]
        \/ request'[r] = Ended("done")
    BY <1>14, <2>2 DEF PushResult, RequestsTyped
  <2>4. ~request'[r].sure
    BY <1>2, <2>1, <2>3, EndedFacts DEF Locals
  <2>5. QED
    BY <1>7, <2>4
<1>15. CASE RoundOver(r)
  <2>1. CASE request'[r] = Ended("done")
    BY <1>7, <2>1, EndedFacts
  <2>2. ASSUME NEW wait \in Waits(r),
               request' = [request EXCEPT ![r].at = "waiting", ![r].wait = wait,
                                          ![r].sure = Worthwhile(r, wait)]
        PROVE  Assured(r)'
    <3>1. wait \in Nat
      BY WaitsFacts
    <3>2. /\ request'[r].at = "waiting" /\ request'[r].wait = wait
          /\ request'[r].sure => Worthwhile(r, wait)
      BY <1>2, <2>2 DEF RequestsTyped, Locals
    <3>3. Worthwhile(r, wait) => Promised(wait)
      BY DEF Worthwhile, Promised, Resting
    <3>4. QED
      BY <1>1, <3>1, <3>2, <3>3 DEF Assured
  <2>3. QED
    BY <1>15, <2>1, <2>2 DEF RoundOver, RequestsTyped
<1>16. CASE Wake(r)
  <2>1. request[r].at = "waiting" /\ request[r].wait = 0
    BY <1>16 DEF Wake
  <2>2. request'[r].at = "pick" /\ request'[r].wait = 0 /\ request'[r].sure = request[r].sure
    BY <1>2, <1>16, <2>1 DEF Wake, RequestsTyped, Locals
  <2>3. request[r].sure => Promised(0)
    BY <1>5, <2>1 DEF Assured
  <2>4. QED
    BY <1>1, <2>2, <2>3 DEF Assured
<1>17. CASE Cancel(r)
  <2>1. request'[r] = Ended("gone")
    BY <1>17 DEF Cancel, RequestsTyped
  <2>2. QED
    BY <1>7, <2>1, EndedFacts
<1>18. QED
  BY <1>8, <1>9, <1>10, <1>11, <1>12, <1>13, <1>14, <1>15, <1>16, <1>17 DEF Go

LEMMA MovedLedger ==
  ASSUME RequestsInv, NEW r \in Requests, Moved(r), Go(r) \/ Cancel(r),
         ~Answer(r), ~StreamFails(r), ~(StreamCloses(r) /\ ~request[r].failed)
  PROVE  Ledger'
<1> DEFINE Booked(q) ==
             /\ due[q] \in (CASE request[q].at = "asking"     -> {1}
                              [] request[q].at = "streaming"  -> {IF request[q].failed THEN 0 ELSE 1}
                              [] request[q].at = "gone"       -> {0, 1}
                              [] OTHER                        -> {0})
             /\ request[q].failed <=> \/ request[q].at = "streaming" /\ request[q].failed
                                      \/ request[q].at = "push" /\ request[q].then = "streaming"
<1>1. \A q \in Requests : Booked(q)
  BY DEF RequestsInv, Ledger, RecordedOnce
<1>2. (\A q \in Requests : Booked(q)') => Ledger'
  BY DEF Ledger, RecordedOnce
<1>3. ASSUME NEW q \in Requests \ {r} PROVE Booked(q)'
  <2>1. request'[q] = request[q] /\ due'[q] = due[q] /\ Booked(q)
    BY <1>1 DEF Moved
  <2>2. QED
    BY <2>1
<1>4. SUFFICES Booked(r)'
  BY <1>2, <1>3
<1>5. request[r] \in Locals /\ request \in [Requests -> Locals] /\ due \in [Requests -> Int]
  BY DEF RequestsInv, RequestsTyped
<1>6. Booked(r)
  BY <1>1
<1>7. CASE LimitReached(r) \/ Miss(r)
  <2>1. request' = [request EXCEPT ![r].at = "roundOver"] /\ due' = due /\ request[r].at = "pick"
    BY <1>7 DEF LimitReached, Miss, Shared
  <2>2. request'[r].at = "roundOver" /\ request'[r].failed = request[r].failed
    BY <1>5, <2>1 DEF Locals
  <2>3. QED
    BY <1>6, <2>1, <2>2
<1>8. CASE Pick(r)
  <2>1. due' = due /\ request[r].at = "pick"
    BY <1>8 DEF Pick, Shared
  <2>2. request'[r].at = "bind" /\ request'[r].failed = request[r].failed
    BY <1>5, <1>8 DEF Pick, Locals
  <2>3. QED
    BY <1>6, <2>1, <2>2
<1>9. CASE Bind(r)
  <2>1. request[r].at = "bind" /\ request' = [request EXCEPT ![r].at = "asking"]
        /\ due' = [due EXCEPT ![r] = @ + 1]
    BY <1>9 DEF Bind
  <2>2. request'[r].at = "asking" /\ request'[r].failed = request[r].failed /\ due'[r] = due[r] + 1
    BY <1>5, <2>1 DEF Locals
  <2>3. QED
    BY <1>6, <2>1, <2>2
<1>10. CASE StreamStarts(r)
  <2>1. due' = due /\ request[r].at = "asking"
    BY <1>10 DEF StreamStarts, Shared
  <2>2. request'[r].at = "streaming" /\ request'[r].failed = request[r].failed
    BY <1>5, <1>10 DEF StreamStarts, Locals
  <2>3. QED
    BY <1>6, <2>1, <2>2
<1>11. CASE StreamCloses(r)
  <2>1. request[r].at = "streaming" /\ request[r].failed /\ due' = due
        /\ request'[r] = Ended("done")
    BY <1>5, <1>11 DEF StreamCloses, Shared
  <2>2. QED
    BY <1>6, <2>1, EndedFacts
<1>12. CASE PushResult(r)
  <2>1. request[r].at = "push" /\ due' = due
    BY <1>12 DEF PushResult
  <2>2. request[r].then \in {"pick", "streaming", "done"}
    BY <1>5 DEF Locals
  <2>3. CASE request[r].then = "pick"
    <3>1. request'[r] = [request[r] EXCEPT !.at = "pick", !.then = "done", !.drop = FALSE,
                                           !.auth = None]
      BY <1>5, <1>12, <2>3 DEF PushResult
    <3>2. request'[r].at = "pick" /\ request'[r].failed = request[r].failed
      BY <1>5, <3>1 DEF Locals
    <3>3. QED
      BY <1>6, <2>1, <2>3, <3>2
  <2>4. CASE request[r].then = "streaming"
    <3>1. request'[r] = [request[r] EXCEPT !.at = "streaming", !.then = "done", !.drop = FALSE]
      BY <1>5, <1>12, <2>4 DEF PushResult
    <3>2. request'[r].at = "streaming" /\ request'[r].failed = request[r].failed
      BY <1>5, <3>1 DEF Locals
    <3>3. QED
      BY <1>6, <2>1, <2>4, <3>2
  <2>5. CASE request[r].then = "done"
    <3>1. request'[r] = Ended("done")
      BY <1>5, <1>12, <2>5 DEF PushResult
    <3>2. QED
      BY <1>6, <2>1, <3>1, EndedFacts
  <2>6. QED
    BY <2>2, <2>3, <2>4, <2>5
<1>13. CASE RoundOver(r)
  <2>1. request[r].at = "roundOver" /\ due' = due
    BY <1>13 DEF RoundOver, Shared
  <2>2. CASE request' = [request EXCEPT ![r] = Ended("done")]
    <3>1. request'[r] = Ended("done")
      BY <1>5, <2>2
    <3>2. QED
      BY <1>6, <2>1, <3>1, EndedFacts
  <2>3. ASSUME NEW wait \in Waits(r),
               request' = [request EXCEPT ![r].at = "waiting", ![r].wait = wait,
                                          ![r].sure = Worthwhile(r, wait)]
        PROVE  Booked(r)'
    <3>1. request'[r].at = "waiting" /\ request'[r].failed = request[r].failed
      BY <1>5, <2>3 DEF Locals
    <3>2. QED
      BY <1>6, <2>1, <3>1
  <2>4. QED
    BY <1>13, <2>2, <2>3 DEF RoundOver
<1>14. CASE Wake(r)
  <2>1. due' = due /\ request[r].at = "waiting"
    BY <1>14 DEF Wake, Shared
  <2>2. request'[r].at = "pick" /\ request'[r].failed = request[r].failed
    BY <1>5, <1>14 DEF Wake, Locals
  <2>3. QED
    BY <1>6, <2>1, <2>2
<1>15. CASE Cancel(r)
  <2>1. request[r].at \in {"asking", "streaming", "waiting"} /\ due' = due
        /\ request'[r] = Ended("gone")
    BY <1>5, <1>15 DEF Cancel, Shared
  <2>2. due[r] \in {0, 1}
    BY <1>6, <2>1
  <2>3. QED
    BY <2>1, <2>2, EndedFacts
<1>16. QED
  BY <1>7, <1>8, <1>9, <1>10, <1>11, <1>12, <1>13, <1>14, <1>15 DEF Go

LEMMA MarksInv ==
  ASSUME RequestsInv, NEW r \in Requests, NEW answer \in Answers,
         NEW err \in {"none", "hinted", "other"}, NEW then \in {"pick", "streaming", "done"},
         RecordsResult(r, answer, err, then)
  PROVE  RequestsInv'
<1>1. PICK hint \in BOOLEAN : Mark(r, answer, hint, err, then)
  BY DEF RecordsResult
<1>2. /\ state' \in [Auths -> Seens] /\ off' \subseteq Auths
      /\ request' \in [Requests -> Locals]
      /\ request'[r].at = "push" /\ request'[r].auth = request[r].auth
      /\ request'[r].then = then /\ request'[r].failed = (then = "streaming")
      /\ \A q \in Requests : request'[q].sure = FALSE
      /\ \A q \in Requests \ {r} : request'[q] = [request[q] EXCEPT !.sure = FALSE]
      /\ due' = [due EXCEPT ![r] = @ - 1]
  <2>1. RequestsTyped /\ request[r].auth \in Auths
    BY DEF RequestsInv, RecordsResult
  <2>2. Marked(r, then)
    BY <1>1, <2>1, MarkFacts
  <2>3. QED
    BY <2>2 DEF Marked
<1>3. set' = set
  BY <1>1 DEF Mark
<1>4. RequestsTyped /\ Ledger /\ RecordedOnce
  BY DEF RequestsInv, Ledger
<1>5. ASSUME NEW q \in Requests \ {r}
      PROVE  /\ request'[q].at = request[q].at /\ request'[q].auth = request[q].auth
             /\ request'[q].failed = request[q].failed /\ request'[q].then = request[q].then
             /\ due'[q] = due[q]
  BY <1>2, <1>4 DEF RequestsTyped, Locals
<1>6. due[r] = 1 /\ due' \in [Requests -> Int] /\ due'[r] = 0
  <2>1. due[r] = 1
    BY <1>4 DEF RecordedOnce, RecordsResult
  <2>2. QED
    BY <1>2, <1>4, <2>1 DEF RequestsTyped
<1>7. RequestsTyped'
  BY <1>2, <1>3, <1>4, <1>5, <1>6 DEF RequestsTyped, RecordsResult
<1>8. RecordedOnce'
  <2>1. ASSUME NEW q \in Requests \ {r}
        PROVE  due'[q] \in (CASE request'[q].at = "asking"     -> {1}
                  [] request'[q].at = "streaming"  -> {IF request'[q].failed THEN 0 ELSE 1}
                  [] request'[q].at = "gone"       -> {0, 1}
                  [] OTHER                        -> {0})
    BY <1>4, <1>5 DEF RecordedOnce
  <2>2. QED
    BY <1>2, <1>6, <2>1 DEF RecordedOnce
<1>9. Ledger'
  <2>1. ASSUME NEW q \in Requests \ {r}
        PROVE  request'[q].failed <=> \/ request'[q].at = "streaming" /\ request'[q].failed
                                      \/ request'[q].at = "push" /\ request'[q].then = "streaming"
    BY <1>4, <1>5 DEF Ledger
  <2>2. request'[r].failed <=> \/ request'[r].at = "streaming" /\ request'[r].failed
                               \/ request'[r].at = "push" /\ request'[r].then = "streaming"
    BY <1>2
  <2>3. QED
    BY <1>8, <2>1, <2>2 DEF Ledger
<1>10. \A q \in Requests : Assured(q)'
  BY <1>2 DEF Assured
<1>11. QED
  BY <1>7, <1>9, <1>10 DEF RequestsInv

\* Time brings everybody's return as near as the end of the wait.
LEMMA CountDownInv ==
  ASSUME RequestsInv, CountDown
  PROVE  RequestsInv'
<1>1. RequestsTyped /\ Ledger /\ RecordedOnce
  BY DEF RequestsInv, Ledger
<1>2. ASSUME NEW n \in Nat
      PROVE  Less(n) \in Nat /\ (n = 0 => Less(n) = 0)
             /\ \A m \in Nat : m <= n => Less(m) <= Less(n)
  BY DEF Less
<1>3. /\ state' = [a \in Auths |-> [state[a] EXCEPT !.next = Less(@), !.recover = Less(@)]]
      /\ request' = [r \in Requests |-> [request[r] EXCEPT !.wait = Less(@)]]
      /\ UNCHANGED <<set, off, swapped, pin, due>>
  BY DEF CountDown
<1>4. ASSUME NEW a \in Auths
      PROVE  state'[a] \in Seens /\ state[a].next \in Nat /\ state'[a].next = Less(state[a].next)
  BY <1>1, <1>2, <1>3 DEF RequestsTyped, Seens
<1>5. ASSUME NEW r \in Requests
      PROVE  /\ request'[r] \in Locals /\ request[r].wait \in Nat
             /\ request'[r].wait = Less(request[r].wait)
             /\ request'[r].at = request[r].at /\ request'[r].auth = request[r].auth
             /\ request'[r].failed = request[r].failed /\ request'[r].then = request[r].then
             /\ request'[r].sure = request[r].sure /\ request'[r].tried = request[r].tried
  <2>1. request[r] \in Locals /\ request'[r] = [request[r] EXCEPT !.wait = Less(@)]
    BY <1>1, <1>3 DEF RequestsTyped
  <2>2. request[r].wait \in Nat /\ Less(request[r].wait) \in Nat
    BY <1>2, <2>1 DEF Locals
  <2>3. QED
    BY <2>1, <2>2 DEF Locals
<1>6. RequestsTyped'
  <2>1. state' \in [Auths -> Seens] /\ request' \in [Requests -> Locals]
    BY <1>3, <1>4, <1>5
  <2>2. QED
    BY <1>1, <1>3, <1>5, <2>1 DEF RequestsTyped
<1>7. RecordedOnce'
  <2>1. ASSUME NEW r \in Requests
        PROVE  due'[r] \in (CASE request'[r].at = "asking"     -> {1}
                  [] request'[r].at = "streaming"  -> {IF request'[r].failed THEN 0 ELSE 1}
                  [] request'[r].at = "gone"       -> {0, 1}
                  [] OTHER                        -> {0})
    BY <1>1, <1>3, <1>5 DEF RecordedOnce
  <2>2. QED
    BY <2>1 DEF RecordedOnce
<1>8. Ledger'
  BY <1>1, <1>5, <1>7 DEF Ledger
<1>9. Late' = Late
  BY <1>5 DEF Late
<1>10. ASSUME NEW n \in Nat, Promised(n) PROVE Promised(Less(n))'
  <2>1. PICK a \in Auths \ (off \cup (swapped \cap Late)) : state[a].next <= n
    BY <1>10 DEF Promised
  <2>2. state'[a].next <= Less(n)
    BY <1>2, <1>4, <2>1
  <2>3. QED
    BY <1>3, <1>9, <2>1, <2>2 DEF Promised
<1>11. ASSUME NEW r \in Requests PROVE Assured(r)'
  <2>1. Assured(r) /\ request[r].wait \in Nat
    BY <1>5 DEF RequestsInv
  <2>2. QED
    BY <1>2, <1>5, <1>10, <2>1 DEF Assured
<1>12. QED
  BY <1>6, <1>8, <1>11 DEF RequestsInv

LEMMA RequestsNextInv == RequestsInv /\ [RequestsNext]_requestVars => RequestsInv'
<1> SUFFICES ASSUME RequestsInv, [RequestsNext]_requestVars PROVE RequestsInv'
  OBVIOUS
<1>1. ASSUME NEW r \in Requests, Go(r) \/ Cancel(r) PROVE RequestsInv'
  <2>1. CASE /\ Moved(r) /\ ~Answer(r) /\ ~StreamFails(r)
             /\ ~(StreamCloses(r) /\ ~request[r].failed)
    <3>1. RequestsTyped'
      BY <2>1, MovedOthers DEF RequestsInv
    <3>2. Ledger' /\ \A q \in Requests : Assured(q)'
      BY <1>1, <2>1, MovedLedger, MovedAssured
    <3>3. QED
      BY <3>1, <3>2 DEF RequestsInv
  <2>2. QED
    BY <1>1, <2>1, GoOrMark, MarksInv DEF RequestsInv
<1>2. CASE CountDown
  BY <1>2, CountDownInv
<1>3. CASE Expire
  BY <1>3 DEF Expire, RequestsInv, RequestsTyped, Ledger, RecordedOnce, Assured, Promised, Late
<1>4. CASE UNCHANGED requestVars
  BY <1>4 DEF requestVars, RequestsInv, RequestsTyped, Ledger, RecordedOnce, Assured, Promised,
              Late
<1>5. QED
  BY <1>1, <1>2, <1>3, <1>4 DEF RequestsNext, Work

LEMMA RequestsInvariant == RequestsSpec => []RequestsInv
BY RequestsInitInv, RequestsNextInv, PTL DEF RequestsSpec

\* Every ask has one result, for any number of requests and credentials, and any
\* order of answers, failures of streams, waits and departures of clients.
THEOREM AsksAreRecorded == RequestsSpec => []RecordedOnce
<1>1. RequestsInv => RecordedOnce
  BY DEF RequestsInv, Ledger
<1>2. QED
  BY <1>1, RequestsInvariant, PTL

\* A request that waited for a whole rest, while no result came in, asks somebody.
THEOREM WaitsPayOff == RequestsSpec => []WaitIsWorthIt
<1>1. RequestsInv => WaitIsWorthIt
  BY DEF RequestsInv, WaitIsWorthIt, Assured
<1>2. QED
  BY <1>1, RequestsInvariant, PTL
==============================================================================
