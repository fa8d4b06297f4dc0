-------------------------- MODULE AutoRefreshProofs --------------------------
(***************************************************************************)
(* Proofs about AutoRefresh: for all credentials, workers, capacities,     *)
(* intervals and backoffs the loop forgets no credential, schedules none   *)
(* too late, looks at everything that is dirty and does not spin.          *)
(***************************************************************************)
EXTENDS AutoRefresh, TLAPS

Instant == 0 .. Never
Credential ==
  [present : BOOLEAN, disabled : BOOLEAN, auto : Instant \cup {NoTime},
   nra : Instant \cup {NoTime}, due : Instant]
LoopState ==
  [phase : {"idle", "due", "dirty"}, step : {"pick", "mark", "note", "send", "put"},
   ids : SUBSET Auths, id : Auths \cup {NoAuth}, next : Instant \cup {NoTime}, t : Time]
WorkerState ==
  [step : {"free", "refresh", "recheck", "note", "done"}, id : Auths \cup {NoAuth},
   seen : Credential]

\* Every variable has the shape of its fields; a step that speaks of a
\* credential has one, the loop has none between two, and its clock is not ahead.
LoopRight ==
  /\ loop \in LoopState
  /\ loop.step = "pick" <=> loop.id = NoAuth
  /\ loop.phase = "idle" => loop.step = "pick" /\ loop.ids = {}
  /\ loop.t <= now
WorkersRight ==
  /\ worker \in [Workers -> WorkerState]
  /\ \A w \in Workers : worker[w].step # "free" => worker[w].id \in Auths
Typed ==
  /\ auth \in [Auths -> Credential]
  /\ queue \in [Auths -> Instant \cup {NoTime}]
  /\ dirty \subseteq Auths /\ signalling \subseteq Auths /\ wake \in BOOLEAN
  /\ writers \in [Auths -> Nat]
  /\ jobs \in Seq(Auths)
  /\ now \in Time
  /\ LoopRight /\ WorkersRight

(***************************************************************************)
(* The decisions.                                                          *)
(***************************************************************************)
LEMMA Constant ==
  /\ MaxTime \in Nat /\ NoAuth \notin Auths
  /\ PendingBackoff \in Nat /\ FailureBackoff \in Nat /\ IneffectiveBackoff \in Nat
  /\ Interval \in Nat /\ Life \in Nat
BY ConstantsAssumption

LEMMA AfterType ==
  ASSUME NEW t \in Time, NEW d \in Nat
  PROVE  After(t, d) \in Instant
BY Constant DEF After, Instant, Never, Time

LEMMA NextCheckType ==
  ASSUME NEW a \in Credential, NEW t \in Time
  PROVE  NextCheck(a, t) \in Instant \cup {NoTime}
BY Constant DEF NextCheck, Credential, Instant, Never, Time, Later, NoTime

\* A refreshable credential has a next check, and the later one asks the later it is.
LEMMA NextCheckGrows ==
  ASSUME NEW a \in Credential, NEW t \in Time, NEW u \in Time, t <= u,
         a.present, ~a.disabled, a.due # Never
  PROVE  NextCheck(a, t) \in 0 .. NextCheck(a, u)
BY Constant DEF NextCheck, Credential, Instant, Never, Time, Later, NoTime

LEMMA CredentialFacts ==
  ASSUME NEW c \in Credential, NEW n \in Instant \cup {NoTime}, NEW b \in BOOLEAN
  PROVE  /\ [c EXCEPT !.nra = n] \in Credential
         /\ [c EXCEPT !.auto = n] \in Credential
         /\ [c EXCEPT !.disabled = b] \in Credential
         /\ n \in Instant => [c EXCEPT !.due = n] \in Credential
BY DEF Credential

(***************************************************************************)
(* Type correctness.                                                       *)
(***************************************************************************)
LEMMA InitTyped == Init => Typed
<1> SUFFICES ASSUME Init PROVE Typed
  OBVIOUS
<1>1. Never \in Instant /\ 0 \in Time /\ Absent \in Credential
  BY Constant DEF Never, Instant, Time, Absent, Credential, NoTime
<1>2. LoopRight
  BY <1>1, Constant DEF Init, LoopRight, LoopState, Idle, NoTime, NoAuth
<1>3. WorkersRight
  BY <1>1 DEF Init, WorkersRight, WorkerState, Free
<1>4. auth \in [Auths -> Credential] /\ queue \in [Auths -> Instant \cup {NoTime}]
  BY <1>1 DEF Init
<1>5. jobs \in Seq(Auths)
  BY DEF Init
<1>6. QED
  BY <1>1, <1>2, <1>3, <1>4, <1>5 DEF Init, Typed

LEMMA LoopTyped ==
  ASSUME Typed, LoopStep
  PROVE  Typed'
<1> USE DEF Typed
<1>0. now \in Time /\ loop.t \in Time /\ 0 \in Time /\ NoTime \in Instant \cup {NoTime}
  BY Constant DEF LoopRight, LoopState, Time
<1>1. CASE LoopWake
  <2>1. loop' = [phase |-> "dirty", step |-> "pick", ids |-> dirty, id |-> NoAuth,
                 next |-> NoTime, t |-> now]
    BY <1>1 DEF LoopWake, Idle
  <2>2. LoopRight'
    <3>1. dirty \subseteq Auths /\ now' = now
      BY <1>1 DEF LoopWake
    <3>2. QED
      BY <1>0, <2>1, <3>1, Constant DEF LoopRight, LoopState, Time
  <2>3. QED
    BY <2>2, <1>1 DEF LoopWake, WorkersRight
<1>2. CASE LoopTimer
  <2> DEFINE due == {a \in Auths : queue[a] # NoTime /\ queue[a] <= now}
  <2>1. LoopRight'
    <3>1. due \subseteq Auths
      OBVIOUS
    <3>2. loop' = [phase |-> "due", step |-> "pick", ids |-> due, id |-> NoAuth,
                   next |-> NoTime, t |-> now] /\ now' = now
      BY <1>2 DEF LoopTimer, Idle
    <3> HIDE DEF due
    <3>3. QED
      BY <1>0, <3>1, <3>2, Constant DEF LoopRight, LoopState, Time
  <2>2. queue' \in [Auths -> Instant \cup {NoTime}]
    BY <1>2 DEF LoopTimer
  <2>3. QED
    BY <2>1, <2>2, <1>2 DEF LoopTimer, WorkersRight
<1>3. CASE MarkPending
  <2>1. loop.id \in Auths /\ loop.step = "mark"
    BY <1>3 DEF MarkPending, LoopRight, LoopState
  <2>2. auth[loop.id] \in Credential /\ After(loop.t, PendingBackoff) \in Instant
        /\ NextCheck(auth[loop.id], loop.t) \in Instant \cup {NoTime}
    BY <2>1, <1>0, Constant, AfterType, NextCheckType
  <2>3. LoopRight'
    <3>1. \/ loop' = [loop EXCEPT !.step = "note"]
          \/ loop' = [loop EXCEPT !.step = "put", !.next = NextCheck(auth[loop.id], loop.t)]
      BY <1>3 DEF MarkPending
    <3>2. now' = now /\ loop.id # NoAuth
      BY <1>3, <2>1, Constant DEF MarkPending
    <3>3. QED
      BY <3>1, <3>2, <2>1, <2>2 DEF LoopRight, LoopState
  <2>4. auth' \in [Auths -> Credential]
    <3>1. [auth[loop.id] EXCEPT !.nra = After(loop.t, PendingBackoff)] \in Credential
      BY <2>2, CredentialFacts
    <3>2. \/ auth' = auth
          \/ auth' = [auth EXCEPT ![loop.id] =
                        [auth[loop.id] EXCEPT !.nra = After(loop.t, PendingBackoff)]]
      BY <2>1, <1>3 DEF MarkPending
    <3>3. QED
      BY <2>1, <3>1, <3>2
  <2>5. QED
    BY <2>1, <2>3, <2>4, <1>3 DEF MarkPending, WorkersRight
<1>4. CASE SendJob
  <2>1. loop.id \in Auths
    BY <1>4 DEF SendJob, LoopRight, LoopState
  <2>2. LoopRight'
    BY <1>4 DEF SendJob, LoopRight, LoopState
  <2>3. QED
    BY <2>1, <2>2, <1>4 DEF SendJob, WorkersRight
<1>5. CASE PutEntry
  <2>1. loop.next \in Instant \cup {NoTime}
    BY DEF LoopRight, LoopState
  <2>2. LoopRight'
    BY <1>5 DEF PutEntry, LoopRight, LoopState
  <2>3. QED
    BY <2>1, <2>2, <1>5 DEF PutEntry, WorkersRight
<1>6. CASE DrainDirty
  <2>1. LoopRight'
    BY <1>6 DEF DrainDirty, LoopRight, LoopState
  <2>2. QED
    BY <2>1, <1>6 DEF DrainDirty, WorkersRight
<1>7. CASE ResetTimer
  <2>1. LoopRight'
    BY <1>0, <1>7, Constant DEF ResetTimer, LoopRight, LoopState, Idle, Time
  <2>2. QED
    BY <2>1, <1>7 DEF ResetTimer, WorkersRight
<1>8. ASSUME NEW a \in Auths, HandleDue(a) PROVE Typed'
  <2>1. NextCheck(auth[a], loop.t) \in Instant \cup {NoTime} /\ After(loop.t, Interval) \in Instant
    BY <1>0, Constant, AfterType, NextCheckType
  <2>2. a # NoAuth
    BY Constant
  <2>3. LoopRight'
    BY <2>1, <2>2, <1>8 DEF HandleDue, LoopRight, LoopState
  <2>4. QED
    BY <2>3, <1>8 DEF HandleDue, WorkersRight
<1>9. ASSUME NEW a \in Auths, ReadDirty(a) PROVE Typed'
  <2>1. NextCheck(auth[a], loop.t) \in Instant \cup {NoTime} /\ a # NoAuth
    BY <1>0, Constant, NextCheckType
  <2>2. LoopRight'
    BY <2>1, <1>9 DEF ReadDirty, LoopRight, LoopState
  <2>3. QED
    BY <2>2, <1>9 DEF ReadDirty, WorkersRight
<1>10. CASE NotePending
  <2>1. loop.id \in Auths
    BY <1>10 DEF NotePending, LoopRight, LoopState
  <2>2. LoopRight'
    BY <1>10 DEF NotePending, LoopRight, LoopState
  <2>3. QED
    BY <2>1, <2>2, <1>10 DEF NotePending, Reschedule, WorkersRight
<1>11. QED
  BY <1>1, <1>2, <1>3, <1>4, <1>5, <1>6, <1>7, <1>8, <1>9, <1>10 DEF LoopStep


LEMMA WorkerTyped ==
  ASSUME Typed, NEW w \in Workers, WorkerStep(w)
  PROVE  Typed'
<1> DEFINE a == worker[w].id
<1> USE DEF Typed
<1>0. now \in Time /\ NoTime \in Instant \cup {NoTime} /\ Absent \in Credential /\ 1 \in Nat
  BY Constant DEF Absent, Credential, Instant, Never
<1>1. /\ worker[w].seen \in Credential
      /\ worker[w].step # "free" => a \in Auths /\ auth[a] \in Credential
  BY DEF WorkersRight, WorkerState
<1>2. After(now, FailureBackoff) \in Instant /\ After(now, IneffectiveBackoff) \in Instant
      /\ After(now, Life) \in Instant /\ After(now, 1) \in Instant
  BY <1>0, Constant, AfterType
<1>3. ASSUME Written(w), worker[w].step # "free"
      PROVE  WorkersRight' /\ UNCHANGED <<dirty, writers, signalling>>
  BY <1>0, <1>1, <1>3 DEF Written, WorkersRight, WorkerState
<1>4. ASSUME UNCHANGED <<loop, now>> PROVE LoopRight'
  BY <1>4 DEF LoopRight
<1>5. CASE WorkerTake(w)
  <2> DEFINE b == Head(jobs)
             j == [step |-> IF auth[b].disabled /\ auth[b].auto # NoTime
                            THEN "recheck" ELSE "refresh", id |-> b, seen |-> auth[b]]
  <2>1. b \in Auths /\ Tail(jobs) \in Seq(Auths)
    BY <1>5 DEF WorkerTake
  <2>2. j \in WorkerState /\ j.step # "free" /\ j.id \in Auths
    BY <2>1 DEF WorkerState
  <2>3. worker' = [worker EXCEPT ![w] = j]
    BY <1>5 DEF WorkerTake
  <2> HIDE DEF j
  <2>4. WorkersRight'
    BY <2>2, <2>3 DEF WorkersRight
  <2>5. QED
    BY <2>1, <2>4, <1>4, <1>5 DEF WorkerTake, schedule
<1>6. CASE RefreshFails(w)
  <2>1. [auth[a] EXCEPT !.nra = After(now, FailureBackoff)] \in Credential
    BY <1>1, <1>2, <1>6, CredentialFacts DEF RefreshFails
  <2>2. auth' = [auth EXCEPT ![a] = [auth[a] EXCEPT !.nra = After(now, FailureBackoff)]]
    BY <1>6, <1>1 DEF RefreshFails
  <2>3. auth' \in [Auths -> Credential]
    BY <2>1, <2>2
  <2>4. QED
    BY <2>3, <1>1, <1>3, <1>4, <1>6 DEF RefreshFails, schedule
<1>7. ASSUME NEW due \in {worker[w].seen.due, After(now, Life)}, RefreshSucceeds(w, due)
      PROVE  Typed'
  <2> DEFINE c == [worker[w].seen EXCEPT !.due = due, !.nra = NoTime]
             d == [c EXCEPT !.nra = After(now, IneffectiveBackoff)]
  <2>1. due \in Instant
    BY <1>1, <1>2 DEF Credential
  <2>2. c \in Credential
    BY <2>1, <1>0, <1>1 DEF Credential
  <2>3. d \in Credential
    BY <2>2, <1>2, CredentialFacts
  <2>4. auth' = [auth EXCEPT ![a] = IF ShouldRefresh(c, now) THEN d ELSE c]
    BY <1>7 DEF RefreshSucceeds
  <2> HIDE DEF c, d
  <2>5. auth' \in [Auths -> Credential]
    BY <2>2, <2>3, <2>4
  <2>6. QED
    BY <2>5, <1>1, <1>3, <1>4, <1>7 DEF RefreshSucceeds, schedule
<1>8. ASSUME NEW outcome \in {"recovered", "limited", "error"}, Recheck(w, outcome)
      PROVE  Typed'
  <2>1. a \in Auths /\ auth[a] \in Credential /\ worker[w].step # "free"
    BY <1>1, <1>8 DEF Recheck
  <2>2. \E n, m \in Instant \cup {NoTime}, b \in BOOLEAN :
          auth' = [auth EXCEPT ![a] = [auth[a] EXCEPT !.disabled = b, !.auto = n, !.nra = m]]
    <3>1. CASE outcome = "recovered"
      <4>1. auth' = [auth EXCEPT ![a] = [auth[a] EXCEPT !.disabled = FALSE, !.auto = NoTime,
                                                        !.nra = NoTime]]
        BY <2>1, <3>1, <1>8 DEF Recheck
      <4>2. QED
        BY <4>1, <1>0
    <3>2. CASE outcome = "limited"
      <4>1. auth' = [auth EXCEPT ![a] = [auth[a] EXCEPT !.disabled = TRUE, !.auto = After(now, 1),
                                                        !.nra = NoTime]]
        BY <2>1, <3>2, <1>8 DEF Recheck
      <4>2. QED
        BY <4>1, <1>0, <1>2
    <3>3. CASE outcome = "error"
      <4> DEFINE f == After(now, FailureBackoff)
      <4>1. auth' = [auth EXCEPT ![a] = [auth[a] EXCEPT !.auto = f, !.nra = f]]
        BY <2>1, <3>3, <1>8 DEF Recheck
      <4> HIDE DEF f
      <4>2. [auth[a] EXCEPT !.auto = f, !.nra = f]
              = [auth[a] EXCEPT !.disabled = auth[a].disabled, !.auto = f, !.nra = f]
        BY <2>1 DEF Credential
      <4>3. f \in Instant /\ auth[a].disabled \in BOOLEAN
        BY <2>1, <1>2 DEF f, Credential
      <4>4. QED
        BY <4>1, <4>2, <4>3
    <3>4. QED
      BY <3>1, <3>2, <3>3
  <2>3. auth' \in [Auths -> Credential]
    <3>1. PICK n, m \in Instant \cup {NoTime}, b \in BOOLEAN :
            auth' = [auth EXCEPT ![a] = [auth[a] EXCEPT !.disabled = b, !.auto = n, !.nra = m]]
      BY <2>2
    <3>2. [auth[a] EXCEPT !.disabled = b, !.auto = n, !.nra = m] \in Credential
      BY <2>1 DEF Credential
    <3>3. QED
      BY <3>1, <3>2
  <2>4. QED
    BY <2>1, <2>3, <1>3, <1>4, <1>8 DEF Recheck, schedule
<1>9. CASE WorkerDone(w)
  <2>1. WorkersRight'
    BY <1>0, <1>9 DEF WorkerDone, WorkersRight, WorkerState, Free
  <2>2. QED
    BY <2>1, <1>1, <1>4, <1>9 DEF WorkerDone, Reschedule, schedule
<1>10. CASE NoteRefresh(w)
  <2>1. WorkersRight'
    BY <1>1, <1>10 DEF NoteRefresh, WorkersRight, WorkerState
  <2>2. QED
    BY <2>1, <1>1, <1>4, <1>10 DEF NoteRefresh, Reschedule, schedule
<1>11. QED
  BY <1>5, <1>6, <1>7, <1>8, <1>9, <1>10 DEF WorkerStep


LEMMA OutsideTyped ==
  ASSUME Typed, Outside
  PROVE  Typed'
<1> USE DEF Typed
<1>0. now \in Time /\ NoTime \in Instant \cup {NoTime} /\ 1 \in Nat /\ now \in Instant
      /\ Never \in Instant
  BY Constant DEF Instant, Never, Time
<1>1. After(now, Life) \in Instant /\ After(now, 1) \in Instant
  BY <1>0, Constant, AfterType
<1>2. ASSUME UNCHANGED <<loop, now, worker>> PROVE LoopRight' /\ WorkersRight'
  BY <1>2 DEF LoopRight, WorkersRight
<1>3. ASSUME NEW a \in Auths, UsageLimit(a) PROVE Typed'
  <2>1. auth' = [auth EXCEPT ![a] = [auth[a] EXCEPT !.disabled = TRUE, !.auto = After(now, 1)]]
    BY <1>3 DEF UsageLimit
  <2>2. [auth[a] EXCEPT !.disabled = TRUE, !.auto = After(now, 1)] \in Credential
    BY <1>1 DEF Credential
  <2>3. QED
    BY <2>1, <2>2, <1>2, <1>3 DEF UsageLimit, schedule
<1>4. ASSUME NEW a \in Auths, NEW disabled \in BOOLEAN, NEW due \in {now, After(now, Life), Never},
             NEW auto \in {NoTime, auth[a].auto}, Replace(a, disabled, due, auto)
      PROVE  Typed'
  <2> DEFINE n == IF auth[a].disabled \/ disabled THEN NoTime ELSE auth[a].nra
             c == [present |-> TRUE, disabled |-> disabled, due |-> due, auto |-> auto, nra |-> n]
  <2>1. auth' = [auth EXCEPT ![a] = c]
    BY <1>4 DEF Replace
  <2>2. c \in Credential
    BY <1>0, <1>1 DEF Credential
  <2> HIDE DEF c
  <2>3. QED
    BY <2>1, <2>2, <1>2, <1>4 DEF Replace, schedule
<1>5. ASSUME NEW a \in Auths, NoteReplaced(a) PROVE Typed'
  <2>1. writers' \in [Auths -> Nat]
    BY <1>5 DEF NoteReplaced
  <2>2. QED
    BY <2>1, <1>2, <1>5 DEF NoteReplaced, Reschedule, schedule
<1>6. QED
  BY <1>3, <1>4, <1>5 DEF Outside

LEMMA TypedStep == Typed /\ [Next]_vars => Typed'
<1> SUFFICES ASSUME Typed, [Next]_vars PROVE Typed'
  OBVIOUS
<1>1. CASE LoopStep
  BY <1>1, LoopTyped
<1>2. ASSUME NEW w \in Workers, WorkerStep(w) PROVE Typed'
  BY <1>2, WorkerTyped
<1>3. CASE Outside
  BY <1>3, OutsideTyped
<1>4. ASSUME NEW a \in Auths, Signal(a) PROVE Typed'
  BY <1>4 DEF Signal, schedule, Typed, LoopRight, WorkersRight
<1>5. CASE Tick
  BY <1>5, Constant DEF Tick, schedule, Typed, LoopRight, WorkersRight, LoopState, Time
<1>6. CASE UNCHANGED vars
  BY <1>6 DEF vars, Typed, LoopRight, WorkersRight
<1>7. QED
  BY <1>1, <1>2, <1>3, <1>4, <1>5, <1>6 DEF Next

(***************************************************************************)
(* Nothing dirty waits without a signal.                                   *)
(***************************************************************************)
\* What a worker or a change from outside does to the credentials: whoever
\* writes one is about to mark it, or disabled it; a mark that was to come has
\* come or is still to come; and the loop is left alone.
Announced ==
  /\ UNCHANGED <<queue, loop, wake, timer, now>>
  /\ dirty \subseteq dirty' /\ signalling \subseteq signalling'
  /\ dirty' # dirty => signalling' # {}
  /\ \A a \in Auths :
       /\ auth'[a] = auth[a] \/ auth'[a].disabled \/ Unnoted(a)'
       /\ Unnoted(a) => Unnoted(a)' \/ a \in dirty'

\* A worker's step loses no mark that was to come, unless it is that mark.
LEMMA OneWorkerMoves ==
  ASSUME Typed, NEW w \in Workers, NEW j, worker' = [worker EXCEPT ![w] = j],
         UNCHANGED <<loop, writers>>, NEW a \in Auths, Unnoted(a),
         worker[w].step # "note"
  PROVE  Unnoted(a)'
BY DEF Typed, WorkersRight, Unnoted

\* A worker that wrote a credential is about to mark it.
LEMMA WriterAnnounces ==
  ASSUME Typed, NEW w \in Workers, Written(w), worker[w].step \in {"refresh", "recheck"},
         UNCHANGED <<queue, loop, wake, timer, now>>,
         \A b \in Auths : b # worker[w].id => auth'[b] = auth[b]
  PROVE  Announced
<1> DEFINE j == [worker[w] EXCEPT !.step = "note", !.seen = Absent]
<1>0. PICK a : a = worker[w].id
  OBVIOUS
<1>1. worker' = [worker EXCEPT ![w] = j] /\ UNCHANGED <<dirty, writers, signalling>>
  BY DEF Written
<1>2. worker'[w].id = a /\ worker'[w].step = "note"
  BY <1>0, <1>1 DEF Typed, WorkersRight, WorkerState
<1>3. Unnoted(a)'
  BY <1>2 DEF Unnoted
<1>4. worker[w].step # "note"
  OBVIOUS
<1> HIDE DEF j
<1>5. \A b \in Auths : Unnoted(b) => Unnoted(b)'
  BY <1>1, <1>4, OneWorkerMoves
<1>6. \A b \in Auths : auth'[b] = auth[b] \/ Unnoted(b)'
  BY <1>0, <1>3
<1>7. QED
  BY <1>1, <1>5, <1>6 DEF Announced

LEMMA OthersAnnounce ==
  ASSUME Typed, (\E w \in Workers : WorkerStep(w)) \/ Outside
  PROVE  Announced
<1> USE DEF schedule
<1>1. ASSUME NEW w \in Workers, WorkerStep(w) PROVE Announced
  <2>1. CASE WorkerTake(w)
    <3>1. \A a \in Auths : Unnoted(a) => Unnoted(a)'
      BY <2>1, OneWorkerMoves DEF WorkerTake
    <3>2. QED
      BY <2>1, <3>1 DEF WorkerTake, Announced
  <2>2. CASE RefreshFails(w)
    <3>1. \A b \in Auths : b # worker[w].id => auth'[b] = auth[b]
      BY <2>2 DEF RefreshFails, Typed
    <3>2. QED
      BY <2>2, <3>1, WriterAnnounces DEF RefreshFails
  <2>3. ASSUME NEW due \in {worker[w].seen.due, After(now, Life)}, RefreshSucceeds(w, due)
        PROVE  Announced
    <3>1. \A b \in Auths : b # worker[w].id => auth'[b] = auth[b]
      BY <2>3 DEF RefreshSucceeds, Typed
    <3>2. QED
      BY <2>3, <3>1, WriterAnnounces DEF RefreshSucceeds
  <2>4. ASSUME NEW outcome \in {"recovered", "limited", "error"}, Recheck(w, outcome)
        PROVE  Announced
    <3>1. \A b \in Auths : b # worker[w].id => auth'[b] = auth[b]
      BY <2>4 DEF Recheck, Typed
    <3>2. QED
      BY <2>4, <3>1, WriterAnnounces DEF Recheck
  <2>5. CASE WorkerDone(w)
    <3>1. \A a \in Auths : Unnoted(a) => Unnoted(a)'
      BY <2>5, OneWorkerMoves DEF WorkerDone
    <3>2. QED
      BY <2>5, <3>1 DEF WorkerDone, Reschedule, Announced
  <2>6. CASE NoteRefresh(w)
    <3> DEFINE a == worker[w].id
    <3>1. a \in dirty' /\ signalling' # {}
      BY <2>6 DEF NoteRefresh, Reschedule
    <3>2. ASSUME NEW b \in Auths, b # a, Unnoted(b) PROVE Unnoted(b)'
      BY <2>6, <3>2 DEF NoteRefresh, Typed, WorkersRight, Unnoted
    <3>3. QED
      BY <2>6, <3>1, <3>2 DEF NoteRefresh, Reschedule, Announced
  <2>7. QED
    BY <1>1, <2>1, <2>2, <2>3, <2>4, <2>5, <2>6 DEF WorkerStep
<1>2. ASSUME NEW a \in Auths, UsageLimit(a) PROVE Announced
  <2>1. auth' = [auth EXCEPT ![a] = [auth[a] EXCEPT !.disabled = TRUE, !.auto = After(now, 1)]]
    BY <1>2 DEF UsageLimit
  <2>2. \A b \in Auths : auth'[b] = auth[b] \/ auth'[b].disabled
    BY <2>1 DEF Typed, Credential
  <2>3. \A b \in Auths : Unnoted(b) => Unnoted(b)'
    BY <1>2 DEF UsageLimit, Unnoted
  <2>4. QED
    BY <1>2, <2>2, <2>3 DEF UsageLimit, Announced
<1>3. ASSUME NEW a \in Auths, NEW disabled \in BOOLEAN, NEW due \in {now, After(now, Life), Never},
             NEW auto \in {NoTime, auth[a].auto}, Replace(a, disabled, due, auto)
      PROVE  Announced
  <2>1. \A b \in Auths : b # a => auth'[b] = auth[b]
    BY <1>3 DEF Replace, Typed
  <2>2. writers' = [writers EXCEPT ![a] = writers[a] + 1] /\ writers[a] \in Nat
    BY <1>3 DEF Replace, Typed
  <2>3. writers'[a] > 0 /\ \A b \in Auths : b # a => writers'[b] = writers[b]
    BY <2>2 DEF Typed
  <2>4. \A b \in Auths : Unnoted(b) => Unnoted(b)'
    BY <1>3, <2>3 DEF Replace, Unnoted
  <2>5. Unnoted(a)'
    BY <2>3 DEF Unnoted
  <2>6. QED
    BY <1>3, <2>1, <2>4, <2>5 DEF Replace, Announced
<1>4. ASSUME NEW a \in Auths, NoteReplaced(a) PROVE Announced
  <2>1. a \in dirty' /\ signalling' # {}
    BY <1>4 DEF NoteReplaced, Reschedule
  <2>2. \A b \in Auths : b # a => writers'[b] = writers[b]
    BY <1>4 DEF NoteReplaced, Typed
  <2>3. \A b \in Auths : Unnoted(b) => Unnoted(b)' \/ b \in dirty'
    BY <1>4, <2>1, <2>2 DEF NoteReplaced, Unnoted
  <2>4. QED
    BY <1>4, <2>1, <2>3 DEF NoteReplaced, Reschedule, Announced
<1>5. QED
  BY <1>1, <1>2, <1>3, <1>4 DEF Outside

LEMMA SignalledStep == Typed /\ DirtyIsSignalled /\ [Next]_vars => DirtyIsSignalled'
<1> SUFFICES ASSUME Typed, DirtyIsSignalled, [Next]_vars PROVE DirtyIsSignalled'
  OBVIOUS
<1> USE DEF DirtyIsSignalled
<1>1. CASE LoopStep
  <2>1. CASE LoopWake
    BY <2>1 DEF LoopWake
  <2>2. CASE LoopTimer
    <3>1. loop'.phase = "due"
      BY <2>2 DEF LoopTimer, Idle
    <3>2. QED
      BY <3>1
  <2>3. CASE MarkPending
    <3>1. loop'.phase = loop.phase /\ wake' = wake
      BY <2>3 DEF MarkPending, Typed, LoopRight, LoopState
    <3>2. QED
      BY <2>3, <3>1 DEF MarkPending
  <2>4. CASE SendJob
    BY <2>4 DEF SendJob, Typed, LoopRight, LoopState
  <2>5. CASE PutEntry
    BY <2>5 DEF PutEntry, Typed, LoopRight, LoopState
  <2>6. CASE DrainDirty
    BY <2>6 DEF DrainDirty
  <2>7. CASE ResetTimer
    BY <2>7 DEF ResetTimer
  <2>8. ASSUME NEW a \in Auths, HandleDue(a) \/ ReadDirty(a) PROVE DirtyIsSignalled'
    <3>1. loop'.phase = loop.phase /\ UNCHANGED <<dirty, signalling, wake>>
      BY <2>8 DEF HandleDue, ReadDirty, Typed, LoopRight, LoopState
    <3>2. QED
      BY <3>1
  <2>9. CASE NotePending
    BY <2>9 DEF NotePending, Reschedule
  <2>10. QED
    BY <1>1, <2>1, <2>2, <2>3, <2>4, <2>5, <2>6, <2>7, <2>8, <2>9 DEF LoopStep
<1>2. CASE (\E w \in Workers : WorkerStep(w)) \/ Outside
  BY <1>2, OthersAnnounce DEF Announced, Typed
<1>3. ASSUME NEW a \in Auths, Signal(a) PROVE DirtyIsSignalled'
  BY <1>3 DEF Signal
<1>4. CASE Tick \/ UNCHANGED vars
  BY <1>4 DEF Tick, vars, schedule
<1>5. QED
  BY <1>1, <1>2, <1>3, <1>4 DEF Next

\* Whatever interleaves, a dirty id has a signal in the channel or on its way,
\* or the loop is about to drain the set: queueReschedule's non-blocking send
\* loses no mark.
THEOREM DirtyIsAlwaysSignalled == Spec => []DirtyIsSignalled
<1>1. Init => Typed /\ DirtyIsSignalled
  BY InitTyped DEF Init, DirtyIsSignalled
<1>2. Typed /\ DirtyIsSignalled /\ [Next]_vars => (Typed /\ DirtyIsSignalled)'
  BY TypedStep, SignalledStep
<1>3. QED
  BY <1>1, <1>2, PTL DEF Spec


(***************************************************************************)
(* No credential is forgotten or scheduled too late.                       *)
(***************************************************************************)
\* NeverLate for one credential.
Watched(a) ==
  Refreshable(a) =>
    \/ a \in dirty \cup loop.ids
    \/ Unnoted(a)
    \/ loop.id = a /\ loop.step = "mark"
    \/ loop.id = a /\ loop.step = "put" /\ loop.next \in 0 .. NextCheck(auth[a], now)
    \/ loop.id # a /\ queue[a] \in 0 .. NextCheck(auth[a], now)

\* What the loop computes with its older clock reading is not too late now.
LEMMA NextIsInTime ==
  ASSUME Typed, NEW a \in Auths, Refreshable(a)
  PROVE  /\ NextCheck(auth[a], loop.t) # NoTime
         /\ NextCheck(auth[a], loop.t) \in 0 .. NextCheck(auth[a], now)
         /\ NextCheck(auth[a], now) \in Instant \cup {NoTime}
<1>1. auth[a] \in Credential /\ loop.t \in Time /\ now \in Time /\ loop.t <= now
  BY DEF Typed, LoopRight, LoopState
<1>2. NextCheck(auth[a], loop.t) \in 0 .. NextCheck(auth[a], now)
  BY <1>1, NextCheckGrows DEF Refreshable
<1>3. QED
  BY <1>1, <1>2, NextCheckType DEF NoTime

\* The loop only drops a mark that was to come by making it.
LEMMA LoopKeepsUnnoted ==
  ASSUME Typed, NEW a \in Auths, Unnoted(a), LoopStep
  PROVE  Unnoted(a)' \/ a \in dirty'
<1>1. CASE NotePending
  BY <1>1 DEF NotePending, Reschedule, Unnoted
<1>2. ASSUME loop.step # "note", UNCHANGED <<worker, writers>> PROVE Unnoted(a)'
  BY <1>2 DEF Unnoted
<1>3. CASE LoopStep /\ ~NotePending
  <2>1. UNCHANGED <<worker, writers>>
    BY <1>3 DEF LoopStep, LoopWake, LoopTimer, MarkPending, SendJob, PutEntry, DrainDirty,
                ResetTimer, HandleDue, ReadDirty
  <2>2. loop.step # "note"
    BY <1>3 DEF LoopStep, LoopWake, LoopTimer, MarkPending, SendJob, PutEntry, DrainDirty,
                ResetTimer, HandleDue, ReadDirty, Typed, LoopRight
  <2>3. QED
    BY <1>2, <2>1, <2>2
<1>4. QED
  BY <1>1, <1>3

\* What nobody is about to mark stays watched.
LEMMA LoopWatchesNoted ==
  ASSUME Typed, NEW a \in Auths \ NoExecutor, Watched(a), LoopStep, ~Unnoted(a)
  PROVE  Watched(a)'
<1> SUFFICES ASSUME Refreshable(a)'
             PROVE  \/ a \in dirty' \cup loop'.ids
                    \/ Unnoted(a)'
                    \/ loop'.id = a /\ loop'.step = "mark"
                    \/ /\ loop'.id = a /\ loop'.step = "put"
                       /\ loop'.next \in 0 .. NextCheck(auth'[a], now')
                    \/ loop'.id # a /\ queue'[a] \in 0 .. NextCheck(auth'[a], now')
  BY DEF Watched
<1> DEFINE limit == NextCheck(auth[a], now)
<1>0. a # NoAuth /\ now \in Time
  BY Constant DEF Typed
<1>1. ASSUME UNCHANGED auth
      PROVE  /\ Refreshable(a)
             /\ NextCheck(auth[a], loop.t) # NoTime /\ NextCheck(auth[a], loop.t) \in 0 .. limit
  <2>1. Refreshable(a)
    BY <1>1 DEF Refreshable
  <2>2. QED
    BY <2>1, NextIsInTime
<1>2. CASE LoopWake
  <2>1. /\ loop' = [phase |-> "dirty", step |-> "pick", ids |-> dirty, id |-> NoAuth,
                    next |-> NoTime, t |-> now]
        /\ UNCHANGED <<auth, queue, now>>
        /\ loop.step = "pick" /\ loop.ids = {}
    BY <1>2 DEF LoopWake, Idle, Typed, LoopRight
  <2>2. QED
    BY <2>1, <1>0, <1>1 DEF Watched
<1>3. CASE LoopTimer
  <2> DEFINE due == {b \in Auths : queue[b] # NoTime /\ queue[b] <= now}
  <2>1. /\ loop' = [phase |-> "due", step |-> "pick", ids |-> due, id |-> NoAuth,
                    next |-> NoTime, t |-> now]
        /\ UNCHANGED <<auth, now, dirty>>
        /\ loop.step = "pick" /\ loop.ids = {}
    BY <1>3 DEF LoopTimer, Idle, Typed, LoopRight
  <2>2. a \in due \/ queue'[a] = queue[a]
    BY <1>3 DEF LoopTimer
  <2> HIDE DEF due
  <2>3. QED
    BY <2>1, <2>2, <1>0, <1>1 DEF Watched
<1>4. CASE MarkPending
  <2>1. loop.step = "mark" /\ loop.id \in Auths /\ UNCHANGED <<queue, now>>
    BY <1>4 DEF MarkPending, Typed, LoopRight, LoopState
  <2>2. CASE loop.id = a
    <3>1. \/ loop' = [loop EXCEPT !.step = "note"]
          \/ auth' = auth /\ loop' = [loop EXCEPT !.step = "put", !.next = NextCheck(auth[a], loop.t)]
      BY <1>4, <2>2 DEF MarkPending
    <3>2. QED
      BY <3>1, <2>1, <2>2, <1>1 DEF Typed, LoopRight, LoopState, Unnoted
  <2>3. CASE loop.id # a
    <3>1. auth'[a] = auth[a] /\ dirty' = dirty /\ loop'.ids = loop.ids /\ loop'.id = loop.id
      BY <1>4, <2>1, <2>3 DEF MarkPending, Typed, LoopRight, LoopState
    <3>2. Refreshable(a)
      BY <3>1 DEF Refreshable
    <3>3. QED
      BY <3>1, <3>2, <2>1, <2>3 DEF Watched
  <2>4. QED
    BY <2>2, <2>3
<1>5. CASE SendJob
  <2>1. /\ loop.step = "send" /\ loop'.ids = loop.ids /\ loop'.id = NoAuth
        /\ UNCHANGED <<auth, queue, dirty, now>>
    BY <1>5 DEF SendJob, Typed, LoopRight, LoopState
  <2>2. QED
    BY <2>1, <1>0, <1>1 DEF Watched
<1>6. CASE PutEntry
  <2>1. /\ loop.step = "put" /\ loop.id \in Auths /\ loop'.ids = loop.ids /\ loop'.id = NoAuth
        /\ UNCHANGED <<auth, dirty, now>>
        /\ queue' = [queue EXCEPT ![loop.id] = loop.next]
    BY <1>6 DEF PutEntry, Typed, LoopRight, LoopState
  <2>2. queue'[a] = IF loop.id = a THEN loop.next ELSE queue[a]
    BY <2>1 DEF Typed
  <2>3. QED
    BY <2>1, <2>2, <1>0, <1>1 DEF Watched
<1>7. CASE DrainDirty
  <2>1. /\ loop.step = "pick" /\ loop.ids = {} /\ loop'.ids = dirty /\ loop'.id = loop.id
        /\ UNCHANGED <<auth, queue, now>>
    BY <1>7 DEF DrainDirty, Typed, LoopRight, LoopState
  <2>2. QED
    BY <2>1, <1>1 DEF Watched
<1>8. CASE ResetTimer
  <2>1. /\ loop.step = "pick" /\ loop.ids = {} /\ loop'.ids = {} /\ loop'.id = NoAuth
        /\ UNCHANGED <<auth, queue, dirty, now>>
    BY <1>8 DEF ResetTimer, Idle
  <2>2. QED
    BY <2>1, <1>0, <1>1 DEF Watched
<1>9. ASSUME NEW b \in Auths, HandleDue(b) \/ ReadDirty(b) PROVE Watched(a)'
  <2>1. /\ loop.step = "pick" /\ UNCHANGED <<auth, queue, dirty, now>>
        /\ loop'.ids = loop.ids \ {b} /\ loop'.id = b
    BY <1>9 DEF HandleDue, ReadDirty, Typed, LoopRight, LoopState
  <2>2. CASE b = a
    <3>1. \/ loop'.step = "mark"
          \/ loop'.step = "put" /\ loop'.next = NextCheck(auth[a], loop.t)
      BY <1>9, <2>2 DEF HandleDue, ReadDirty, Typed, LoopRight, LoopState
    <3>2. QED
      BY <3>1, <2>1, <2>2, <1>1 DEF Watched
  <2>3. CASE b # a
    BY <2>1, <2>3, <1>1 DEF Watched
  <2>4. QED
    BY <2>2, <2>3
<1>10. CASE NotePending
  <2>1. /\ loop.step = "note" /\ loop.id # a
        /\ loop'.ids = loop.ids /\ loop'.id = loop.id /\ dirty \subseteq dirty'
        /\ UNCHANGED <<auth, queue, now>>
    BY <1>10 DEF NotePending, Reschedule, Unnoted, Typed, LoopRight, LoopState
  <2>2. QED
    BY <2>1, <1>1 DEF Watched
<1>11. QED
  BY <1>2, <1>3, <1>4, <1>5, <1>6, <1>7, <1>8, <1>9, <1>10 DEF LoopStep, Watched

LEMMA LoopWatches ==
  ASSUME Typed, NEW a \in Auths \ NoExecutor, Watched(a), LoopStep
  PROVE  Watched(a)'
<1>1. CASE Unnoted(a)
  BY <1>1, LoopKeepsUnnoted DEF Watched
<1>2. CASE ~Unnoted(a)
  BY <1>2, LoopWatchesNoted
<1>3. QED
  BY <1>1, <1>2

LEMMA NeverLateStep == Typed /\ NeverLate /\ [Next]_vars => NeverLate'
<1> SUFFICES ASSUME Typed, NeverLate, [Next]_vars, NEW a \in Auths \ NoExecutor
             PROVE  Watched(a)'
  BY DEF NeverLate, Watched
<1>1. Watched(a)
  BY DEF NeverLate, Watched
<1>2. CASE LoopStep
  BY <1>1, <1>2, LoopWatches
<1>3. CASE (\E w \in Workers : WorkerStep(w)) \/ Outside
  <2>1. Announced
    BY <1>3, OthersAnnounce
  <2>2. CASE a \in dirty' \/ Unnoted(a)'
    BY <2>2 DEF Watched
  <2>3. CASE auth'[a].disabled
    BY <2>3 DEF Watched, Refreshable
  <2>4. CASE auth'[a] = auth[a]
    BY <2>1, <2>2, <2>4, <1>1 DEF Announced, Watched, Refreshable
  <2>5. QED
    BY <2>1, <2>2, <2>3, <2>4 DEF Announced
<1>4. ASSUME NEW b \in Auths, Signal(b) PROVE Watched(a)'
  BY <1>1, <1>4 DEF Signal, schedule, Watched, Refreshable, Unnoted
<1>5. CASE Tick
  <2>1. UNCHANGED <<auth, dirty, queue, loop>> /\ now' = now + 1 /\ now \in Time /\ now' \in Time
    BY <1>5, Constant DEF Tick, schedule, Typed, Time
  <2>0. Unnoted(a) => Unnoted(a)'
    BY <1>5 DEF Tick, schedule, Unnoted
  <2>2. SUFFICES ASSUME Refreshable(a)
                 PROVE  0 .. NextCheck(auth[a], now) \subseteq 0 .. NextCheck(auth[a], now')
    BY <2>1, <2>0, <1>1 DEF Watched, Refreshable
  <2>3. NextCheck(auth[a], now) \in 0 .. NextCheck(auth[a], now')
    BY <2>1, <2>2, NextCheckGrows DEF Refreshable, Typed, Time
  <2>4. NextCheck(auth[a], now') \in Instant \cup {NoTime}
    BY <2>1, NextCheckType DEF Typed
  <2>5. QED
    BY <2>3, <2>4, Constant DEF Instant, NoTime, Never
<1>6. CASE UNCHANGED vars
  BY <1>1, <1>6 DEF vars, schedule, Watched, Refreshable, Unnoted
<1>7. QED
  BY <1>2, <1>3, <1>4, <1>5, <1>6 DEF Next

\* A refreshable credential is in the schedule, no later than its next check,
\* or dirty or about to be made so by its writer, or in the loop's hands,
\* although the loop writes entries it read before other goroutines changed the
\* credential, and every writer marks it only after it released manager.mu.
THEOREM NoneIsLate == Spec => []NeverLate
<1>1. Init => Typed /\ NeverLate
  BY InitTyped DEF Init, NeverLate, Refreshable, Absent
<1>2. Typed /\ NeverLate /\ [Next]_vars => (Typed /\ NeverLate)'
  BY TypedStep, NeverLateStep
<1>3. QED
  BY <1>1, <1>2, PTL DEF Spec

\* No credential is forgotten by the loop.
THEOREM NobodyIsForgotten == Spec => []NeverForgotten
<1>1. NeverLate /\ DirtyIsSignalled => NeverForgotten
  BY DEF NeverForgotten
<1>2. QED
  BY <1>1, NoneIsLate, DirtyIsAlwaysSignalled, PTL

(***************************************************************************)
(* The loop does not spin on a credential.                                 *)
(***************************************************************************)
Backoff == Min({PendingBackoff, FailureBackoff, IneffectiveBackoff})

\* A dispatched credential that did not change since is still due, and unless
\* it was disabled it backs off: from the claim, from a failure or from a
\* refresh that brought no new token.
Rests(a) ==
  last[a] # NoTime =>
    /\ last[a] \in 0 .. now
    /\ auth[a].due <= now
    /\ auth[a].disabled \/ auth[a].nra >= After(last[a], Backoff)
Spaced == last \in [Auths -> Time \cup {NoTime}] /\ \A a \in Auths : Rests(a)

LEMMA BackoffLeast ==
  /\ Backoff \in Nat
  /\ Backoff <= PendingBackoff /\ Backoff <= FailureBackoff /\ Backoff <= IneffectiveBackoff
<1> DEFINE S == {PendingBackoff, FailureBackoff, IneffectiveBackoff}
<1>1. \E x \in S : \A y \in S : x <= y
  <2>1. CASE PendingBackoff <= FailureBackoff /\ PendingBackoff <= IneffectiveBackoff
    BY <2>1, Constant
  <2>2. CASE FailureBackoff <= PendingBackoff /\ FailureBackoff <= IneffectiveBackoff
    BY <2>2, Constant
  <2>3. CASE IneffectiveBackoff <= PendingBackoff /\ IneffectiveBackoff <= FailureBackoff
    BY <2>3, Constant
  <2>4. QED
    BY <2>1, <2>2, <2>3, Constant
<1>2. Min(S) \in S /\ \A y \in S : Min(S) <= y
  BY <1>1 DEF Min
<1>3. QED
  BY <1>2, Constant DEF Backoff

\* A longer backoff that began later does not end sooner.
LEMMA AfterGrows ==
  ASSUME NEW t \in Time, NEW u \in Time, NEW d \in Nat, NEW e \in Nat, t <= u, d <= e
  PROVE  After(u, e) >= After(t, d)
BY Constant DEF After, Never, Time

LEMMA LoopSpaced ==
  ASSUME Typed, Spaced, LoopStep
  PROVE  Spaced'
<1>1. CASE MarkPending
  <2>0. PICK a, c : a = loop.id /\ c = auth[a]
    OBVIOUS
  <2>1. a \in Auths /\ loop.t \in Time /\ loop.t <= now /\ now' = now /\ now \in Time
    BY <1>1, <2>0 DEF MarkPending, Typed, LoopRight, LoopState
  <2>2. CASE UNCHANGED <<auth, last>>
    BY <2>1, <2>2 DEF Spaced, Rests
  <2>3. CASE /\ auth' = [auth EXCEPT ![a].nra = After(loop.t, PendingBackoff)]
             /\ last' = [last EXCEPT ![a] = IF c.due <= now THEN loop.t ELSE NoTime]
    <3>1. auth'[a].nra = After(loop.t, PendingBackoff) /\ auth'[a].due = c.due
      BY <2>0, <2>1, <2>3 DEF Typed, Credential
    <3>2. After(loop.t, PendingBackoff) >= After(loop.t, Backoff)
      BY <2>1, Constant, BackoffLeast, AfterGrows DEF Time
    <3>3. last' \in [Auths -> Time \cup {NoTime}]
          /\ last'[a] = IF c.due <= now THEN loop.t ELSE NoTime
      BY <2>1, <2>3 DEF Spaced
    <3>4. \A b \in Auths \ {a} : auth'[b] = auth[b] /\ last'[b] = last[b]
      BY <2>1, <2>3 DEF Typed, Spaced
    <3>5. Rests(a)'
      BY <2>1, <3>1, <3>2, <3>3 DEF Rests, Time
    <3>6. \A b \in Auths \ {a} : Rests(b)'
      BY <2>1, <3>4 DEF Rests, Spaced
    <3>7. QED
      BY <3>3, <3>5, <3>6 DEF Spaced
  <2>4. QED
    BY <1>1, <2>0, <2>2, <2>3 DEF MarkPending
<1>2. CASE UNCHANGED <<auth, last, now>>
  BY <1>2 DEF Spaced, Rests
<1>3. QED
  BY <1>1, <1>2 DEF LoopStep, LoopWake, LoopTimer, NotePending, SendJob, PutEntry, DrainDirty,
                    ResetTimer, HandleDue, ReadDirty

\* What changes one credential keeps the spacing if it keeps that one's.
LEMMA OneRests ==
  ASSUME Typed, Spaced, NEW a \in Auths, Rests(a)', now' = now,
         last' = last \/ last' = [last EXCEPT ![a] = NoTime],
         \A b \in Auths \ {a} : auth'[b] = auth[b]
  PROVE  Spaced'
<1>1. last' \in [Auths -> Time \cup {NoTime}] /\ \A b \in Auths \ {a} : last'[b] = last[b]
  BY DEF Spaced
<1>2. \A b \in Auths \ {a} : Rests(b)'
  BY <1>1 DEF Rests, Spaced
<1>3. QED
  BY <1>1, <1>2 DEF Spaced

LEMMA WorkerSpaced ==
  ASSUME Typed, Spaced, NEW w \in Workers, WorkerStep(w)
  PROVE  Spaced'
<1>0. PICK a : a = worker[w].id
  OBVIOUS
<1>1. /\ now \in Time /\ worker[w].seen \in Credential
      /\ worker[w].step # "free" => a \in Auths /\ auth[a] \in Credential
      /\ last \in [Auths -> Time \cup {NoTime}]
  BY <1>0 DEF Typed, WorkersRight, WorkerState, Spaced
<1>2. ASSUME a \in Auths, last[a] # NoTime
      PROVE  /\ After(now, FailureBackoff) >= After(last[a], Backoff)
             /\ After(now, IneffectiveBackoff) >= After(last[a], Backoff)
  <2>1. last[a] \in Time /\ last[a] <= now
    BY <1>1, <1>2 DEF Spaced, Rests
  <2>2. QED
    BY <2>1, <1>1, Constant, BackoffLeast, AfterGrows
<1>3. CASE WorkerTake(w) \/ NoteRefresh(w) \/ WorkerDone(w)
  BY <1>3 DEF WorkerTake, NoteRefresh, WorkerDone, schedule, Spaced, Rests
<1>4. CASE RefreshFails(w)
  <2>1. /\ a \in Auths /\ UNCHANGED <<last, now>>
        /\ auth'[a] = [auth[a] EXCEPT !.nra = After(now, FailureBackoff)]
        /\ \A b \in Auths \ {a} : auth'[b] = auth[b]
    BY <1>0, <1>1, <1>4 DEF RefreshFails, schedule, Typed
  <2>2. auth'[a].nra = After(now, FailureBackoff) /\ auth'[a].due = auth[a].due
    BY <1>1, <2>1 DEF Credential
  <2>3. Rests(a)'
    BY <1>2, <2>1, <2>2 DEF Rests, Spaced
  <2>4. QED
    BY <2>1, <2>3, OneRests
<1>5. ASSUME NEW due \in {worker[w].seen.due, After(now, Life)}, RefreshSucceeds(w, due)
      PROVE  Spaced'
  <2> DEFINE c == [worker[w].seen EXCEPT !.due = due, !.nra = NoTime]
             d == [c EXCEPT !.nra = After(now, IneffectiveBackoff)]
  <2>1. /\ a \in Auths /\ now' = now
        /\ last' = IF due # auth[a].due THEN [last EXCEPT ![a] = NoTime] ELSE last
        /\ auth'[a] = IF ShouldRefresh(c, now) THEN d ELSE c
        /\ \A b \in Auths \ {a} : auth'[b] = auth[b]
    BY <1>0, <1>1, <1>5 DEF RefreshSucceeds, schedule, Typed
  <2>2. c.due = due /\ c.nra = NoTime /\ d.nra = After(now, IneffectiveBackoff) /\ d.due = due
        /\ (~c.disabled /\ due <= now => ShouldRefresh(c, now))
    BY <1>1 DEF Credential, ShouldRefresh, NoTime, Time
  <2> HIDE DEF c, d
  <2>3. Rests(a)'
    <3>1. SUFFICES ASSUME last'[a] # NoTime
                   PROVE  /\ last'[a] \in 0 .. now /\ auth'[a].due <= now
                          /\ auth'[a].disabled \/ auth'[a].nra >= After(last'[a], Backoff)
      BY <2>1 DEF Rests
    <3>2. last'[a] = last[a] /\ due = auth[a].due
      BY <1>1, <2>1, <3>1
    <3>3. last[a] \in 0 .. now /\ due <= now
      BY <2>1, <3>1, <3>2 DEF Spaced, Rests
    <3>4. CASE ShouldRefresh(c, now)
      BY <1>2, <2>1, <2>2, <3>1, <3>2, <3>3, <3>4
    <3>5. CASE ~ShouldRefresh(c, now)
      BY <2>1, <2>2, <3>2, <3>3, <3>5
    <3>6. QED
      BY <3>4, <3>5
  <2>4. QED
    BY <2>1, <2>3, OneRests
<1>6. ASSUME NEW outcome \in {"recovered", "limited", "error"}, Recheck(w, outcome)
      PROVE  Spaced'
  <2>1. /\ a \in Auths /\ now' = now /\ auth[a] \in Credential
        /\ last' = IF outcome = "recovered" THEN [last EXCEPT ![a] = NoTime] ELSE last
        /\ \A b \in Auths \ {a} : auth'[b] = auth[b]
    BY <1>0, <1>1, <1>6 DEF Recheck, schedule, Typed
  <2>2. CASE outcome = "recovered"
    <3>1. last' = [last EXCEPT ![a] = NoTime] /\ last'[a] = NoTime
      BY <1>1, <2>1, <2>2
    <3>2. Rests(a)'
      BY <3>1 DEF Rests
    <3>3. QED
      BY <2>1, <3>1, <3>2, OneRests
  <2>3. CASE outcome = "limited"
    <3>1. auth'[a] = [auth[a] EXCEPT !.disabled = TRUE, !.auto = After(now, 1), !.nra = NoTime]
      BY <1>0, <1>6, <2>1, <2>3 DEF Recheck, Typed
    <3>2. auth'[a].disabled = TRUE /\ auth'[a].due = auth[a].due /\ last' = last
      BY <2>1, <2>3, <3>1 DEF Credential
    <3>3. Rests(a)
      BY <2>1 DEF Spaced
    <3>4. Rests(a)'
      BY <2>1, <3>2, <3>3 DEF Rests
    <3>5. QED
      BY <2>1, <3>2, <3>4, OneRests
  <2>4. CASE outcome = "error"
    <3> DEFINE f == After(now, FailureBackoff)
    <3>1. auth'[a] = [auth[a] EXCEPT !.auto = f, !.nra = f]
      BY <1>0, <1>6, <2>1, <2>4 DEF Recheck, Typed
    <3>2. auth'[a].nra = f /\ auth'[a].due = auth[a].due /\ last' = last
      BY <2>1, <2>4, <3>1 DEF Credential
    <3> HIDE DEF f
    <3>3. last[a] # NoTime => f >= After(last[a], Backoff)
      BY <1>2, <2>1 DEF f
    <3>4. Rests(a)
      BY <2>1 DEF Spaced
    <3>5. Rests(a)'
      BY <2>1, <3>2, <3>3, <3>4 DEF Rests
    <3>6. QED
      BY <2>1, <3>2, <3>5, OneRests
  <2>5. QED
    BY <2>2, <2>3, <2>4
<1>7. QED
  BY <1>3, <1>4, <1>5, <1>6 DEF WorkerStep

LEMMA OutsideSpaced ==
  ASSUME Typed, Spaced, Outside
  PROVE  Spaced'
<1>1. ASSUME NEW a \in Auths, now' = now, last' = [last EXCEPT ![a] = NoTime],
             \A b \in Auths \ {a} : auth'[b] = auth[b]
      PROVE  Spaced'
  <2>1. Rests(a)'
    BY <1>1 DEF Rests, Spaced
  <2>2. QED
    BY <1>1, <2>1, OneRests
<1>2. ASSUME UNCHANGED <<auth, last, now>> PROVE Spaced'
  BY <1>2 DEF Spaced, Rests
<1>3. QED
  BY <1>1, <1>2 DEF Outside, UsageLimit, NoteReplaced, Replace, schedule, Typed

LEMMA SpacedStep == Typed /\ Spaced /\ [Next]_vars => Spaced'
<1> SUFFICES ASSUME Typed, Spaced, [Next]_vars PROVE Spaced'
  OBVIOUS
<1>1. CASE Tick
  <2>1. now \in Nat /\ now' = now + 1 /\ auth \in [Auths -> Credential]
    BY <1>1 DEF Tick, Typed, Time
  <2>2. ASSUME NEW a \in Auths PROVE Rests(a)'
    <3>1. auth[a].due \in Int
      BY <2>1, Constant DEF Credential, Instant, Never
    <3>2. QED
      BY <1>1, <2>1, <3>1 DEF Tick, Spaced, Rests
  <2>3. QED
    BY <1>1, <2>2 DEF Tick, Spaced
<1>2. CASE UNCHANGED <<auth, last, now>>
  BY <1>2 DEF Spaced, Rests
<1>3. ASSUME NEW a \in Auths, Signal(a) PROVE Spaced'
  BY <1>3, <1>2 DEF Signal
<1>4. QED
  BY <1>1, <1>2, <1>3, LoopSpaced, WorkerSpaced, OutsideSpaced DEF Next, vars

\* A claim of a credential that rests can only come when its backoff is over.
LEMMA ClaimWaits ==
  Typed /\ Spaced /\ [Next]_vars =>
    [\A a \in Auths :
       loop.step = "mark" /\ loop'.step = "note" /\ loop.id = a /\ last[a] # NoTime
       => loop.t - last[a] >= Backoff]_vars
<1> SUFFICES ASSUME Typed, Spaced, [Next]_vars, NEW a \in Auths,
                    loop.step = "mark", loop'.step = "note", loop.id = a, last[a] # NoTime
             PROVE  loop.t - last[a] >= Backoff
  OBVIOUS
<1>1. CASE MarkPending
  <2>1. ~auth[a].disabled /\ auth[a].nra <= loop.t
    BY <1>1 DEF MarkPending, Typed, LoopRight, LoopState
  <2>2. /\ loop.t \in Time /\ last[a] \in Time /\ auth[a].nra \in Int
        /\ auth[a].nra >= After(last[a], Backoff)
    BY <2>1, Constant DEF Typed, LoopRight, LoopState, Spaced, Rests, Credential, Instant,
                          Never, NoTime
  <2>3. QED
    BY <2>1, <2>2, Constant, BackoffLeast DEF After, Never, Time
<1>2. CASE LoopStep /\ ~MarkPending
  BY <1>2 DEF LoopStep, LoopWake, LoopTimer, NotePending, SendJob, PutEntry, DrainDirty,
              ResetTimer, HandleDue, ReadDirty, Idle, Typed, LoopRight, LoopState
<1>3. CASE loop' = loop
  BY <1>3
<1>4. QED
  BY <1>1, <1>2, <1>3 DEF Next, vars, WorkerStep, WorkerTake, RefreshFails, RefreshSucceeds,
       Recheck, NoteRefresh, WorkerDone, Signal, Outside, Replace, NoteReplaced, UsageLimit, Tick, schedule

\* Whatever refreshes fail, bring nothing or race with changes from outside,
\* two dispatches of a due credential nobody changed are a backoff apart:
\* refreshAuth's ineffective-refresh guard closes the last way to spin.
THEOREM DispatchesAreSpaced == Spec => NoTightLoop
<1>1. Init => Typed /\ Spaced
  BY InitTyped DEF Init, Spaced, Rests
<1>2. Typed /\ Spaced /\ [Next]_vars => (Typed /\ Spaced)'
  BY TypedStep, SpacedStep
<1>3. Typed /\ Spaced /\ [Next]_vars =>
        [\A a \in Auths :
           loop.step = "mark" /\ loop'.step = "note" /\ loop.id = a /\ last[a] # NoTime
           => loop.t - last[a] >= Min({PendingBackoff, FailureBackoff, IneffectiveBackoff})]_vars
  BY ClaimWaits DEF Backoff
<1>4. QED
  BY <1>1, <1>2, <1>3, PTL DEF Spec, NoTightLoop
=============================================================================
