----------------------------- MODULE AutoRefresh -----------------------------
(***************************************************************************)
(* The token auto-refresh of the auth manager: the refresh loop with its   *)
(* schedule, dirty set, wake channel and timer (auto_refresh_loop.go), its *)
(* workers, and what refreshAuth, Update and MarkResult do to the          *)
(* credentials meanwhile (conductor.go).                                   *)
(*                                                                         *)
(* Of a credential only what the loop reads is kept.  "due" is the moment  *)
(* from which the token is to be refreshed (its expiry minus the           *)
(* provider's lead, or the last refresh plus the interval); it is Never    *)
(* for credentials that are not refreshed, such as API keys.  Times past   *)
(* the bound MaxTime are all equal to Never.                               *)
(***************************************************************************)
EXTENDS Integers, Sequences, FiniteSets, FiniteSetsExt

CONSTANTS
  Auths,              \* credential ids
  NoExecutor,         \* credentials whose provider has no executor
  Workers,            \* refresh workers
  JobsCap,            \* capacity of the jobs channel
  Interval,           \* l.interval
  PendingBackoff,     \* refreshPendingBackoff
  FailureBackoff,     \* refreshFailureBackoff
  IneffectiveBackoff, \* refreshIneffectiveBackoff
  Life,               \* how long a new token lasts before it is due again
  MaxTime,            \* bound of the clock
  MaxChanges          \* bound on the changes from outside the loop

NoAuth == "none"

ASSUME ConstantsAssumption ==
  /\ NoExecutor \subseteq Auths /\ NoAuth \notin Auths
  /\ {JobsCap, Interval, PendingBackoff, FailureBackoff, IneffectiveBackoff, Life}
       \subseteq Nat \ {0}
  /\ {MaxTime, MaxChanges} \subseteq Nat

NoTime == -1
Never == MaxTime + 1
Time == 0 .. MaxTime
After(t, d) == IF t + d > MaxTime THEN Never ELSE t + d
Later(t, u) == IF t < u THEN u ELSE t

VARIABLES
  auth,       \* m.auths: the fields the loop reads
  queue,      \* l.queue and l.index: the next check of each scheduled id
  dirty,      \* l.dirty
  writers,    \* how many outside callers wrote each id and have not marked it yet
  signalling, \* callers of queueReschedule between its two steps
  wake,       \* l.wakeCh holds a signal
  timer,      \* when the timer fires, NoTime when timerCh is nil
  loop,       \* where the loop goroutine is
  jobs,       \* l.jobs
  worker,     \* where each worker is
  now, changes,
  last        \* history: the last dispatch of a due credential, NoTime once it changed

vars == <<auth, queue, dirty, writers, signalling, wake, timer, loop, jobs, worker,
          now, changes, last>>
schedule == <<queue, timer, loop>>

Absent == [present |-> FALSE, disabled |-> FALSE, auto |-> NoTime,
           nra |-> NoTime, due |-> Never]
Idle == [phase |-> "idle", step |-> "pick", ids |-> {}, id |-> NoAuth,
         next |-> NoTime, t |-> 0]
Free == [step |-> "free", id |-> NoAuth, seen |-> Absent]

(***************************************************************************)
(* Decisions.                                                              *)
(***************************************************************************)
\* nextRefreshCheckAt: NoTime stands for its second result being false.
NextCheck(a, t) ==
  IF ~a.present THEN NoTime
  ELSE IF a.disabled THEN IF a.auto = NoTime THEN NoTime ELSE Later(a.auto, t)
  ELSE IF a.due = Never THEN NoTime
  ELSE IF a.nra > t THEN a.nra
  ELSE Later(a.due, t)

ShouldRefresh(a, t) == ~a.disabled /\ a.nra <= t /\ a.due <= now

\* queueReschedule, first step: the id is dirty, the signal is still to send.
\* Whoever wrote a credential calls it after releasing manager.mu, so the write
\* and the mark are two steps.
Reschedule(a) ==
  /\ dirty' = dirty \cup {a}
  /\ signalling' = signalling \cup {a}

\* queueReschedule, second step: a non-blocking send on a channel of one.
\* Mutant: the signal is lost.
SignalLost(a) ==
  /\ a \in signalling
  /\ signalling' = signalling \ {a}
  /\ UNCHANGED <<auth, dirty, writers, wake, schedule, jobs, worker, now, changes, last>>

Signal(a) ==
  /\ a \in signalling
  /\ signalling' = signalling \ {a}
  /\ wake' = TRUE
  /\ UNCHANGED <<auth, dirty, writers, schedule, jobs, worker, now, changes, last>>

Init ==
  /\ auth = [a \in Auths |-> Absent]
  /\ queue = [a \in Auths |-> NoTime]
  /\ dirty = {} /\ writers = [a \in Auths |-> 0] /\ signalling = {} /\ wake = FALSE
  /\ timer = NoTime
  /\ loop = Idle
  /\ jobs = <<>>
  /\ worker = [w \in Workers |-> Free]
  /\ now = 0 /\ changes = 0
  /\ last = [a \in Auths |-> NoTime]

(***************************************************************************)
(* The loop goroutine.                                                     *)
(***************************************************************************)
\* wakeCh is readable: everything dirty is looked at again.
LoopWake ==
  /\ loop.phase = "idle"
  /\ wake
  /\ wake' = FALSE
  /\ dirty' = {}
  /\ loop' = [Idle EXCEPT !.phase = "dirty", !.ids = dirty, !.t = now]
  /\ UNCHANGED <<auth, queue, writers, signalling, timer, jobs, worker, now, changes, last>>

\* The timer fired: popDue takes everything due off the schedule.
LoopTimer ==
  LET due == {a \in Auths : queue[a] # NoTime /\ queue[a] <= now}
  IN  /\ loop.phase = "idle"
      /\ timer # NoTime /\ timer <= now
      /\ timer' = NoTime
      /\ queue' = [a \in Auths |-> IF a \in due THEN NoTime ELSE queue[a]]
      /\ loop' = [Idle EXCEPT !.phase = "due", !.ids = due, !.t = now]
      /\ UNCHANGED <<auth, dirty, writers, signalling, wake, jobs, worker, now, changes, last>>

\* handleDueAuth, the part under manager.mu: what is to happen with a.
HandleDue(a) ==
  LET next == NextCheck(auth[a], loop.t)
      put(n) == loop' = [loop EXCEPT !.ids = @ \ {a}, !.id = a,
                                     !.step = "put", !.next = n]
  IN  /\ loop.phase = "due" /\ loop.step = "pick"
      /\ a \in loop.ids
      /\ \/ /\ next = NoTime \/ ~ShouldRefresh(auth[a], loop.t)
            /\ put(next)
         \/ /\ next # NoTime /\ ShouldRefresh(auth[a], loop.t)
            /\ a \in NoExecutor
            /\ put(After(loop.t, Interval))
         \/ /\ next # NoTime /\ ShouldRefresh(auth[a], loop.t)
            /\ a \notin NoExecutor
            /\ loop' = [loop EXCEPT !.ids = @ \ {a}, !.id = a, !.step = "mark"]
      /\ UNCHANGED <<auth, queue, dirty, writers, signalling, wake, timer, jobs, worker, now,
                     changes, last>>

\* markRefreshPending under manager.mu: it looks at the credential again before
\* it claims it, but not at its due time, so that one replaced since HandleDue
\* is claimed early, once.
MarkPending ==
  LET a == loop.id
      c == auth[a]
      claim == c.present /\ ~c.disabled /\ c.nra <= loop.t
  IN  /\ loop.step = "mark"
      /\ \/ /\ claim
            /\ auth' = [auth EXCEPT ![a].nra = After(loop.t, PendingBackoff)]
            /\ loop' = [loop EXCEPT !.step = "note"]
            /\ last' = [last EXCEPT ![a] = IF c.due <= now THEN loop.t ELSE NoTime]
         \/ /\ ~claim
            /\ loop' = [loop EXCEPT !.step = "put", !.next = NextCheck(c, loop.t)]
            /\ UNCHANGED <<auth, last>>
      /\ UNCHANGED <<queue, dirty, writers, signalling, wake, timer, jobs, worker,
                     now, changes>>

\* markRefreshPending after it released manager.mu.
NotePending ==
  /\ loop.step = "note"
  /\ Reschedule(loop.id)
  /\ loop' = [loop EXCEPT !.step = "send"]
  /\ UNCHANGED <<auth, queue, writers, wake, timer, jobs, worker, now, changes, last>>

\* The send on the jobs channel blocks while the channel is full.
SendJob ==
  /\ loop.step = "send"
  /\ Len(jobs) < JobsCap
  /\ jobs' = Append(jobs, loop.id)
  /\ loop' = [loop EXCEPT !.step = "pick", !.id = NoAuth]
  /\ UNCHANGED <<auth, queue, dirty, writers, signalling, wake, timer, worker, now, changes, last>>

\* applyDirty, the part under manager.mu.
ReadDirty(a) ==
  /\ loop.phase = "dirty" /\ loop.step = "pick"
  /\ a \in loop.ids
  /\ loop' = [loop EXCEPT !.ids = @ \ {a}, !.id = a, !.step = "put",
                          !.next = NextCheck(auth[a], loop.t)]
  /\ UNCHANGED <<auth, queue, dirty, writers, signalling, wake, timer, jobs, worker, now,
                 changes, last>>

\* Mutant: the dirty mark goes once the entry is written, not when it was read.
PutEntryClears ==
  /\ loop.step = "put"
  /\ queue' = [queue EXCEPT ![loop.id] = loop.next]
  /\ dirty' = dirty \ {loop.id}
  /\ loop' = [loop EXCEPT !.step = "pick", !.id = NoAuth, !.next = NoTime]
  /\ UNCHANGED <<auth, writers, signalling, wake, timer, jobs, worker, now, changes, last>>

\* upsert or remove, with what was read before manager.mu was released.
PutEntry ==
  /\ loop.step = "put"
  /\ queue' = [queue EXCEPT ![loop.id] = loop.next]
  /\ loop' = [loop EXCEPT !.step = "pick", !.id = NoAuth, !.next = NoTime]
  /\ UNCHANGED <<auth, dirty, writers, signalling, wake, timer, jobs, worker, now, changes, last>>

\* handleDue is done: the dirty ids are next, with the same clock reading.
DrainDirty ==
  /\ loop.phase = "due" /\ loop.step = "pick" /\ loop.ids = {}
  /\ dirty' = {}
  /\ loop' = [loop EXCEPT !.phase = "dirty", !.ids = dirty]
  /\ UNCHANGED <<auth, queue, writers, signalling, wake, timer, jobs, worker, now, changes, last>>

\* Mutant: the timer is armed only when something is due already.
ResetTimerLazily ==
  LET times == {queue[a] : a \in Auths} \cap (0 .. now)
  IN  /\ loop.phase = "dirty" /\ loop.step = "pick" /\ loop.ids = {}
      /\ timer' = IF times = {} THEN NoTime ELSE Min(times)
      /\ loop' = Idle
      /\ UNCHANGED <<auth, queue, dirty, writers, signalling, wake, jobs, worker, now,
                     changes, last>>

\* resetTimer; the lag between reading the clock and arming is left out.
ResetTimer ==
  LET times == {queue[a] : a \in Auths} \ {NoTime}
  IN  /\ loop.phase = "dirty" /\ loop.step = "pick" /\ loop.ids = {}
      /\ timer' = IF times = {} THEN NoTime ELSE Min(times)
      /\ loop' = Idle
      /\ UNCHANGED <<auth, queue, dirty, writers, signalling, wake, jobs, worker, now,
                     changes, last>>

LoopStep ==
  \/ LoopWake \/ LoopTimer \/ MarkPending \/ NotePending \/ SendJob \/ PutEntry
  \/ DrainDirty \/ ResetTimer
  \/ \E a \in Auths : HandleDue(a) \/ ReadDirty(a)

(***************************************************************************)
(* The workers.                                                            *)
(***************************************************************************)
\* Take a job; refreshAuth clones the credential it will work on.
WorkerTake(w) ==
  LET a == Head(jobs)
      c == auth[a]
      limited == c.disabled /\ c.auto # NoTime
  IN  /\ worker[w].step = "free"
      /\ jobs # <<>>
      /\ jobs' = Tail(jobs)
      /\ worker' = [worker EXCEPT ![w] =
                      [step |-> IF limited THEN "recheck" ELSE "refresh",
                       id |-> a, seen |-> c]]
      /\ UNCHANGED <<auth, dirty, writers, signalling, wake, schedule, now, changes, last>>

\* The credential is written and the clone of no more use; worker w has yet to
\* mark the credential.
Written(w) ==
  /\ worker' = [worker EXCEPT ![w].step = "note", ![w].seen = Absent]
  /\ UNCHANGED <<dirty, writers, signalling>>

\* exec.Refresh failed: the current credential backs off.
RefreshFails(w) ==
  LET a == worker[w].id
  IN  /\ worker[w].step = "refresh"
      /\ auth' = [auth EXCEPT ![a].nra = After(now, FailureBackoff)]
      /\ Written(w)
      /\ UNCHANGED <<wake, schedule, jobs, now, changes, last>>

\* exec.Refresh succeeded: the clone, with its new token or with the old one,
\* replaces the current credential.
\* Mutant: a refresh that changed nothing does not back off.
RefreshSucceedsEager(w, due) ==
  LET a == worker[w].id
      c == [worker[w].seen EXCEPT !.due = due, !.nra = NoTime]
  IN  /\ worker[w].step = "refresh"
      /\ auth' = [auth EXCEPT ![a] = c]
      /\ last' = IF due # auth[a].due THEN [last EXCEPT ![a] = NoTime] ELSE last
      /\ Written(w)
      /\ UNCHANGED <<wake, schedule, jobs, now, changes>>

RefreshSucceeds(w, due) ==
  LET a == worker[w].id
      c == [worker[w].seen EXCEPT !.due = due, !.nra = NoTime]
  IN  /\ worker[w].step = "refresh"
      /\ auth' = [auth EXCEPT ![a] =
                    IF ShouldRefresh(c, now)
                    THEN [c EXCEPT !.nra = After(now, IneffectiveBackoff)] ELSE c]
      /\ last' = IF due # auth[a].due THEN [last EXCEPT ![a] = NoTime] ELSE last
      /\ Written(w)
      /\ UNCHANGED <<wake, schedule, jobs, now, changes>>

\* refreshCodexUsageLimitedAuth: the quota check of a credential that was
\* disabled because its usage limit was reached.
Recheck(w, outcome) ==
  LET a == worker[w].id
  IN  /\ worker[w].step = "recheck"
      /\ auth' = [auth EXCEPT ![a] =
           CASE outcome = "recovered" ->
                  [@ EXCEPT !.disabled = FALSE, !.auto = NoTime, !.nra = NoTime]
             [] outcome = "limited" ->
                  [@ EXCEPT !.disabled = TRUE, !.auto = After(now, 1), !.nra = NoTime]
             [] outcome = "error" ->
                  [@ EXCEPT !.auto = After(now, FailureBackoff),
                            !.nra = After(now, FailureBackoff)]]
      /\ last' = IF outcome = "recovered" THEN [last EXCEPT ![a] = NoTime] ELSE last
      /\ Written(w)
      /\ UNCHANGED <<wake, schedule, jobs, now, changes>>

\* refreshAuth, Update or the recheck after it released manager.mu.
NoteRefresh(w) ==
  /\ worker[w].step = "note"
  /\ Reschedule(worker[w].id)
  /\ worker' = [worker EXCEPT ![w].step = "done"]
  /\ UNCHANGED <<auth, writers, wake, schedule, jobs, now, changes, last>>

\* Whatever refreshAuth did, the worker asks for a new look at the credential.
WorkerDone(w) ==
  /\ worker[w].step = "done"
  /\ Reschedule(worker[w].id)
  /\ worker' = [worker EXCEPT ![w] = Free]
  /\ UNCHANGED <<auth, writers, wake, schedule, jobs, now, changes, last>>

WorkerStep(w) ==
  \/ WorkerTake(w)
  \/ RefreshFails(w)
  \/ \E due \in {worker[w].seen.due, After(now, Life)} : RefreshSucceeds(w, due)
  \/ \E outcome \in {"recovered", "limited", "error"} : Recheck(w, outcome)
  \/ NoteRefresh(w)
  \/ WorkerDone(w)

(***************************************************************************)
(* Changes from outside the loop.                                          *)
(***************************************************************************)
\* Register or Update by the service (a changed file, the management API), up to
\* the release of manager.mu: applyCoreAuthAddOrUpdate keeps the backoff when
\* both states are enabled.
Replace(a, disabled, due, auto) ==
  /\ changes < MaxChanges
  /\ changes' = changes + 1
  /\ auto # NoTime => disabled
  /\ auth' = [auth EXCEPT ![a] =
                [present |-> TRUE, disabled |-> disabled, due |-> due, auto |-> auto,
                 nra |-> IF @.disabled \/ disabled THEN NoTime ELSE @.nra]]
  /\ last' = [last EXCEPT ![a] = NoTime]
  /\ writers' = [writers EXCEPT ![a] = @ + 1]
  /\ UNCHANGED <<dirty, signalling, wake, schedule, jobs, worker, now>>

\* Mutant: the caller returns without asking for a new look.
NoteNothing(a) ==
  /\ writers[a] > 0
  /\ writers' = [writers EXCEPT ![a] = @ - 1]
  /\ UNCHANGED <<auth, dirty, signalling, wake, schedule, jobs, worker, now, changes,
                 last>>

\* The rest of Register or Update.
NoteReplaced(a) ==
  /\ writers[a] > 0
  /\ writers' = [writers EXCEPT ![a] = @ - 1]
  /\ Reschedule(a)
  /\ UNCHANGED <<auth, wake, schedule, jobs, worker, now, changes, last>>

\* MarkResult of a request that met the usage limit; nothing is rescheduled.
UsageLimit(a) ==
  /\ changes < MaxChanges
  /\ changes' = changes + 1
  /\ auth[a].present /\ auth[a].due # Never
  /\ auth' = [auth EXCEPT ![a].disabled = TRUE, ![a].auto = After(now, 1)]
  /\ last' = [last EXCEPT ![a] = NoTime]
  /\ UNCHANGED <<dirty, writers, signalling, wake, schedule, jobs, worker, now>>

Tick ==
  /\ now < MaxTime
  /\ now' = now + 1
  /\ UNCHANGED <<auth, dirty, writers, signalling, wake, schedule, jobs, worker, changes, last>>

Outside ==
  \E a \in Auths :
    \/ UsageLimit(a)
    \/ NoteReplaced(a)
    \/ \E disabled \in BOOLEAN, due \in {now, After(now, Life), Never},
          auto \in {NoTime, auth[a].auto} : Replace(a, disabled, due, auto)

Next ==
  \/ LoopStep
  \/ \E w \in Workers : WorkerStep(w)
  \/ \E a \in Auths : Signal(a)
  \/ Outside
  \/ Tick

Spec == Init /\ [][Next]_vars

\* Runnable goroutines run, the clock advances, and exec.Refresh and the quota
\* check return (their HTTP clients have timeouts).  An outside caller that wrote
\* a credential goes on to mark it; that there is one is not assumed.
Fairness ==
  /\ WF_vars(LoopStep)
  /\ \A w \in Workers : WF_vars(WorkerStep(w))
  /\ \A a \in Auths : WF_vars(Signal(a)) /\ WF_vars(NoteReplaced(a))
  /\ WF_vars(Tick)

FairSpec == Spec /\ Fairness

(***************************************************************************)
(* Properties.                                                             *)
(***************************************************************************)
Refreshable(a) == auth[a].present /\ ~auth[a].disabled /\ auth[a].due # Never

\* Credentials whose last writer has released manager.mu and is about to mark
\* them dirty: an outside caller, the loop or a worker.
Unnoted(a) ==
  \/ writers[a] > 0
  \/ loop.id = a /\ loop.step = "note"
  \/ \E w \in Workers : worker[w].id = a /\ worker[w].step = "note"

\* A refreshable credential is never forgotten and never scheduled too late:
\* it is dirty, or somebody who wrote it is about to mark it so, or it is in the
\* loop's hands, or in the schedule no later than nextRefreshCheckAt says now,
\* although the loop writes entries it computed before it released manager.mu.
NeverLate ==
  \A a \in Auths \ NoExecutor :
    Refreshable(a) =>
      \/ a \in dirty \cup loop.ids
      \/ Unnoted(a)
      \/ loop.id = a /\ loop.step = "mark"
      \/ loop.id = a /\ loop.step = "put" /\ loop.next \in 0 .. NextCheck(auth[a], now)
      \/ loop.id # a /\ queue[a] \in 0 .. NextCheck(auth[a], now)

\* A dirty id is always followed by a look at it: a signal is in the channel,
\* or about to be sent, or the loop is on its way to drain the set.
DirtyIsSignalled == dirty # {} => wake \/ signalling # {} \/ loop.phase = "due"

\* Together: a refreshable credential is scheduled in time, or is in the loop's
\* hands, or dirty with a signal that will bring the loop to it, or about to be
\* made dirty by whoever wrote it.
NeverForgotten == NeverLate /\ DirtyIsSignalled

\* Two dispatches of an unchanged credential are at least the smallest backoff
\* apart ("Without this guard, the auto-refresh loop can tight-loop").
NoTightLoop ==
  [][\A a \in Auths :
       loop.step = "mark" /\ loop'.step = "note" /\ loop.id = a /\ last[a] # NoTime
       => loop.t - last[a] >= Min({PendingBackoff, FailureBackoff, IneffectiveBackoff})]_vars

\* A token that is due and not backing off is taken up: the credential is
\* claimed for a refresh, or changed by someone else.
Ripe(a) == Refreshable(a) /\ a \notin NoExecutor /\ ShouldRefresh(auth[a], now)
DueIsRefreshed == \A a \in Auths : Ripe(a) ~> ~Ripe(a)

\* A credential that hit its usage limit is rechecked once its quota window
\* has ended, as nextRefreshCheckAt schedules it.
LimitOver(a) == auth[a].disabled /\ auth[a].auto # NoTime /\ auth[a].auto <= now
LimitedIsRechecked ==
  \A a \in Auths :
    LimitOver(a) ~> (~LimitOver(a) \/ \E w \in Workers : worker[w].id = a)
=============================================================================
