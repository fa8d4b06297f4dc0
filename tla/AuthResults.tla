---------------------------- MODULE AuthResults ----------------------------
(***************************************************************************)
(* The results of requests, the Codex quota check and the updates of the   *)
(* watcher, on one credential (sdk/cliproxy/auth/conductor.go,             *)
(* sdk/cliproxy/service.go).  Its state is in four places with a lock      *)
(* each, or none: m.auths, the scheduler's snapshot, the marks in the      *)
(* model registry, and the file, which anybody may edit.  What an answer   *)
(* does to the credential is in Cooldowns.                                 *)
(* A request reaches a registered credential: which models the scheduler   *)
(* believes registered, and how a missed pick resynchronises it, is in     *)
(* AuthRegistration.  A write of the file that changes it makes the        *)
(* watcher read it once more: the hashes and queues in between are in      *)
(* WatcherDispatch.                                                        *)
(***************************************************************************)
EXTENDS Cooldowns

CONSTANTS
  Workers,                       \* requests under way from the start
  MaxTime,                       \* bounds: the last time, and how many
  MaxActs                        \* results, edits and checks there may be

VARIABLES
  now,
  cooling,     \* quotaCooldownDisabledForAuth is false
  core,        \* the credential in m.auths
  sched,       \* its snapshot in the scheduler
  registered,  \* whether the registry has its models
  quota,       \* those of them it has marked as over quota
  suspended,   \* and as suspended
  file,        \* "disabled" and the auto re-enable reason in the file
  dirty,       \* the watcher has to read the file
  req,         \* req[w]: what the request w does next, and its locals
  upd,         \* the consumer of updates, likewise
  chk,         \* the quota check, likewise
  left,        \* what is left of MaxActs
  raced,       \* history: the models last written by two at a time
  crossed      \* history: m.auths was last written while another had a snapshot to push

vars == <<now, cooling, core, sched, registered, quota, suspended, file, dirty, req, upd, chk,
          left, raced, crossed>>

Silent == [at |-> "done", model |-> "none", mark |-> "none", auth |-> Fresh(TRUE)]
Idle == [at |-> "idle", auth |-> Fresh(TRUE)]
NoCheck == [at |-> "idle", loaded |-> [disabled |-> TRUE, limited |-> FALSE],
            answer |-> "none"]

\* What Save writes of a credential, and what the watcher makes of a file.
FileOf(a) == [disabled |-> a.disabled, limited |-> a.limited]
AuthOf(f) == [Fresh(f.disabled) EXCEPT !.limited = f.limited]

\* Who has a snapshot to push; who is between a model's state and its marks.
Pushing == {w \in Workers : req[w].at = "push"}
           \cup (IF upd.at \in {"push", "pushReconciled", "pushEntry"} THEN {"upd"} ELSE {})
Marking == {w \in Workers : req[w].mark # "none"}
Held == {req[w].model : w \in Marking}
HeldBut(w) == {req[v].model : v \in Marking \ {w}}
              \cup (IF upd.at = "reconcile" THEN Models ELSE {})

\* Save writes only what differs from the file.
Save(a) == /\ file' = FileOf(a)
           /\ dirty' = (dirty \/ file' # file)

Registry == <<registered, quota, suspended>>

Init ==
  /\ now = 1 /\ cooling \in BOOLEAN
  /\ core = Fresh(FALSE) /\ sched = core
  /\ registered = TRUE /\ quota = {} /\ suspended = {}
  /\ file = FileOf(core) /\ dirty = FALSE
  /\ req = [w \in Workers |-> [Silent EXCEPT !.at = "asked"]]
  /\ upd = Idle /\ chk = NoCheck
  /\ left = MaxActs
  /\ raced = {} /\ crossed = FALSE

(***************************************************************************)
(* Requests.                                                               *)
(***************************************************************************)
\* What a result will mark in the registry: a success clears both marks.
MarkFor(answer) ==
  CASE answer = "ok"                        -> "clear"
    [] answer = "quota" /\ cooling          -> "quota"
    [] answer = "unsupported" \/ (cooling /\ answer \in {"auth", "notFound"}) -> "suspend"
    [] OTHER                                -> "none"

\* A result's own race, or the end of those before it.
RacedBy(w, m, answer) ==
  IF m \in HeldBut(w) THEN raced \cup {m} ELSE IF answer = "ok" THEN raced \ {m} ELSE raced

\* Mutant: the credential is not saved.
RecordUnsaved(w, m, answer, hint) ==
  /\ req[w].at = "asked" /\ left > 0
  /\ left' = left - 1
  /\ core' = Recorded(core, m, answer, hint, cooling, now)
  /\ req' = [req EXCEPT ![w] = [at |-> "push", model |-> m, mark |-> MarkFor(answer), auth |-> core']]
  /\ raced' = RacedBy(w, m, answer)
  /\ crossed' = (Pushing # {})
  /\ UNCHANGED <<now, cooling, sched, Registry, file, dirty, upd, chk>>

\* MarkResult under m.mu: whatever the result, the credential is saved.
Record(w, m, answer, hint) ==
  /\ req[w].at = "asked" /\ left > 0
  /\ left' = left - 1
  /\ core' = Recorded(core, m, answer, hint, cooling, now)
  /\ Save(core')
  /\ req' = [req EXCEPT ![w] = [at |-> "push", model |-> m, mark |-> MarkFor(answer), auth |-> core']]
  /\ raced' = RacedBy(w, m, answer)
  /\ crossed' = (Pushing # {})
  /\ UNCHANGED <<now, cooling, sched, Registry, upd, chk>>

Push(w) ==
  /\ req[w].at = "push"
  /\ sched' = req[w].auth
  /\ req' = [req EXCEPT ![w] =
               CASE @.mark \in {"clear", "quota"} -> [@ EXCEPT !.at = "quota", !.auth = Silent.auth]
                 [] @.mark = "suspend"            -> [@ EXCEPT !.at = "suspend", !.auth = Silent.auth]
                 [] @.mark = "none"               -> Silent]
  /\ UNCHANGED <<now, cooling, core, Registry, file, dirty, upd, chk, left, raced, crossed>>

\* ClearModelQuotaExceeded or SetModelQuotaExceeded
MarkQuota(w) ==
  /\ req[w].at = "quota"
  /\ quota' = IF req[w].mark = "clear" THEN quota \ {req[w].model}
              ELSE quota \cup {m \in {req[w].model} : registered}
  /\ req' = [req EXCEPT ![w].at = "suspend"]
  /\ UNCHANGED <<now, cooling, core, sched, registered, suspended, file, dirty, upd, chk, left,
                 raced, crossed>>

\* ResumeClientModel or SuspendClientModel
MarkSuspended(w) ==
  /\ req[w].at = "suspend"
  /\ suspended' = IF req[w].mark = "clear" THEN suspended \ {req[w].model}
                  ELSE suspended \cup {m \in {req[w].model} : registered}
  /\ req' = [req EXCEPT ![w] = Silent]
  /\ UNCHANGED <<now, cooling, core, sched, registered, quota, file, dirty, upd, chk, left,
                 raced, crossed>>

(***************************************************************************)
(* An update of the watcher: the file is read, and later applied by the    *)
(* service's consumer, whose steps follow one another.                     *)
(***************************************************************************)
ReadFile ==
  /\ dirty /\ upd.at = "idle"
  /\ dirty' = FALSE
  /\ upd' = [at |-> "fetch", auth |-> AuthOf(file)]
  /\ UNCHANGED <<now, cooling, core, sched, Registry, file, req, chk, left, raced, crossed>>

Fetch ==
  /\ upd.at = "fetch"
  /\ upd' = [at |-> "update", auth |-> Inheriting(upd.auth, core)]
  /\ UNCHANGED <<now, cooling, core, sched, Registry, file, dirty, req, chk, left, raced, crossed>>

\* Manager.Update, which the consumer's context keeps from saving.
Update ==
  /\ upd.at = "update"
  /\ core' = Inheriting(upd.auth, core)
  /\ upd' = [at |-> "push", auth |-> core']
  /\ crossed' = (Pushing # {})
  /\ UNCHANGED <<now, cooling, sched, Registry, file, dirty, req, chk, left, raced>>

\* The pushed credential is the one in m.auths, read without m.mu: what others
\* have written into it meanwhile may show or not.
PushUpdated ==
  /\ upd.at = "push"
  /\ sched' \in {upd.auth, core}
  /\ upd' = [at |-> "register", auth |-> Fresh(upd.auth.disabled)]
  /\ UNCHANGED <<now, cooling, core, Registry, file, dirty, req, chk, left, raced, crossed>>

\* Mutant: the registration keeps the marks.
RegisterKeeping ==
  /\ upd.at = "register"
  /\ registered' = ~upd.auth.disabled
  /\ upd' = [Idle EXCEPT !.at = "reconcile"]
  /\ raced' = Held
  /\ UNCHANGED <<now, cooling, core, sched, quota, suspended, file, dirty, req, chk, left, crossed>>

\* registerModelsForAuth
Register ==
  /\ upd.at = "register"
  /\ registered' = ~upd.auth.disabled /\ quota' = {} /\ suspended' = {}
  /\ upd' = [Idle EXCEPT !.at = "reconcile"]
  /\ raced' = Held
  /\ UNCHANGED <<now, cooling, core, sched, file, dirty, req, chk, left, crossed>>

Reconcile ==
  /\ upd.at = "reconcile"
  /\ core' = Reconciled(core, IF registered THEN Models ELSE {}, now)
  /\ upd' = IF core' = core THEN [Idle EXCEPT !.at = "entry"]
                            ELSE [at |-> "pushReconciled", auth |-> core']
  /\ raced' = raced \cup Held
  /\ crossed' = IF core' = core THEN crossed ELSE Pushing # {}
  /\ UNCHANGED <<now, cooling, sched, Registry, file, dirty, req, chk, left>>

PushReconciled ==
  /\ upd.at = "pushReconciled"
  /\ sched' = upd.auth
  /\ upd' = [Idle EXCEPT !.at = "entry"]
  /\ UNCHANGED <<now, cooling, core, Registry, file, dirty, req, chk, left, raced, crossed>>

\* RefreshSchedulerEntry
ReadEntry ==
  /\ upd.at = "entry"
  /\ upd' = [at |-> "pushEntry", auth |-> core]
  /\ crossed' = (crossed /\ Pushing # {})
  /\ UNCHANGED <<now, cooling, core, sched, Registry, file, dirty, req, chk, left, raced>>

PushEntry ==
  /\ upd.at = "pushEntry"
  /\ sched' = upd.auth
  /\ upd' = Idle
  /\ UNCHANGED <<now, cooling, core, Registry, file, dirty, req, chk, left, raced, crossed>>

(***************************************************************************)
(* The quota check of a credential that a usage limit disabled.  It reads  *)
(* the file, asks the provider, writes the file, applies the answer to     *)
(* m.auths, and saves that without the lock.  The refresh loop dispatches  *)
(* enabled credentials only (AutoRefresh): a check takes place where the   *)
(* limit came between the dispatch and the worker.                         *)
(***************************************************************************)
Dispatch ==
  /\ chk.at = "idle" /\ ~core.disabled
  /\ left > 0 /\ left' = left - 1
  /\ chk' = [NoCheck EXCEPT !.at = "queued"]
  /\ UNCHANGED <<now, cooling, core, sched, Registry, file, dirty, req, upd, raced, crossed>>

\* refreshAuth; the refresh of a token is in AuthRegistration.
CheckLoad ==
  /\ chk.at = "queued"
  /\ chk' = IF core.disabled /\ core.limited THEN [NoCheck EXCEPT !.at = "asking", !.loaded = file]
                                             ELSE NoCheck
  /\ UNCHANGED <<now, cooling, core, sched, Registry, file, dirty, req, upd, left, raced, crossed>>

\* checkQuotaForFile: a file that is enabled already is not "auto enabled".
CheckAnswered(windows) ==
  /\ chk.at = "asking"
  /\ file' = CASE windows = "free"                   -> [chk.loaded EXCEPT !.disabled = FALSE]
               [] windows = "used"                   -> [chk.loaded EXCEPT !.disabled = TRUE]
               [] windows \in {"unclear", "unknown"} -> chk.loaded
  /\ dirty' = TRUE
  /\ chk' = [chk EXCEPT !.at = "apply",
               !.answer = CASE windows = "unknown"                       -> "error"
                            [] windows = "free" /\ chk.loaded.disabled   -> "enable"
                            [] windows = "free" /\ ~chk.loaded.disabled  -> "disable"
                            [] windows \in {"used", "unclear"}           -> "disable"]
  /\ UNCHANGED <<now, cooling, core, sched, Registry, req, upd, left, raced, crossed>>

\* The token of the file could not be refreshed, or the file not be read.
CheckFailed ==
  /\ chk.at = "asking"
  /\ chk' = [chk EXCEPT !.at = "apply", !.answer = "error"]
  /\ UNCHANGED <<now, cooling, core, sched, Registry, file, dirty, req, upd, left, raced, crossed>>

\* Mutant: the scheduler is not told.
CheckApplyQuietly ==
  /\ chk.at = "apply"
  /\ core' = CASE chk.answer = "enable"  -> QuotaEnabled(core)
               [] chk.answer = "disable" -> QuotaLimited(core)
               [] chk.answer = "error"   -> QuotaUnknown(core)
  /\ chk' = [NoCheck EXCEPT !.at = "persist", !.loaded = FileOf(core')]
  /\ crossed' = (Pushing # {})
  /\ UNCHANGED <<now, cooling, sched, Registry, file, dirty, req, upd, left, raced>>

\* The scheduler is told under m.mu.
CheckApply ==
  /\ chk.at = "apply"
  /\ core' = CASE chk.answer = "enable"  -> QuotaEnabled(core)
               [] chk.answer = "disable" -> QuotaLimited(core)
               [] chk.answer = "error"   -> QuotaUnknown(core)
  /\ sched' = core'
  /\ chk' = [NoCheck EXCEPT !.at = "persist", !.loaded = FileOf(core')]
  /\ crossed' = (Pushing # {})
  /\ UNCHANGED <<now, cooling, Registry, file, dirty, req, upd, left, raced>>

\* The new check times make the content differ.
CheckPersist ==
  /\ chk.at = "persist"
  /\ file' = chk.loaded /\ dirty' = TRUE
  /\ chk' = NoCheck
  /\ UNCHANGED <<now, cooling, core, sched, Registry, req, upd, left, raced, crossed>>

(***************************************************************************)
(* The environment: time passes, and the file is edited or uploaded anew.  *)
(***************************************************************************)
Tick ==
  /\ now < MaxTime
  /\ now' = now + 1
  /\ UNCHANGED <<cooling, core, sched, Registry, file, dirty, req, upd, chk, left, raced, crossed>>

Edit ==
  /\ left > 0 /\ left' = left - 1
  /\ file' \in {[file EXCEPT !.disabled = ~@], [disabled |-> FALSE, limited |-> FALSE]} \ {file}
  /\ dirty' = TRUE
  /\ UNCHANGED <<now, cooling, core, sched, Registry, req, upd, chk, raced, crossed>>

Next ==
  \/ \E w \in Workers : \/ \E m \in Models, answer \in Answers, hint \in BOOLEAN :
                             (hint => answer \in {"quota", "limit"}) /\ Record(w, m, answer, hint)
                        \/ Push(w) \/ MarkQuota(w) \/ MarkSuspended(w)
  \/ ReadFile \/ Fetch \/ Update \/ PushUpdated \/ Register \/ Reconcile
  \/ PushReconciled \/ ReadEntry \/ PushEntry
  \/ Dispatch \/ CheckLoad \/ CheckFailed \/ CheckApply \/ CheckPersist
  \/ \E windows \in {"free", "used", "unclear", "unknown"} : CheckAnswered(windows)
  \/ Tick \/ Edit

Spec == Init /\ [][Next]_vars

(***************************************************************************)
(* Properties.                                                             *)
(***************************************************************************)
\* Nobody has anything left to do but to ask.
AtRest == /\ ~dirty /\ upd.at = "idle" /\ chk.at = "idle"
          /\ \A w \in Workers : req[w].at \in {"asked", "done"}

\* When nobody has anything left to do, the credential in memory is disabled,
\* and waits for a quota check, exactly if its file says so, whatever
\* results, checks, edits and updates overtook one another.
MemoryMatchesFile == AtRest => FileOf(core) = file

\* A credential that was disabled for a usage limit and enabled again, by a
\* check or by hand, serves all its models: no model's state stays disabled.
ReenabledServes ==
  AtRest /\ ~core.disabled =>
    core.status # "disabled" /\ \A m \in Models : core.models[m].status # "disabled"

\* When nobody has a snapshot left to push, the scheduler has the credential of
\* m.auths, unless that was last written while an older snapshot was on its way.
SchedulerFollows ==
  Pushing = {} /\ ~crossed => sched = core

\* A mark in the registry has its reason in the state of the model, unless a
\* registration or another result of the model overlapped with the last result.
MarksFollow ==
  AtRest => \A m \in Models \ raced : /\ m \in quota => core.models[m].exceeded
                                      /\ m \in suspended => core.models[m].err

\* While a credential as a whole is unavailable, none of the models with a
\* state can be asked: it is not held back until its last model is back.
AggregateIsSound ==
  core.unavail /\ now < core.next => \A m \in Known(core) : Blocked(core, m, now)

=============================================================================
