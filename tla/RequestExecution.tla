------------------------- MODULE RequestExecution -------------------------
(***************************************************************************)
(* The retries of requests (sdk/cliproxy/auth/conductor.go: Execute,       *)
(* ExecuteStream and what they call).  A request asks one credential after *)
(* another; when a round has used them up it may wait for a cooldown and   *)
(* start another round.  Requests share the credentials' states, the       *)
(* scheduler and the binding of their session.                             *)
(* Times are counted down: a state's next and recover say how long it      *)
(* still rests.  The requests are for one model; all credentials have it.  *)
(***************************************************************************)
EXTENDS Cooldowns

CONSTANTS
  Auths, Requests, None,
  Streams,       \* the requests that stream
  Codex,         \* the credentials that a usage limit disables
  Retry,         \* Retry[a]: the request-retry setting or a's override
  Settings,      \* [cooling, compat, credentials, wait]: configurations
  Errors         \* the failures that providers answer with

ASSUME RequestAssumption ==
  /\ IsFiniteSet(Auths) /\ Streams \subseteq Requests
  /\ Codex \subseteq Auths /\ Errors \subseteq Failures
  /\ None \notin Auths /\ Retry \in [Auths -> Nat]
  /\ Settings \subseteq [cooling : BOOLEAN, compat : BOOLEAN, credentials : Nat, wait : Nat]

VARIABLES
  set,       \* the configuration
  state,     \* state[a]: what requests see of the model's state in m.auths
  off,       \* the credentials that are disabled
  swapped,   \* those whose last two results may have reached the scheduler in the wrong order
  pin,       \* the credential to which the session is bound
  request,   \* request[r]: where the request r is, and its locals
  due        \* history: due[r] counts asks without a result yet

requestVars == <<set, state, off, swapped, pin, request, due>>

\* The part of a model's state that is seen; the status "disabled" of a usage
\* limit comes with a disabled credential.
Seen(s) == [next |-> s.next, recover |-> s.recover, level |-> s.level, retry |-> s.retry]
StateOf(a) ==
  LET s == state[a]
  IN  [Clean EXCEPT !.unavail = s.next > 0, !.next = s.next, !.recover = s.recover,
                    !.level = s.level, !.retry = s.retry]

Off(a) == a \in off \/ StateBlocked(StateOf(a), 0)
Late == {request[r].auth : r \in {q \in Requests : request[q].at = "push"}}

\* What the scheduler may hold ready: it knows m.auths except where results
\* are on their way to it, or came in the wrong order.
Ready(unsure) == {S \in SUBSET Auths : \A a \in Auths \ unsure : a \in S <=> ~Off(a)}

Starting == [at |-> "pick", auth |-> None, tried |-> {}, attempt |-> 0, err |-> "none",
             wait |-> 0, drop |-> FALSE, failed |-> FALSE, then |-> "done", sure |-> FALSE]

\* What the end of a request leaves behind.
Ended(how) == [Starting EXCEPT !.at = how]

RequestsInit ==
  /\ set \in Settings
  /\ state = [a \in Auths |-> Seen(NoState)] /\ off = {} /\ swapped = {}
  /\ pin = None
  /\ request = [r \in Requests |-> Starting]
  /\ due = [r \in Requests |-> 0]

Shared == <<set, state, off, swapped, pin, due>>

(***************************************************************************)
(* One round.                                                              *)
(***************************************************************************)
Full(r) == set.credentials > 0 /\ Cardinality(request[r].tried) >= set.credentials

LimitReached(r) ==
  /\ request[r].at = "pick" /\ Full(r)
  /\ request' = [request EXCEPT ![r].at = "roundOver"]
  /\ UNCHANGED Shared

\* pickNextMixed: the session's credential, if it can be had, else any other.
Pick(r) ==
  /\ request[r].at = "pick" /\ ~Full(r)
  /\ \E ready \in Ready(Late \cup swapped) :
       LET left == ready \ request[r].tried
       IN  \E a \in (IF pin \in left THEN {pin} ELSE left) :
             request' = [request EXCEPT ![r].at = "bind", ![r].auth = a,
                                        ![r].tried = @ \cup {a}]
  /\ UNCHANGED Shared

\* Mutant: a binding whose credential is not ready ends the round.
MissPinned(r) ==
  /\ request[r].at = "pick" /\ ~Full(r)
  /\ \E ready \in Ready(Late \cap swapped) :
       ready \ request[r].tried = {} \/ pin \in Auths \ (ready \cup request[r].tried)
  /\ swapped' = swapped \cap Late
  /\ request' = [request EXCEPT ![r].at = "roundOver"]
  /\ UNCHANGED <<set, state, off, pin, due>>

\* No credential is left, also after the scheduler was resynchronised.
Miss(r) ==
  /\ request[r].at = "pick" /\ ~Full(r)
  /\ \E ready \in Ready(Late \cap swapped) : ready \ request[r].tried = {}
  /\ swapped' = swapped \cap Late
  /\ request' = [request EXCEPT ![r].at = "roundOver"]
  /\ UNCHANGED <<set, state, off, pin, due>>

\* bindSessionAffinity, and the request goes out.
Bind(r) ==
  /\ request[r].at = "bind"
  /\ pin' = request[r].auth
  /\ request' = [request EXCEPT ![r].at = "asking"]
  /\ due' = [due EXCEPT ![r] = @ + 1]
  /\ UNCHANGED <<set, state, off, swapped>>

(***************************************************************************)
(* Results.                                                                *)
(***************************************************************************)
\* MarkResult under m.mu; what follows it does in PushResult.
Mark(r, answer, hint, err, then) ==
  LET a == request[r].auth
      new == AfterAnswer(StateOf(a), answer, hint, set.cooling, 0)
      gone == answer = "limit" \/ a \in off
  IN  /\ state' = [state EXCEPT ![a] = Seen(new)]
      /\ off' = IF gone THEN off \cup {a} ELSE off
      /\ swapped' = IF \E q \in Requests \ {r} : request[q].at = "push" /\ request[q].auth = a
                    THEN swapped \cup {a} ELSE swapped \ {a}
      /\ due' = [due EXCEPT ![r] = @ - 1]
      /\ request' = [q \in Requests |->
                   IF q = r
                   THEN [request[r] EXCEPT
                           !.at = "push", !.err = err, !.then = then, !.sure = FALSE,
                           !.drop = answer \notin {"ok", "scoped"} /\ (gone \/ StateBlocked(new, 0)),
                           !.failed = then = "streaming"]
                   ELSE [request[q] EXCEPT !.sure = FALSE]]
      /\ UNCHANGED <<set, pin>>

ErrorsOf(a) == IF a \in Codex THEN Errors ELSE Errors \ {"limit"}
Hints(answer) == IF answer \in {"quota", "limit"} THEN BOOLEAN ELSE {FALSE}

\* A hint that comes in a chunk of a stream is lost to the retry.
Answer(r) ==
  /\ request[r].at = "asking"
  /\ \E answer \in ErrorsOf(request[r].auth) \cup {"ok"} : \E hint \in Hints(answer) :
       \/ /\ answer \notin {"ok", "scoped"}
          /\ \E err \in {IF hint THEN "hinted" ELSE "other"}
                        \cup (IF r \in Streams THEN {"other"} ELSE {}) :
               Mark(r, answer, hint, err, "pick")
       \/ answer = "scoped" /\ Mark(r, answer, hint, "other", "done")
       \/ answer = "ok" /\ r \notin Streams /\ Mark(r, answer, hint, "none", "done")

\* The first payload of a stream; its result is recorded later.
StreamStarts(r) ==
  /\ request[r].at = "asking" /\ r \in Streams
  /\ request' = [request EXCEPT ![r].at = "streaming", ![r].tried = {}, ![r].err = "none"]
  /\ UNCHANGED Shared

\* A first error within the stream is recorded, without its hint, and passed on.
StreamFails(r) ==
  /\ request[r].at = "streaming" /\ ~request[r].failed
  /\ \E answer \in ErrorsOf(request[r].auth) : Mark(r, answer, FALSE, "other", "streaming")

\* Mutant: the end of a stream is a success.
StreamClosesWell(r) ==
  /\ request[r].at = "streaming"
  /\ Mark(r, "ok", FALSE, "none", "done")

\* The end of a stream is a success if it had no error.
StreamCloses(r) ==
  /\ request[r].at = "streaming"
  /\ \/ ~request[r].failed /\ Mark(r, "ok", FALSE, "none", "done")
     \/ request[r].failed /\ request' = [request EXCEPT ![r] = Ended("done")] /\ UNCHANGED Shared

\* The snapshot reaches the scheduler, and sessions leave a blocked credential.
PushResult(r) ==
  /\ request[r].at = "push"
  /\ pin' = IF request[r].drop /\ pin = request[r].auth THEN None ELSE pin
  /\ request' = [request EXCEPT ![r] =
                   CASE @.then = "pick" -> [@ EXCEPT !.at = "pick", !.then = "done",
                                                     !.drop = FALSE, !.auth = None]
                     [] @.then = "streaming" -> [@ EXCEPT !.at = "streaming",
                                                          !.then = "done", !.drop = FALSE]
                     [] @.then = "done" -> Ended("done")]
  /\ UNCHANGED <<set, state, off, swapped, due>>

(***************************************************************************)
(* Between rounds.                                                         *)
(***************************************************************************)
\* How long isAuthBlockedForModel says that a blocked credential rests.
Until(a) == IF state[a].recover > 0 THEN state[a].recover ELSE state[a].next

\* closestCooldownWait looks at these.
Resting(attempt) ==
  {a \in Auths \ off : attempt < Retry[a] /\ Off(a)}

\* shouldRetryAfterError: how long to wait for another round, if there is one.
Waits(r) ==
  LET resting == Resting(request[r].attempt)
      closest == Min({Until(a) : a \in resting})
      hinted == /\ request[r].err = "hinted" /\ RetryAfter <= set.wait
                /\ \E a \in Auths : request[r].attempt < Retry[a]
  IN  CASE set.wait = 0 -> {}
        [] set.wait > 0 /\ resting # {} ->
             IF closest > set.wait /\ set.compat THEN {} ELSE {Min({closest, set.wait})}
        [] set.wait > 0 /\ resting = {} -> IF hinted THEN {RetryAfter} ELSE {}

\* History: somebody's whole rest is waited for, and the scheduler knows of it.
Worthwhile(r, wait) ==
  \E a \in Resting(request[r].attempt) \ (swapped \cap Late) :
    Until(a) <= wait /\ state[a].next <= wait

RoundOver(r) ==
  /\ request[r].at = "roundOver"
  /\ \/ \E wait \in Waits(r) :
          request' = [request EXCEPT ![r].at = "waiting", ![r].wait = wait,
                                     ![r].sure = Worthwhile(r, wait)]
     \/ Waits(r) = {} /\ request' = [request EXCEPT ![r] = Ended("done")]
  /\ UNCHANGED Shared

\* Mutant: the attempts are not counted.
WakeUncounted(r) ==
  /\ request[r].at = "waiting" /\ request[r].wait = 0
  /\ request' = [request EXCEPT ![r].at = "pick", ![r].tried = {}, ![r].err = "none"]
  /\ UNCHANGED Shared

Wake(r) ==
  /\ request[r].at = "waiting" /\ request[r].wait = 0
  /\ request' = [request EXCEPT ![r].at = "pick", ![r].attempt = @ + 1, ![r].tried = {},
                             ![r].err = "none"]
  /\ UNCHANGED Shared

(***************************************************************************)
(* The environment: clients go away, bindings expire, time passes.         *)
(***************************************************************************)
\* A client that is gone ends the request; what it had asked is not recorded.
Cancel(r) ==
  /\ request[r].at \in {"asking", "streaming", "waiting"}
  /\ request' = [request EXCEPT ![r] = Ended("gone")]
  /\ UNCHANGED Shared

Expire ==
  /\ pin # None
  /\ pin' = None
  /\ UNCHANGED <<set, state, off, swapped, request, due>>

Less(n) == IF n = 0 THEN 0 ELSE n - 1

CountDown ==
  /\ \/ \E a \in Auths : state[a].next > 0 \/ state[a].recover > 0
     \/ \E r \in Requests : request[r].at = "waiting" /\ request[r].wait > 0
  /\ state' = [a \in Auths |-> [state[a] EXCEPT !.next = Less(@), !.recover = Less(@)]]
  /\ request' = [r \in Requests |-> [request[r] EXCEPT !.wait = Less(@)]]
  /\ UNCHANGED <<set, off, swapped, pin, due>>

\* What the request, its goroutine and its provider do.
Go(r) == \/ LimitReached(r) \/ Pick(r) \/ Miss(r) \/ Bind(r) \/ Answer(r) \/ StreamStarts(r)
         \/ StreamFails(r) \/ StreamCloses(r) \/ PushResult(r) \/ RoundOver(r) \/ Wake(r)

Work == (\E r \in Requests : Go(r)) \/ CountDown

RequestsNext == \/ Work
                \/ \E r \in Requests : Cancel(r)
                \/ Expire

\* Every provider answers or fails, every stream ends, and time passes: as long
\* as there is work, some of it is done.
RequestsSpec == RequestsInit /\ [][RequestsNext]_requestVars /\ WF_requestVars(Work)

(***************************************************************************)
(* Properties.                                                             *)
(***************************************************************************)
\* Every ask of a credential is recorded exactly once, as a success or a failure:
\* a stream that failed is not recorded as a success at its end.  Only a client
\* that went away leaves an ask without a result.
RecordedOnce ==
  \A r \in Requests :
    due[r] \in (CASE request[r].at = "asking"     -> {1}
                  [] request[r].at = "streaming"  -> {IF request[r].failed THEN 0 ELSE 1}
                  [] request[r].at = "gone"       -> {0, 1}
                  [] OTHER                        -> {0})

\* A request that has waited for the whole rest of a credential asks somebody in
\* its next round, if no result came in meanwhile: neither the session's
\* binding nor an old snapshot in the scheduler hides the one that is back.
WaitIsWorthIt ==
  \A r \in Requests : request[r].at = "roundOver" /\ request[r].sure => request[r].tried # {}

\* Every request ends.
RequestsEnd == <>(\A r \in Requests : request[r].at \in {"done", "gone"})
=============================================================================
