--------------------------- MODULE MCAuthScheduler ---------------------------
(* Model checking of AuthScheduler: two providers, of which the first prefers *)
(* websockets, and the snapshots that tell its paths apart.                   *)
EXTENDS AuthScheduler

CONSTANTS m1, gemini, codex

MCProviders == <<codex, gemini>>
MCWsProviders == {codex}

Plain == [provider |-> codex, disabled |-> FALSE, priority |-> 0, ws |-> FALSE,
          supported |-> {m1}, off |-> FALSE, quota |-> FALSE, until |-> 0, recover |-> 0]

\* The first credential goes through everything, the others come and go.
MCSnapshots ==
  << {Plain,
      [Plain EXCEPT !.ws = TRUE],
      [Plain EXCEPT !.priority = 1],
      [Plain EXCEPT !.until = 1],
      [Plain EXCEPT !.until = 1, !.recover = 2, !.quota = TRUE],
      [Plain EXCEPT !.provider = gemini],
      [Plain EXCEPT !.supported = {}],
      [Plain EXCEPT !.disabled = TRUE]},
     {Plain, [Plain EXCEPT !.until = 2]},
     {Plain,
      [Plain EXCEPT !.provider = gemini],
      [Plain EXCEPT !.provider = gemini, !.priority = 1],
      [Plain EXCEPT !.disabled = TRUE]} >>
=============================================================================
