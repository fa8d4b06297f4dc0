------------------------ MODULE WatcherDispatchProofs ------------------------
(***************************************************************************)
(* Proofs about WatcherDispatch: for all credentials, reloads, changes of  *)
(* the configuration and sizes of the service's queue, updates keep their  *)
(* order, and at rest the service has what the watcher has, and the        *)
(* watcher what the files, the configuration and the providers say.        *)
(***************************************************************************)
EXTENDS WatcherDispatch, FiniteSetTheorems, TLAPS

(***************************************************************************)
(* Sequences.                                                              *)
(***************************************************************************)
LEMMA Taken ==
  ASSUME NEW S, NEW s \in Seq(S), s # <<>>
  PROVE  /\ Head(s) \in S /\ Head(s) \in Range(s) /\ Tail(s) \in Seq(S)
         /\ DOMAIN Tail(s) = 1 .. Len(s) - 1
         /\ \A k \in 1 .. Len(s) - 1 : Tail(s)[k] = s[k + 1]
         /\ \A e \in Range(s) : e = Head(s) \/ e \in Range(Tail(s))
         /\ \A e \in Range(Tail(s)) : e \in Range(s)
<1>1. Len(s) \in Nat /\ Len(s) > 0 /\ DOMAIN s = 1 .. Len(s) /\ Head(s) = s[1] /\ Tail(s) \in Seq(S)
  OBVIOUS
<1>2. DOMAIN Tail(s) = 1 .. Len(s) - 1
  BY <1>1
<1>3. \A k \in 1 .. Len(s) - 1 : Tail(s)[k] = s[k + 1]
  OBVIOUS
<1>4. ASSUME NEW k \in DOMAIN s, k # 1 PROVE s[k] = Tail(s)[k - 1] /\ k - 1 \in DOMAIN Tail(s)
  BY <1>1, <1>2, <1>3, <1>4
<1>5. Head(s) \in S /\ Head(s) \in Range(s)
  BY <1>1 DEF Range
<1>6. \A e \in Range(s) : e = Head(s) \/ e \in Range(Tail(s))
  BY <1>1, <1>4 DEF Range
<1>7. \A e \in Range(Tail(s)) : e \in Range(s)
  BY <1>1, <1>2, <1>3 DEF Range
<1>8. QED
  BY <1>1, <1>2, <1>3, <1>5, <1>6, <1>7

LEMMA Added ==
  ASSUME NEW S, NEW s \in Seq(S), NEW e \in S
  PROVE  /\ Append(s, e) \in Seq(S) /\ DOMAIN Append(s, e) = 1 .. Len(s) + 1
         /\ \A k \in 1 .. Len(s) : Append(s, e)[k] = s[k]
         /\ Append(s, e)[Len(s) + 1] = e
         /\ Range(Append(s, e)) = Range(s) \cup {e}
<1>1. /\ Append(s, e) \in Seq(S) /\ Len(s) \in Nat /\ Len(Append(s, e)) = Len(s) + 1
      /\ DOMAIN s = 1 .. Len(s)
      /\ \A k \in 1 .. Len(s) : Append(s, e)[k] = s[k]
      /\ Append(s, e)[Len(s) + 1] = e
  OBVIOUS
<1>2. DOMAIN Append(s, e) = 1 .. Len(s) + 1
  BY <1>1
<1>3. QED
  BY <1>1, <1>2 DEF Range

LEMMA Element ==
  ASSUME NEW S, NEW s \in Seq(S)
  PROVE  (\A k \in DOMAIN s : s[k] \in S) /\ (\A e \in Range(s) : e \in S)
         /\ DOMAIN s = 1 .. Len(s) /\ Len(s) \in Nat
BY DEF Range

(***************************************************************************)
(* Type correctness.                                                       *)
(***************************************************************************)
Event == [file : Files, removal : BOOLEAN]
Change == [id : Ids, to : Value]
Entry == [id : Ids, to : Value, n : Nat]
FileSteps == {"check", "read", "apply", "remove"}
Places(p) ==
  IF p = Events THEN FileSteps \cup {"idle", "dispatch"}
  ELSE IF p = Start THEN {"rescan", "snapshot", "prepare", "dispatch", "done"}
  ELSE IF p \in Reloads THEN {"begin", "filter", "snapshot", "prepare", "dispatch", "done"}
  ELSE {"begin", "dispatch", "done"}
Steps == FileSteps \cup {"idle", "rescan", "begin", "filter", "snapshot", "prepare", "dispatch", "done"}
Local ==
  [at : Steps, file : Files \cup {None}, content : Value, snap : [Ids -> Value],
   force : BOOLEAN, filter : SUBSET Ids, over : SUBSET Ids, updates : SUBSET Change]

\* At most one update of each credential.
OneEach(updates) == \A u, v \in updates : u.id = v.id => u = v

\* A goroutine is where its code can be, holds updates only when it is to hand
\* them over, and the event loop has a file only while it works on it.
Right(p, s) ==
  /\ s \in Local /\ s.at \in Places(p)
  /\ s.updates # {} <=> s.at = "dispatch"
  /\ OneEach(s.updates)
  /\ p = Events => (s.file # None <=> s.at \in FileSteps)

Typed ==
  /\ disk \in [Files -> Value] /\ keys \in [Keys -> Value] /\ runtime \in [Runtimes -> Value]
  /\ events \in Seq(Event)
  /\ known \in [Files -> Value] /\ raced \subseteq Ids
  /\ current \in [Ids -> Value]
  /\ proc \in [Procs -> Local] /\ \A p \in Procs : Right(p, proc[p])
  /\ pending \in Seq(Entry) /\ batch \in Seq(Entry) /\ queue \in Seq(Entry)
  /\ got \in [Ids -> [n : Nat, to : Value]] /\ told \in [Ids -> Nat]

LEMMA Assumed ==
  /\ IsFiniteSet(Ids) /\ Files \subseteq Ids /\ Keys \subseteq Ids /\ Runtimes \subseteq Ids
  /\ Files \cap Keys = {} /\ Files \cap Runtimes = {} /\ Keys \cap Runtimes = {}
  /\ Start # Events /\ Reloads \cap Calls = {}
  /\ Events \notin Reloads \cup Calls /\ Start \notin Reloads \cup Calls
  /\ None \notin Files /\ None \in Value
  /\ Events \in Procs /\ Start \in Procs /\ Reloads \subseteq Procs /\ Calls \subseteq Procs
BY WatcherAssumption DEF Ids, Procs, Value

LEMMA RestIsRight ==
  ASSUME NEW p \in Procs, NEW at \in Places(p), at \notin FileSteps, at # "dispatch"
  PROVE  Right(p, Rest(at))
BY Assumed DEF Right, Rest, Local, Places, Steps, FileSteps, OneEach, NoCredential

LEMMA AsleepIsRight ==
  ASSUME NEW p \in Procs
  PROVE  Right(p, Asleep(p)) /\ Asleep(p).updates = {}
         /\ Asleep(p).at = IF p = Events THEN "idle" ELSE "done"
<1>1. CASE p = Events
  BY <1>1, RestIsRight DEF Asleep, Places, FileSteps, Rest
<1>2. CASE p # Events
  BY <1>2, RestIsRight DEF Asleep, Places, FileSteps, Rest
<1>3. QED
  BY <1>1, <1>2

\* One goroutine moves.
LEMMA OneMoves ==
  ASSUME Typed, NEW p \in Procs, NEW s, Right(p, s), proc' = [proc EXCEPT ![p] = s]
  PROVE  /\ proc' \in [Procs -> Local] /\ \A q \in Procs : Right(q, proc'[q])
         /\ proc'[p] = s /\ \A q \in Procs \ {p} : proc'[q] = proc[q]
BY DEF Typed, Right

\* It leaves clientsMutex with its updates.
LEMMA Leaves ==
  ASSUME Typed, NEW p \in Procs, NEW updates \in SUBSET Change, OneEach(updates),
         Leave(p, updates)
  PROVE  /\ proc' \in [Procs -> Local] /\ \A q \in Procs : Right(q, proc'[q])
         /\ proc'[p].updates = updates
         /\ proc'[p].at = IF updates # {} THEN "dispatch" ELSE Asleep(p).at
         /\ proc'[p].file = None
         /\ \A q \in Procs \ {p} : proc'[q] = proc[q]
<1> DEFINE s == IF updates = {} THEN Asleep(p) ELSE [Rest("dispatch") EXCEPT !.updates = updates]
<1>1. proc' = [proc EXCEPT ![p] = s]
  BY DEF Leave
<1>2. Right(p, s) /\ s.updates = updates /\ s.at = (IF updates # {} THEN "dispatch" ELSE Asleep(p).at)
      /\ s.file = None
  <2>1. CASE updates = {}
    BY <2>1, AsleepIsRight DEF Asleep, Rest
  <2>2. CASE updates # {}
    BY <2>2, Assumed DEF Right, Rest, Local, Places, Steps, FileSteps, NoCredential
  <2>3. QED
    BY <2>1, <2>2
<1> HIDE DEF s
<1>3. QED
  BY <1>1, <1>2, OneMoves

LEMMA InitTyped == Init => Typed
<1> SUFFICES ASSUME Init PROVE Typed
  OBVIOUS
<1>1. proc \in [Procs -> Local] /\ \A p \in Procs : Right(p, proc[p])
  <2> DEFINE at(p) == CASE p = Events -> "idle" [] p = Start -> "rescan" [] OTHER -> "begin"
  <2>1. proc = [p \in Procs |-> Rest(at(p))]
    BY DEF Init
  <2>2. \A p \in Procs : at(p) \in Places(p) /\ at(p) \notin FileSteps /\ at(p) # "dispatch"
    BY Assumed DEF Places, FileSteps, Procs
  <2> HIDE DEF at
  <2>3. QED
    BY <2>1, <2>2, RestIsRight DEF Right
<1>2. keys \in [Keys -> Value]
  BY WatcherAssumption DEF Init, Value
<1>3. got \in [Ids -> [n : Nat, to : Value]] /\ told \in [Ids -> Nat]
  BY Assumed DEF Init
<1>4. QED
  BY <1>1, <1>2, <1>3, Assumed DEF Init, Typed, NoCredential

LEMMA PutChange ==
  ASSUME NEW f \in Files, NEW c \in Value
  PROVE  /\ Put(f, c) \in SUBSET Change /\ OneEach(Put(f, c))
         /\ {Update(f, c)} \in SUBSET Change /\ OneEach({Update(f, c)})
BY Assumed DEF Put, Update, Change, OneEach

LEMMA DiffChange ==
  ASSUME NEW new \in [Ids -> Value], NEW force \in BOOLEAN
  PROVE  /\ Diff(new, force) \in SUBSET Change /\ OneEach(Diff(new, force))
         /\ \A u \in Diff(new, force) : u.to = new[u.id]
         /\ \A i \in Ids : i \in About(Diff(new, force)) \/ new[i] = current[i]
<1>1. \A u \in Diff(new, force) : \E i \in Ids : u = [id |-> i, to |-> new[i]]
  BY DEF Diff, Update
<1>2. \A i \in Ids : new[i] # current[i] => Update(i, new[i]) \in Diff(new, force)
  BY DEF Diff
<1>3. Diff(new, force) \in SUBSET Change
  BY <1>1 DEF Change
<1>4. \A u \in Diff(new, force) : u.to = new[u.id]
  BY <1>1
<1>5. OneEach(Diff(new, force))
  <2> SUFFICES ASSUME NEW u \in Diff(new, force), NEW v \in Diff(new, force), u.id = v.id
               PROVE  u = v
    BY DEF OneEach
  <2>1. PICK i \in Ids : u = [id |-> i, to |-> new[i]]
    BY <1>1
  <2>2. PICK j \in Ids : v = [id |-> j, to |-> new[j]]
    BY <1>1
  <2>3. QED
    BY <2>1, <2>2
<1>6. \A i \in Ids : i \in About(Diff(new, force)) \/ new[i] = current[i]
  <2>1. \A i \in Ids : Update(i, new[i]).id = i
    BY DEF Update
  <2>2. QED
    BY <1>2, <2>1 DEF About
<1>7. QED
  BY <1>3, <1>4, <1>5, <1>6

\* The goroutines that work on files and the configuration.
LEMMA FileEventTyped ==
  ASSUME Typed, FileEvent
  PROVE  Typed'
<1> USE DEF Typed
<1>1. proc[Events] \in Local /\ Right(Events, proc[Events]) /\ None \in Value
  BY Assumed
<1>2. proc[Events].at \in FileSteps => File \in Files
  BY <1>1 DEF Right, Local, File
<1>3. ASSUME NEW at \in FileSteps, NEW c \in Value, proc[Events].at \in FileSteps,
             proc' = [proc EXCEPT ![Events] = [proc[Events] EXCEPT !.at = at, !.content = c]]
      PROVE  proc' \in [Procs -> Local] /\ \A q \in Procs : Right(q, proc'[q])
  <2> DEFINE s == [proc[Events] EXCEPT !.at = at, !.content = c]
  <2>1. Right(Events, s)
    BY <1>1, <1>3 DEF Right, Local, Places, Steps, FileSteps, OneEach
  <2>2. proc' = [proc EXCEPT ![Events] = s]
    BY <1>3
  <2> HIDE DEF s
  <2>3. QED
    BY <2>1, <2>2, OneMoves, Assumed
<1>4. ASSUME Drop(Events)
      PROVE  proc' \in [Procs -> Local] /\ \A q \in Procs : Right(q, proc'[q])
  BY <1>4, OneMoves, AsleepIsRight, Assumed DEF Drop
<1>5. CASE HandleEvent
  <2> DEFINE f == Head(events).file
  <2>1. events # <<>> /\ proc[Events].at = "idle" /\ events' = Tail(events)
    BY <1>5 DEF HandleEvent
  <2>2. Head(events) \in Event /\ f \in Files /\ events' \in Seq(Event)
    <3>1. Head(events) \in Event /\ events' \in Seq(Event)
      BY <2>1, Taken
    <3>2. QED
      BY <3>1 DEF Event
  <2>3. ASSUME NEW at \in FileSteps, Work(f, at)
        PROVE  proc' \in [Procs -> Local] /\ \A q \in Procs : Right(q, proc'[q])
    <3> DEFINE s == [proc[Events] EXCEPT !.at = at, !.file = f]
    <3>1. Right(Events, s)
      BY <1>1, <2>1, <2>2, Assumed DEF Right, Local, Places, Steps, FileSteps, OneEach
    <3>2. proc' = [proc EXCEPT ![Events] = s]
      BY <2>3, Assumed DEF Work
    <3> HIDE DEF s
    <3>3. QED
      BY <3>1, <3>2, OneMoves, Assumed
  <2>4. UNCHANGED proc \/ \E at \in FileSteps : Work(f, at)
    <3>1. PICK dropped \in BOOLEAN :
            CASE dropped -> UNCHANGED proc
              [] ~dropped /\ Head(events).removal /\ disk[f] # None -> Work(f, "check")
              [] ~dropped /\ Head(events).removal /\ disk[f] = None ->
                   IF known[f] # None THEN Work(f, "remove") ELSE UNCHANGED proc
              [] ~Head(events).removal -> IF Unchanged(f) THEN UNCHANGED proc ELSE Work(f, "read")
      BY <1>5 DEF HandleEvent
    <3>2. Head(events).removal \in BOOLEAN
      BY <2>2 DEF Event
    <3>3. QED
      BY <3>1, <3>2 DEF FileSteps
  <2>5. proc' \in [Procs -> Local] /\ \A q \in Procs : Right(q, proc'[q])
    BY <2>3, <2>4
  <2>6. raced' \subseteq Ids
    BY <1>5, <2>2, Assumed DEF HandleEvent
  <2>7. QED
    BY <1>5, <2>2, <2>5, <2>6 DEF HandleEvent, sources, delivery
<1>6. CASE Check
  <2>1. Drop(Events) \/ proc' = [proc EXCEPT ![Events] = [proc[Events] EXCEPT !.at = "read", !.content = proc[Events].content]]
    BY <1>1, <1>6, Assumed DEF Check, Goto, Local
  <2>2. proc[Events].content \in Value /\ proc[Events].at \in FileSteps /\ "read" \in FileSteps
    BY <1>1, <1>6 DEF Local, Check, FileSteps
  <2>3. proc' \in [Procs -> Local] /\ \A q \in Procs : Right(q, proc'[q])
    BY <1>3, <1>4, <2>1, <2>2
  <2>4. QED
    BY <1>6, <2>3 DEF Check, Locals, sources, delivery
<1>7. CASE Read
  <2>1. proc[Events].at \in FileSteps /\ "apply" \in FileSteps
    BY <1>7 DEF Read, FileSteps
  <2>2. disk[File] \in Value
    BY <1>2, <2>1
  <2>3. Drop(Events) \/ proc' = [proc EXCEPT ![Events] = [proc[Events] EXCEPT !.at = "apply", !.content = disk[File]]]
    BY <1>7, Assumed DEF Read
  <2>4. proc' \in [Procs -> Local] /\ \A q \in Procs : Right(q, proc'[q])
    BY <1>3, <1>4, <2>1, <2>2, <2>3
  <2>5. QED
    BY <1>7, <2>4 DEF Read, Locals, sources, delivery
<1>8. CASE Apply
  <2> DEFINE c == proc[Events].content
  <2>1. File \in Files /\ c \in Value
    BY <1>1, <1>2, <1>8 DEF Apply, Local, FileSteps
  <2>2. CASE known[File] = c
    <3>1. Drop(Events) /\ UNCHANGED <<known, current, raced>>
      BY <1>8, <2>2 DEF Apply
    <3>2. QED
      BY <1>4, <1>8, <3>1 DEF Apply, sources, delivery
  <2>3. CASE known[File] # c
    <3>1. /\ known' = [known EXCEPT ![File] = c] /\ current' = [current EXCEPT ![File] = c]
          /\ raced' = raced \ {File} /\ Leave(Events, Put(File, c))
      BY <1>8, <2>3 DEF Apply
    <3>2. proc' \in [Procs -> Local] /\ \A q \in Procs : Right(q, proc'[q])
      BY <2>1, <3>1, PutChange, Leaves, Assumed
    <3>3. known' \in [Files -> Value] /\ current' \in [Ids -> Value]
      BY <2>1, <3>1
    <3>4. QED
      BY <1>8, <3>1, <3>2, <3>3 DEF Apply, sources, delivery
  <2>4. QED
    BY <2>2, <2>3
<1>9. CASE RemoveClient
  <2>1. File \in Files
    BY <1>2, <1>9 DEF RemoveClient, FileSteps
  <2> DEFINE U == IF known[File] = None THEN {} ELSE {Update(File, None)}
  <2>2. U \in SUBSET Change /\ OneEach(U)
    BY <2>1, PutChange, Assumed DEF OneEach
  <2>3. proc' \in [Procs -> Local] /\ \A q \in Procs : Right(q, proc'[q])
    BY <1>9, <2>2, Leaves, Assumed DEF RemoveClient
  <2>4. known' \in [Files -> Value] /\ current' \in [Ids -> Value] /\ raced' \subseteq Ids
    BY <1>9, <2>1, Assumed DEF RemoveClient
  <2>5. QED
    BY <1>9, <2>3, <2>4 DEF RemoveClient, sources, delivery
<1>10. QED
  BY <1>5, <1>6, <1>7, <1>8, <1>9 DEF FileEvent

LEMMA ReloadTyped ==
  ASSUME Typed, NEW r \in Reloads \cup {Start}, Reload(r)
  PROVE  Typed'
<1> USE DEF Typed
<1>1. r \in Procs /\ r # Events /\ proc[r] \in Local /\ Right(r, proc[r]) /\ None \in Value
  BY Assumed
<1>2. CASE Filter(r)
  <2> DEFINE s == [proc[r] EXCEPT !.at = "snapshot", !.filter = {}]
  <2>1. Right(r, s)
    BY <1>1, <1>2, Assumed DEF Filter, Right, Local, Places, Steps, FileSteps
  <2>2. proc' = [proc EXCEPT ![r] = s]
    BY <1>1, <1>2 DEF Filter
  <2> HIDE DEF s
  <2>3. proc' \in [Procs -> Local] /\ \A q \in Procs : Right(q, proc'[q])
    BY <1>1, <2>1, <2>2, OneMoves
  <2>4. current' \in [Ids -> Value]
    BY <1>1, <1>2 DEF Filter
  <2>5. QED
    BY <1>2, <2>3, <2>4 DEF Filter, sources, delivery
<1>3. CASE Rescan(r)
  <2> DEFINE s == [proc[r] EXCEPT !.at = "snapshot"]
  <2>1. Right(r, s)
    BY <1>1, <1>3, Assumed DEF Rescan, Right, Local, Places, Steps, FileSteps
  <2>2. proc' = [proc EXCEPT ![r] = s]
    BY <1>1, <1>3 DEF Rescan, Goto
  <2> HIDE DEF s
  <2>3. proc' \in [Procs -> Local] /\ \A q \in Procs : Right(q, proc'[q])
    BY <1>1, <2>1, <2>2, OneMoves
  <2>4. QED
    BY <1>3, <2>3 DEF Rescan, sources, delivery
<1>4. CASE Snapshot(r)
  <2> DEFINE snap == [i \in Ids |-> CASE i \in Files -> disk[i] [] i \in Keys -> keys[i] [] OTHER -> None]
             s == [proc[r] EXCEPT !.at = "prepare", !.over = Outstanding, !.snap = snap]
  <2>1. snap \in [Ids -> Value]
    BY <1>1, Assumed
  <2>2. Outstanding \in SUBSET Ids
    <3>1. \A e \in Range(events) : e.file \in Files
      <4>1. \A e \in Range(events) : e \in Event
        BY Element
      <4>2. QED
        BY <4>1 DEF Event
    <3>2. {File} \ {None} \subseteq Files
      BY <1>1, Assumed DEF File, Local
    <3>3. QED
      BY <3>1, <3>2, Assumed DEF Outstanding
  <2> HIDE DEF snap
  <2>3. Right(r, s)
    BY <1>1, <1>4, <2>1, <2>2, Assumed DEF Snapshot, Right, Local, Places, Steps, FileSteps
  <2>4. proc' = [proc EXCEPT ![r] = s]
    BY <1>1, <1>4 DEF Snapshot, snap
  <2> HIDE DEF s
  <2>5. proc' \in [Procs -> Local] /\ \A q \in Procs : Right(q, proc'[q])
    BY <1>1, <2>3, <2>4, OneMoves
  <2>6. QED
    BY <1>4, <2>5 DEF Snapshot, Locals, sources, delivery
<1>5. CASE Prepare(r)
  <2> DEFINE new == [i \in Ids |-> IF i \in Runtimes THEN runtime[i] ELSE proc[r].snap[i]]
  <2>1. new \in [Ids -> Value] /\ proc[r].force \in BOOLEAN
    BY <1>1, Assumed DEF Local
  <2>2. current' = new /\ Leave(r, Diff(new, proc[r].force))
    BY <1>5 DEF Prepare
  <2> HIDE DEF new
  <2>3. proc' \in [Procs -> Local] /\ \A q \in Procs : Right(q, proc'[q])
    BY <1>1, <2>1, <2>2, DiffChange, Leaves
  <2>4. raced' \subseteq Ids
    BY <1>1, <1>5, Assumed DEF Prepare, Excused, Local
  <2>5. QED
    BY <1>5, <2>1, <2>2, <2>3, <2>4 DEF Prepare, sources, delivery
<1>6. QED
  BY <1>2, <1>3, <1>4, <1>5 DEF Reload

\* What was changed while a snapshot is on its way is noted with it.
LEMMA Noted ==
  ASSUME NEW p \in Procs, NEW s, Right(p, s), NEW X \in SUBSET Ids
  PROVE  Right(p, [s EXCEPT !.over = @ \cup X])
<1> DEFINE t == [s EXCEPT !.over = @ \cup X]
<1>1. s \in Local /\ s.over \in SUBSET Ids
  BY DEF Right, Local
<1>2. t \in Local
  BY <1>1 DEF Local
<1>3. t.at = s.at /\ t.updates = s.updates /\ t.file = s.file
  BY <1>1 DEF Local
<1>4. Right(p, t)
  <2> HIDE DEF t
  <2>1. QED
    BY <1>2, <1>3 DEF Right
<1>5. QED
  BY <1>4

LEMMA InputTyped ==
  ASSUME Typed, (\E f \in Files : Edit(f)) \/ (\E r \in Reloads : Begin(r))
                \/ (\E p \in Calls : RuntimeUpdate(p))
  PROVE  Typed'
<1> USE DEF Typed
<1>1. ASSUME NEW f \in Files, Edit(f) PROVE Typed'
  <2>1. PICK c \in Value :
          /\ disk' = [disk EXCEPT ![f] = c]
          /\ events' = Append(events, [file |-> f, removal |-> c = None])
    BY <1>1 DEF Edit
  <2>2. \A p \in Procs : Right(p, [proc[p] EXCEPT !.over = @ \cup {f}])
    BY Noted, Assumed
  <2>3. proc' = [p \in Procs |-> IF proc[p].at = "prepare" THEN [proc[p] EXCEPT !.over = @ \cup {f}]
                                 ELSE proc[p]]
    BY <1>1 DEF Edit
  <2>4. proc' \in [Procs -> Local] /\ \A q \in Procs : Right(q, proc'[q])
    BY <2>2, <2>3 DEF Right
  <2>5. QED
    <3>1. disk' \in [Files -> Value]
      BY <2>1
    <3>2. [file |-> f, removal |-> c = None] \in Event
      BY DEF Event
    <3>3. events' \in Seq(Event)
      BY <2>1, <3>2, Added
    <3>4. QED
      BY <1>1, <2>4, <3>1, <3>3 DEF Edit, delivery
<1>2. ASSUME NEW r \in Reloads, Begin(r) PROVE Typed'
  <2>1. PICK c \in Changes :
          /\ keys' = c.keys
          /\ proc' = [p \in Procs |->
                 CASE p = r -> [proc[r] EXCEPT !.at = IF c.filter = {} THEN "snapshot" ELSE "filter",
                                               !.filter = c.filter, !.force = c.force]
                   [] p # r /\ proc[p].at = "prepare" -> [proc[p] EXCEPT !.over = @ \cup Keys]
                   [] OTHER -> proc[p]]
    BY <1>2 DEF Begin
  <2>2. c.keys \in [Keys -> Value] /\ c.filter \in SUBSET Ids /\ c.force \in BOOLEAN
    BY WatcherAssumption DEF Value
  <2>3. ASSUME NEW p \in Procs, p # r
        PROVE  proc'[p] \in Local /\ Right(p, proc'[p])
    <3>1. Right(p, [proc[p] EXCEPT !.over = @ \cup Keys])
      BY Noted, Assumed
    <3>2. proc'[p] = [proc[p] EXCEPT !.over = @ \cup Keys] \/ proc'[p] = proc[p]
      BY <2>1, <2>3
    <3>3. QED
      BY <3>1, <3>2 DEF Right
  <2>4. Right(r, proc'[r])
    <3> DEFINE at == IF c.filter = {} THEN "snapshot" ELSE "filter"
    <3>1. proc'[r] = [proc[r] EXCEPT !.at = at, !.filter = c.filter, !.force = c.force]
      BY <2>1, Assumed
    <3>2. proc[r].updates = {} /\ r # Events
      BY <1>2, Assumed DEF Begin, Right
    <3>3. QED
      BY <2>2, <3>1, <3>2, Assumed DEF Right, Local, Places, Steps, FileSteps
  <2>5. proc' \in [Procs -> Local] /\ \A q \in Procs : Right(q, proc'[q])
    BY <2>1, <2>3, <2>4 DEF Right
  <2>6. QED
    BY <1>2, <2>1, <2>2, <2>5 DEF Begin, delivery
<1>3. ASSUME NEW p \in Calls, RuntimeUpdate(p) PROVE Typed'
  <2>1. PICK w \in Runtimes, c \in Value :
          /\ runtime' = [runtime EXCEPT ![w] = c] /\ current' = [current EXCEPT ![w] = c]
          /\ Leave(p, {Update(w, c)})
    BY <1>3 DEF RuntimeUpdate
  <2>2. {Update(w, c)} \in SUBSET Change /\ OneEach({Update(w, c)})
    BY Assumed DEF Update, Change, OneEach
  <2>3. proc' \in [Procs -> Local] /\ \A q \in Procs : Right(q, proc'[q])
    BY <2>1, <2>2, Leaves, Assumed
  <2>4. QED
    BY <1>3, <2>1, <2>3, Assumed DEF RuntimeUpdate, delivery
<1>4. QED
  BY <1>1, <1>2, <1>3

(***************************************************************************)
(* The dispatcher's queues.                                                *)
(***************************************************************************)
LEMMA Joined ==
  ASSUME NEW S, NEW s \in Seq(S), NEW t \in Seq(S)
  PROVE  /\ s \o t \in Seq(S) /\ DOMAIN (s \o t) = 1 .. Len(s) + Len(t)
         /\ \A k \in 1 .. Len(s) : (s \o t)[k] = s[k]
         /\ \A k \in Len(s) + 1 .. Len(s) + Len(t) : (s \o t)[k] = t[k - Len(s)]
         /\ Range(s \o t) = Range(s) \cup Range(t)
<1>1. /\ s \o t \in Seq(S) /\ Len(s) \in Nat /\ Len(t) \in Nat
      /\ DOMAIN s = 1 .. Len(s) /\ DOMAIN t = 1 .. Len(t)
      /\ DOMAIN (s \o t) = 1 .. Len(s) + Len(t)
      /\ \A k \in 1 .. Len(s) : (s \o t)[k] = s[k]
  OBVIOUS
<1>2. \A k \in Len(s) + 1 .. Len(s) + Len(t) : (s \o t)[k] = t[k - Len(s)]
  OBVIOUS
<1>3. \A k \in 1 .. Len(t) : t[k] = (s \o t)[k + Len(s)] /\ k + Len(s) \in DOMAIN (s \o t)
  BY <1>1, <1>2
<1>4. ASSUME NEW e \in Range(s \o t) PROVE e \in Range(s) \cup Range(t)
  <2>1. PICK k \in 1 .. Len(s) + Len(t) : e = (s \o t)[k]
    BY <1>1 DEF Range
  <2>2. CASE k <= Len(s)
    BY <1>1, <2>1, <2>2 DEF Range
  <2>3. CASE k > Len(s)
    <3>1. e = t[k - Len(s)] /\ k - Len(s) \in DOMAIN t
      BY <1>1, <1>2, <2>1, <2>3
    <3>2. QED
      BY <3>1 DEF Range
  <2>4. QED
    BY <1>1, <2>1, <2>2, <2>3
<1>5. \A e \in Range(s) : e \in Range(s \o t)
  BY <1>1 DEF Range
<1>6. \A e \in Range(t) : e \in Range(s \o t)
  BY <1>1, <1>3 DEF Range
<1>7. QED
  BY <1>1, <1>2, <1>4, <1>5, <1>6

\* An order of a finite set has each of its elements once.
LEMMA Ordered ==
  ASSUME NEW S, IsFiniteSet(S), NEW order \in SetToSeqs(S)
  PROVE  /\ order \in Seq(S) /\ Range(order) = S
         /\ \A j, k \in DOMAIN order : order[j] = order[k] => j = k
<1>1. Cardinality(S) \in Nat
  BY FS_CardinalityType
<1>2. order \in [1 .. Cardinality(S) -> S] /\ \A i, j \in 1 .. Cardinality(S) : i # j => order[i] # order[j]
  BY DEF SetToSeqs
<1>3. order \in Seq(S)
  BY <1>1, <1>2
<1>4. order \in Injection(1 .. Cardinality(S), S)
  BY <1>2 DEF Injection, IsInjective
<1>5. Cardinality(1 .. Cardinality(S)) = Cardinality(S)
  BY <1>1, FS_Interval
<1>6. order \in Surjection(1 .. Cardinality(S), S)
  BY <1>4, <1>5, FS_Injection
<1>7. Range(order) = S
  BY <1>2, <1>6 DEF Surjection, Range
<1>8. QED
  BY <1>2, <1>3, <1>7

\* No credential twice.
Distinct(s) == \A j, k \in DOMAIN s : s[j].id = s[k].id => j = k

\* The entry that an update becomes when it is handed over.
Fresh(u) == [id |-> u.id, to |-> u.to, n |-> told[u.id] + 1]

\* What handing over does to pendingOrder: the credentials it is about have
\* the new entry and no other, the others what they had.
LEMMA Queued ==
  ASSUME Typed, NEW p \in Procs, NEW updates, updates = proc[p].updates, Dispatch(p)
  PROVE  /\ pending' \in Seq(Entry)
         /\ updates \in SUBSET Change /\ OneEach(updates) /\ updates # {} /\ About(updates) \subseteq Ids
         /\ \A e \in Range(pending') :
              \/ e \in Range(pending) /\ e.id \notin About(updates)
              \/ \E u \in updates : e = Fresh(u)
         /\ \A e \in Range(pending) : e.id \notin About(updates) => e \in Range(pending')
         /\ \A u \in updates : Fresh(u) \in Range(pending')
         /\ Distinct(pending) => Distinct(pending')
<1> DEFINE new == Numbered(proc[p].updates)
           Newest(e) == IF e.id \in About(new) THEN CHOOSE v \in new : v.id = e.id ELSE e
           added == {u \in new : \A k \in DOMAIN pending : pending[k].id # u.id}
           kept == [k \in DOMAIN pending |-> Newest(pending[k])]
<1>1. updates \in SUBSET Change /\ OneEach(updates) /\ updates # {} /\ About(updates) \subseteq Ids
  BY DEF Dispatch, Typed, Right, Local, About, Change
<1>2. new = {Fresh(u) : u \in updates}
  BY DEF Numbered, Fresh
<1>3. PICK order \in SetToSeqs(added) : pending' = kept \o order
  BY DEF Dispatch
<1>4. \A u \in updates : Fresh(u) \in Entry /\ Fresh(u).id = u.id
  BY <1>1 DEF Fresh, Change, Entry, Typed
<1>5. new \subseteq Entry /\ About(new) = About(updates)
  BY <1>2, <1>4 DEF About
<1>6. \A v, w \in new : v.id = w.id => v = w
  <2> SUFFICES ASSUME NEW v \in new, NEW w \in new, v.id = w.id PROVE v = w
    OBVIOUS
  <2>1. PICK u \in updates : v = Fresh(u)
    BY <1>2
  <2>2. PICK x \in updates : w = Fresh(x)
    BY <1>2
  <2>3. u = x
    BY <1>1, <1>4, <2>1, <2>2 DEF OneEach
  <2>4. QED
    BY <2>1, <2>2, <2>3
<1>7. IsFiniteSet(new)
  <2> HIDE DEF new
  <2> DEFINE f == [v \in new |-> v.id]
  <2>1. f \in Injection(new, Ids)
    BY <1>5, <1>6 DEF Injection, IsInjective, Entry
  <2>2. QED
    BY <2>1, Assumed, FS_Injection
<1>8. IsFiniteSet(added)
  <2> HIDE DEF new
  <2>1. QED
    BY <1>7, FS_Subset
<1>9. /\ order \in Seq(added) /\ Range(order) = added
      /\ \A j, k \in DOMAIN order : order[j] = order[k] => j = k
  <2> HIDE DEF added
  <2>1. QED
    BY <1>3, <1>8, Ordered
<1>10. \A e \in Entry : Newest(e) \in Entry /\ Newest(e).id = e.id
                        /\ (e.id \in About(updates) => Newest(e) \in new)
                        /\ (e.id \notin About(updates) => Newest(e) = e)
  <2> HIDE DEF new
  <2>1. QED
    BY <1>5 DEF About
<1>11. /\ pending \in Seq(Entry) /\ Len(pending) \in Nat /\ DOMAIN pending = 1 .. Len(pending)
       /\ \A k \in DOMAIN pending : pending[k] \in Entry
  BY Element DEF Typed
<1> HIDE DEF Newest
<1>12. kept \in Seq(Entry) /\ Len(kept) = Len(pending) /\ DOMAIN kept = 1 .. Len(pending)
       /\ \A k \in DOMAIN pending : kept[k] = Newest(pending[k])
  BY <1>10, <1>11
<1>13. order \in Seq(Entry) /\ Len(order) \in Nat /\ DOMAIN order = 1 .. Len(order)
       /\ \A k \in DOMAIN order : order[k] \in added
  <2> HIDE DEF new
  <2>1. added \subseteq Entry
    BY <1>5
  <2> HIDE DEF added
  <2>2. QED
    BY <1>9, <2>1, Element
<1> HIDE DEF new, added, kept
<1>14. /\ pending' \in Seq(Entry) /\ DOMAIN pending' = 1 .. Len(pending) + Len(order)
       /\ \A k \in 1 .. Len(pending) : pending'[k] = Newest(pending[k])
       /\ \A k \in Len(pending) + 1 .. Len(pending) + Len(order) : pending'[k] = order[k - Len(pending)]
       /\ Range(pending') = Range(kept) \cup added
  <2>1. /\ kept \o order \in Seq(Entry) /\ DOMAIN (kept \o order) = 1 .. Len(kept) + Len(order)
        /\ \A k \in 1 .. Len(kept) : (kept \o order)[k] = kept[k]
        /\ \A k \in Len(kept) + 1 .. Len(kept) + Len(order) : (kept \o order)[k] = order[k - Len(kept)]
        /\ Range(kept \o order) = Range(kept) \cup Range(order)
    BY <1>12, <1>13, Joined
  <2>2. QED
    BY <1>3, <1>9, <1>11, <1>12, <2>1
<1>15. ASSUME NEW e \in Range(pending')
       PROVE  \/ e \in Range(pending) /\ e.id \notin About(updates)
              \/ \E u \in updates : e = Fresh(u)
  <2>1. CASE e \in added
    BY <1>2, <2>1 DEF added
  <2>2. CASE e \in Range(kept)
    <3>1. PICK k \in DOMAIN pending : e = Newest(pending[k])
      BY <1>11, <1>12, <2>2 DEF Range
    <3>2. CASE pending[k].id \in About(updates)
      BY <1>2, <1>10, <1>11, <3>1, <3>2
    <3>3. CASE pending[k].id \notin About(updates)
      BY <1>10, <1>11, <3>1, <3>3 DEF Range
    <3>4. QED
      BY <3>2, <3>3
  <2>3. QED
    BY <1>14, <2>1, <2>2
<1>16. ASSUME NEW e \in Range(pending), e.id \notin About(updates) PROVE e \in Range(pending')
  <2>1. PICK k \in DOMAIN pending : e = pending[k]
    BY DEF Range
  <2>2. e = kept[k]
    BY <1>10, <1>11, <1>12, <1>16, <2>1
  <2>3. QED
    BY <1>11, <1>12, <1>14, <2>1, <2>2 DEF Range
<1>17. ASSUME NEW u \in updates PROVE Fresh(u) \in Range(pending')
  <2>1. Fresh(u) \in new /\ Fresh(u).id = u.id /\ u.id \in About(updates)
    BY <1>2, <1>4 DEF About
  <2>2. CASE Fresh(u) \in added
    BY <1>14, <2>2
  <2>3. CASE Fresh(u) \notin added
    <3>1. PICK k \in DOMAIN pending : pending[k].id = u.id
      BY <2>1, <2>3 DEF added
    <3>2. kept[k] \in new /\ kept[k].id = u.id
      BY <1>10, <1>11, <1>12, <2>1, <3>1
    <3>3. kept[k] = Fresh(u)
      BY <1>6, <2>1, <3>2
    <3>4. QED
      BY <1>11, <1>12, <1>14, <3>3 DEF Range
  <2>4. QED
    BY <2>2, <2>3
<1>18. ASSUME Distinct(pending) PROVE Distinct(pending')
  <2>1. \A k \in 1 .. Len(pending) : pending'[k].id = pending[k].id
    BY <1>10, <1>11, <1>14
  <2>2. \A k \in DOMAIN pending' : k > Len(pending) =>
          /\ k - Len(pending) \in DOMAIN order /\ pending'[k] = order[k - Len(pending)]
          /\ pending'[k] \in new /\ \A j \in DOMAIN pending : pending[j].id # pending'[k].id
    <3>1. SUFFICES ASSUME NEW k \in DOMAIN pending', k > Len(pending)
                   PROVE  /\ k - Len(pending) \in DOMAIN order /\ pending'[k] = order[k - Len(pending)]
                          /\ pending'[k] \in new /\ \A j \in DOMAIN pending : pending[j].id # pending'[k].id
      OBVIOUS
    <3>2. k - Len(pending) \in DOMAIN order /\ pending'[k] = order[k - Len(pending)]
      BY <1>11, <1>13, <1>14, <3>1
    <3>3. pending'[k] \in added
      BY <1>13, <3>2
    <3>4. QED
      BY <3>2, <3>3 DEF added
  <2>3. ASSUME NEW j \in DOMAIN pending', NEW k \in DOMAIN pending', pending'[j].id = pending'[k].id
        PROVE  j = k
    <3>1. j \in Nat /\ k \in Nat
      BY <1>14
    <3>2. CASE j <= Len(pending) /\ k <= Len(pending)
      BY <1>11, <1>14, <1>18, <2>1, <2>3, <3>1, <3>2 DEF Distinct
    <3>3. CASE j > Len(pending) /\ k > Len(pending)
      <4>1. pending'[j] = pending'[k]
        BY <1>6, <2>2, <2>3, <3>3
      <4>2. j - Len(pending) = k - Len(pending)
        BY <1>9, <2>2, <3>3, <4>1
      <4>3. QED
        BY <1>11, <3>1, <4>2
    <3>4. CASE j <= Len(pending) /\ k > Len(pending)
      <4>1. j \in DOMAIN pending /\ pending[j].id = pending'[j].id
        BY <1>11, <1>14, <2>1, <3>1, <3>4
      <4>2. QED
        BY <2>2, <2>3, <3>4, <4>1
    <3>5. CASE j > Len(pending) /\ k <= Len(pending)
      <4>1. k \in DOMAIN pending /\ pending[k].id = pending'[k].id
        BY <1>11, <1>14, <2>1, <3>1, <3>5
      <4>2. QED
        BY <2>2, <2>3, <3>5, <4>1
    <3>6. QED
      BY <1>11, <3>1, <3>2, <3>3, <3>4, <3>5
  <2>4. QED
    BY <2>3 DEF Distinct
<1>19. QED
  BY <1>1, <1>14, <1>15, <1>16, <1>17, <1>18

LEMMA DispatchTyped ==
  ASSUME Typed, NEW p \in Procs, Dispatch(p)
  PROVE  Typed'
<1>1. pending' \in Seq(Entry)
  BY Queued
<1>2. proc' \in [Procs -> Local] /\ \A q \in Procs : Right(q, proc'[q])
  BY OneMoves, AsleepIsRight DEF Dispatch, Drop
<1>3. told' \in [Ids -> Nat]
  BY DEF Dispatch, Typed
<1>4. QED
  BY <1>1, <1>2, <1>3 DEF Dispatch, Typed, sources

LEMMA DeliverTyped ==
  ASSUME Typed, Deliver
  PROVE  Typed'
<1>1. ASSUME pending' \in Seq(Entry), batch' \in Seq(Entry), queue' \in Seq(Entry),
             got' \in [Ids -> [n : Nat, to : Value]], Loop
      PROVE  Typed'
  BY <1>1 DEF Typed, Loop, sources
<1>2. CASE NextBatch
  BY <1>1, <1>2 DEF NextBatch, Typed
<1>3. CASE Send
  <2>1. Head(batch) \in Entry /\ Tail(batch) \in Seq(Entry)
    BY <1>3, Taken DEF Send, Typed
  <2>2. queue' \in Seq(Entry)
    BY <1>3, <2>1, Added DEF Send, Typed
  <2>3. QED
    BY <1>1, <1>3, <2>1, <2>2 DEF Send, Typed
<1>4. CASE Receive
  <2>1. Head(queue) \in Entry /\ Tail(queue) \in Seq(Entry)
    BY <1>4, Taken DEF Receive, Typed
  <2>2. got' \in [Ids -> [n : Nat, to : Value]]
    BY <1>4, <2>1 DEF Receive, Typed, Entry
  <2>3. QED
    BY <1>1, <1>4, <2>1, <2>2 DEF Receive, Typed
<1>5. QED
  BY <1>2, <1>3, <1>4 DEF Deliver

LEMMA TypedStep == Typed /\ [Next]_vars => Typed'
<1>1. ASSUME Typed, UNCHANGED vars PROVE Typed'
  BY <1>1 DEF Typed, vars
<1>2. QED
  BY <1>1, FileEventTyped, ReloadTyped, InputTyped, DispatchTyped, DeliverTyped DEF Next

(***************************************************************************)
(* Updates of a credential are delivered in order.                         *)
(***************************************************************************)
Line == Range(queue) \cup Range(batch) \cup Range(pending)

\* Along the line from the service's queue over the batch to what is pending,
\* the entries of a credential are ever newer: newer than what the service
\* saw, and up to the newest that was handed over, which is among them unless
\* the service has it.
Delivered ==
  /\ Distinct(pending) /\ Distinct(batch)
  /\ \A j, k \in DOMAIN queue : j < k /\ queue[j].id = queue[k].id => queue[j].n < queue[k].n
  /\ \A e \in Range(queue), f \in Range(batch) \cup Range(pending) : e.id = f.id => e.n < f.n
  /\ \A e \in Range(batch), f \in Range(pending) : e.id = f.id => e.n < f.n
  /\ \A e \in Line : got[e.id].n < e.n /\ e.n <= told[e.id]
  /\ \A i \in Ids : got[i].n = told[i] \/ \E e \in Line : e.id = i /\ e.n = told[i]

LEMMA LineTyped ==
  ASSUME Typed
  PROVE  \A e \in Line : /\ e \in Entry /\ e.id \in Ids /\ e.n \in Nat /\ e.to \in Value
                         /\ got[e.id].n \in Nat /\ told[e.id] \in Nat
<1>1. \A e \in Line : e \in Entry
  BY Element DEF Line, Typed
<1>2. \A e \in Entry : e.id \in Ids /\ e.n \in Nat /\ e.to \in Value
  BY DEF Entry
<1>3. \A i \in Ids : got[i].n \in Nat /\ told[i] \in Nat
  BY DEF Typed
<1>4. QED
  BY <1>1, <1>2, <1>3

LEMMA DispatchDelivers ==
  ASSUME Typed, Delivered, NEW p \in Procs, Dispatch(p)
  PROVE  Delivered'
<1>0. PICK updates : updates = proc[p].updates
  OBVIOUS
<1>1. /\ updates \in SUBSET Change /\ About(updates) \subseteq Ids
      /\ \A e \in Range(pending') : \/ e \in Range(pending) /\ e.id \notin About(updates)
                                    \/ \E u \in updates : e = Fresh(u)
      /\ \A e \in Range(pending) : e.id \notin About(updates) => e \in Range(pending')
      /\ \A u \in updates : Fresh(u) \in Range(pending')
      /\ Distinct(pending')
  BY <1>0, Queued DEF Delivered
<1>2. /\ told' = [i \in Ids |-> IF i \in About(updates) THEN told[i] + 1 ELSE told[i]]
      /\ UNCHANGED <<batch, queue, got>>
  BY <1>0 DEF Dispatch
<1>3. \A i \in Ids : told[i] \in Nat /\ got[i].n \in Nat
  BY DEF Typed
<1>4. \A u \in updates : u.id \in Ids /\ u.id \in About(updates)
                         /\ Fresh(u).id = u.id /\ Fresh(u).n = told[u.id] + 1
  BY <1>1 DEF Fresh, About, Change
<1>5. ASSUME NEW e \in Range(queue) \cup Range(batch), NEW f \in Range(pending'), e.id = f.id
      PROVE  e.n < f.n
  <2>1. e \in Line /\ e.id \in Ids /\ e.n \in Nat /\ e.n <= told[e.id]
    BY LineTyped DEF Line, Delivered
  <2>2. CASE f \in Range(pending)
    BY <1>5, <2>2 DEF Delivered
  <2>3. CASE \E u \in updates : f = Fresh(u)
    BY <1>3, <1>4, <1>5, <2>1, <2>3
  <2>4. QED
    BY <1>1, <2>2, <2>3
<1>6. ASSUME NEW e \in Line' PROVE got'[e.id].n < e.n /\ e.n <= told'[e.id]
  <2>1. CASE e \in Line
    <3>1. e.id \in Ids /\ e.n \in Nat /\ got[e.id].n < e.n /\ e.n <= told[e.id]
      BY <2>1, LineTyped DEF Delivered
    <3>2. QED
      BY <1>2, <1>3, <3>1
  <2>2. CASE \E u \in updates : e = Fresh(u)
    <3>1. PICK u \in updates : e = Fresh(u)
      BY <2>2
    <3>2. got[u.id].n <= told[u.id]
      BY <1>3, <1>4, LineTyped DEF Delivered
    <3>3. QED
      BY <1>2, <1>3, <1>4, <3>1, <3>2
  <2>3. QED
    BY <1>1, <1>2, <2>1, <2>2 DEF Line
<1>7. ASSUME NEW i \in Ids PROVE got'[i].n = told'[i] \/ \E e \in Line' : e.id = i /\ e.n = told'[i]
  <2>1. CASE i \in About(updates)
    <3>1. PICK u \in updates : u.id = i
      BY <2>1 DEF About
    <3>2. Fresh(u) \in Line' /\ Fresh(u).id = i /\ Fresh(u).n = told'[i]
      BY <1>1, <1>2, <1>4, <2>1, <3>1 DEF Line
    <3>3. QED
      BY <3>2
  <2>2. CASE i \notin About(updates)
    <3>1. told'[i] = told[i] /\ got'[i] = got[i]
      BY <1>2, <2>2
    <3>2. \A e \in Line : e.id = i => e \in Line'
      BY <1>1, <1>2, <2>2 DEF Line
    <3>3. QED
      BY <3>1, <3>2 DEF Delivered
  <2>3. QED
    BY <2>1, <2>2
<1>8. QED
  BY <1>1, <1>2, <1>5, <1>6, <1>7 DEF Delivered

LEMMA DeliverDelivers ==
  ASSUME Typed, Delivered, Deliver
  PROVE  Delivered'
<1>0. /\ pending \in Seq(Entry) /\ batch \in Seq(Entry) /\ queue \in Seq(Entry)
      /\ told' = told /\ \A i \in Ids : told[i] \in Nat /\ got[i].n \in Nat
  BY DEF Typed, Deliver, NextBatch, Send, Receive, Loop
<1>1. CASE NextBatch
  <2>1. batch' = pending /\ pending' = <<>> /\ UNCHANGED <<queue, got>> /\ batch = <<>>
    BY <1>1 DEF NextBatch
  <2>2. Range(pending') = {} /\ Range(batch) = {} /\ Line' = Line /\ Distinct(pending')
    BY <2>1 DEF Line, Range, Distinct
  <2>3. QED
    BY <1>0, <2>1, <2>2 DEF Delivered
<1>2. CASE Send
  <2> DEFINE h == Head(batch)
  <2>1. batch # <<>> /\ queue' = Append(queue, h) /\ batch' = Tail(batch) /\ UNCHANGED <<pending, got>>
    BY <1>2 DEF Send
  <2>2. /\ h \in Entry /\ h \in Range(batch) /\ DOMAIN Tail(batch) = 1 .. Len(batch) - 1
        /\ \A k \in 1 .. Len(batch) - 1 : Tail(batch)[k] = batch[k + 1]
        /\ \A e \in Range(batch) : e = h \/ e \in Range(batch')
        /\ \A e \in Range(batch') : e \in Range(batch)
    BY <1>0, <2>1, Taken
  <2>3. /\ Range(queue') = Range(queue) \cup {h} /\ DOMAIN queue' = 1 .. Len(queue) + 1
        /\ \A k \in 1 .. Len(queue) : queue'[k] = queue[k]
        /\ queue'[Len(queue) + 1] = h
    BY <1>0, <2>1, <2>2, Added
  <2>4. h = batch[1] /\ DOMAIN batch = 1 .. Len(batch) /\ Len(batch) \in Nat /\ Len(batch) > 0
        /\ DOMAIN queue = 1 .. Len(queue) /\ Len(queue) \in Nat
    BY <1>0, <2>1
  <2> HIDE DEF h
  <2>5. Line' = Line
    BY <2>1, <2>2, <2>3 DEF Line
  <2>6. ASSUME NEW f \in Range(batch') PROVE f.id # h.id
    <3>1. PICK k \in 1 .. Len(batch) - 1 : f = batch[k + 1]
      BY <2>1, <2>2 DEF Range
    <3>2. 1 \in DOMAIN batch /\ k + 1 \in DOMAIN batch /\ k + 1 # 1
      BY <2>4
    <3>3. QED
      BY <2>4, <3>1, <3>2 DEF Delivered, Distinct
  <2>7. Distinct(batch')
    <3>1. DOMAIN batch' = 1 .. Len(batch) - 1 /\ \A k \in 1 .. Len(batch) - 1 : batch'[k] = batch[k + 1]
      BY <2>1, <2>2
    <3>2. ASSUME NEW j \in 1 .. Len(batch) - 1, NEW k \in 1 .. Len(batch) - 1,
                 batch[j + 1].id = batch[k + 1].id
          PROVE  j = k
      <4>1. j + 1 \in DOMAIN batch /\ k + 1 \in DOMAIN batch
        BY <2>4
      <4>2. j + 1 = k + 1
        BY <3>2, <4>1 DEF Delivered, Distinct
      <4>3. QED
        BY <2>4, <4>2
    <3>3. QED
      BY <3>1, <3>2 DEF Distinct
  <2>8. ASSUME NEW j \in DOMAIN queue', NEW k \in DOMAIN queue', j < k, queue'[j].id = queue'[k].id
        PROVE  queue'[j].n < queue'[k].n
    <3>1. j \in DOMAIN queue /\ queue'[j] = queue[j] /\ queue[j] \in Range(queue)
      BY <2>3, <2>4, <2>8 DEF Range
    <3>2. CASE k \in DOMAIN queue
      BY <2>3, <2>4, <2>8, <3>1, <3>2 DEF Delivered
    <3>3. CASE k \notin DOMAIN queue
      <4>1. queue'[k] = h
        BY <2>3, <2>4, <3>3
      <4>2. QED
        BY <2>2, <2>8, <3>1, <4>1 DEF Delivered
    <3>4. QED
      BY <3>2, <3>3
  <2>9. ASSUME NEW e \in Range(queue'), NEW f \in Range(batch') \cup Range(pending'), e.id = f.id
        PROVE  e.n < f.n
    BY <2>1, <2>2, <2>3, <2>6, <2>9 DEF Delivered
  <2>10. \A e \in Range(batch'), f \in Range(pending') : e.id = f.id => e.n < f.n
    BY <2>1, <2>2 DEF Delivered
  <2>11. Distinct(pending') /\ UNCHANGED <<got, told>>
    BY <1>0, <2>1 DEF Delivered
  <2>12. (\A e \in Line : got[e.id].n < e.n /\ e.n <= told[e.id])
         /\ \A i \in Ids : got[i].n = told[i] \/ \E e \in Line : e.id = i /\ e.n = told[i]
    BY DEF Delivered
  <2>13. QED
    BY <2>5, <2>7, <2>8, <2>9, <2>10, <2>11, <2>12 DEF Delivered
<1>3. CASE Receive
  <2> DEFINE h == Head(queue)
  <2>1. /\ queue # <<>> /\ queue' = Tail(queue) /\ UNCHANGED <<pending, batch>>
        /\ got' = [got EXCEPT ![h.id] = [n |-> h.n, to |-> h.to]]
    BY <1>3 DEF Receive
  <2>2. /\ h \in Entry /\ h \in Range(queue) /\ DOMAIN Tail(queue) = 1 .. Len(queue) - 1
        /\ \A k \in 1 .. Len(queue) - 1 : Tail(queue)[k] = queue[k + 1]
        /\ \A e \in Range(queue) : e = h \/ e \in Range(queue')
        /\ \A e \in Range(queue') : e \in Range(queue)
    BY <1>0, <2>1, Taken
  <2>3. h = queue[1] /\ DOMAIN queue = 1 .. Len(queue) /\ Len(queue) \in Nat /\ Len(queue) > 0
    BY <1>0, <2>1
  <2>4. h.id \in Ids /\ h.n \in Nat /\ h \in Line /\ got[h.id].n < h.n /\ h.n <= told[h.id]
    BY <2>2, LineTyped DEF Line, Delivered
  <2> HIDE DEF h
  <2>5. got'[h.id].n = h.n /\ \A i \in Ids \ {h.id} : got'[i] = got[i]
    BY <2>1, <2>4 DEF Typed
  <2>6. ASSUME NEW e \in Range(queue'), e.id = h.id PROVE h.n < e.n
    <3>1. PICK k \in 1 .. Len(queue) - 1 : e = queue[k + 1]
      BY <2>1, <2>2 DEF Range
    <3>2. 1 \in DOMAIN queue /\ k + 1 \in DOMAIN queue /\ 1 < k + 1
      BY <2>3
    <3>3. QED
      BY <2>3, <2>6, <3>1, <3>2 DEF Delivered
  <2>7. \A e \in Line' : e \in Line
    BY <2>1, <2>2 DEF Line
  <2>8. \A e \in Line : e = h \/ e \in Line'
    BY <2>1, <2>2 DEF Line
  <2>9. ASSUME NEW e \in Line' PROVE got'[e.id].n < e.n /\ e.n <= told'[e.id]
    <3>1. e \in Line /\ e.id \in Ids /\ got[e.id].n < e.n /\ e.n <= told[e.id]
      BY <2>7, LineTyped DEF Delivered
    <3>2. CASE e.id = h.id
      <4>1. h.n < e.n
        BY <2>1, <2>2, <2>6, <3>2 DEF Line, Delivered
      <4>2. QED
        BY <1>0, <2>5, <3>1, <3>2, <4>1
    <3>3. CASE e.id # h.id
      BY <1>0, <2>5, <3>1, <3>3
    <3>4. QED
      BY <3>2, <3>3
  <2>10. ASSUME NEW i \in Ids PROVE got'[i].n = told'[i] \/ \E e \in Line' : e.id = i /\ e.n = told'[i]
    <3>1. CASE got[i].n = told[i]
      <4>1. i # h.id
        BY <1>0, <2>4, <3>1
      <4>2. QED
        BY <1>0, <2>5, <3>1, <4>1
    <3>2. CASE \E e \in Line : e.id = i /\ e.n = told[i]
      BY <1>0, <2>5, <2>8, <3>2
    <3>3. QED
      BY <3>1, <3>2 DEF Delivered
  <2>11. ASSUME NEW j \in DOMAIN queue', NEW k \in DOMAIN queue', j < k, queue'[j].id = queue'[k].id
         PROVE  queue'[j].n < queue'[k].n
    <3>1. /\ queue'[j] = queue[j + 1] /\ queue'[k] = queue[k + 1]
          /\ j + 1 \in DOMAIN queue /\ k + 1 \in DOMAIN queue /\ j + 1 < k + 1
      BY <2>1, <2>2, <2>3, <2>11
    <3>2. QED
      BY <2>11, <3>1 DEF Delivered
  <2>12. QED
    BY <2>1, <2>2, <2>9, <2>10, <2>11 DEF Delivered
<1>4. QED
  BY <1>1, <1>2, <1>3 DEF Deliver

\* The others leave the line alone.
LEMMA OthersDeliver ==
  ASSUME Typed, [Next]_vars, ~Deliver, ~(\E p \in Procs : Dispatch(p))
  PROVE  UNCHANGED delivery
BY DEF Next, vars, delivery, Edit, FileEvent, HandleEvent, Check, Read, Apply, RemoveClient, Locals,
       Begin, Reload, Filter, Rescan, Snapshot, Prepare, RuntimeUpdate

LEMMA DeliveredStep == Typed /\ Delivered /\ [Next]_vars => Delivered'
<1>1. ASSUME Delivered, UNCHANGED delivery PROVE Delivered'
  BY <1>1 DEF Delivered, delivery, Line, Distinct
<1>2. QED
  BY <1>1, OthersDeliver, DispatchDelivers, DeliverDelivers

LEMMA InitDelivered == Init => Delivered
BY DEF Init, Delivered, Distinct, Line, Range

LEMMA Simulates ==
  Typed /\ Delivered /\ [Next]_vars => [D!Next]_(D!vars)
<1> SUFFICES ASSUME Typed, Delivered, [Next]_vars PROVE [D!Next]_(D!vars)
  OBVIOUS
<1> DEFINE seen == [i \in Ids |-> got[i].n]
<1>1. ASSUME NEW p \in Procs, Dispatch(p) PROVE D!Next
  <2> DEFINE S == About(proc[p].updates)
  <2>1. S \subseteq Ids /\ S # {}
    BY <1>1, Queued DEF About
  <2>2. told' = [i \in Ids |-> IF i \in S THEN told[i] + 1 ELSE told[i]] /\ got' = got
    BY <1>1 DEF Dispatch
  <2>3. D!Tell(S)
    BY <2>1, <2>2 DEF D!Tell
  <2>4. QED
    BY <2>1, <2>3 DEF D!Next
<1>2. CASE Receive
  <2>0. PICK h : h = Head(queue)
    OBVIOUS
  <2>1. /\ h \in Range(queue) /\ told' = told
        /\ got' = [got EXCEPT ![h.id] = [n |-> h.n, to |-> h.to]]
    BY <1>2, <2>0, Taken DEF Receive, Loop, Typed
  <2>2. h.id \in Ids /\ h.n \in Nat /\ got[h.id].n < h.n /\ h.n <= told[h.id]
        /\ got[h.id].n \in Nat /\ told[h.id] \in Nat
    BY <2>1, LineTyped DEF Line, Delivered
  <2>3. h.n \in seen[h.id] + 1 .. told[h.id]
    BY <2>2
  <2>4. seen' = [seen EXCEPT ![h.id] = h.n]
    BY <2>1, <2>2 DEF Typed
  <2>5. D!See(h.id)
    BY <2>1, <2>3, <2>4 DEF D!See
  <2>6. QED
    BY <2>2, <2>5 DEF D!Next
<1>3. CASE NextBatch \/ Send
  BY <1>3 DEF NextBatch, Send, Loop, D!vars
<1>4. CASE UNCHANGED delivery
  BY <1>4 DEF delivery, D!vars
<1>5. QED
  BY <1>1, <1>2, <1>3, <1>4, OthersDeliver DEF Deliver

\* The dispatcher keeps WatcherDelivery's safety: for all credentials, queues
\* and interleavings, coalescing, batches and a full queue never bring an older
\* update of a credential back or make one up.
THEOREM DispatcherKeepsOrder == Spec => D!Init /\ [][D!Next]_(D!vars)
<1>1. Init => Typed /\ Delivered /\ D!Init
  <2>1. Init => D!Init
    BY DEF Init, D!Init
  <2>2. QED
    BY <2>1, InitTyped, InitDelivered
<1>2. Typed /\ Delivered /\ [Next]_vars => (Typed /\ Delivered)'
  BY TypedStep, DeliveredStep
<1>3. QED
  BY <1>1, <1>2, Simulates, PTL DEF Spec

(***************************************************************************)
(* At rest the service has what currentAuths says.                         *)
(***************************************************************************)
\* The last thing said about a credential that is not astray is what
\* currentAuths says: by the one goroutine that is to hand it over, or, if there
\* is none, by its newest entry on the line, or by what the service took.
Follows(i) ==
  /\ \A q, r \in Procs : i \in About(proc[q].updates) /\ i \in About(proc[r].updates) => q = r
  /\ \A q \in Procs : \A u \in proc[q].updates : u.id = i => u.to = current[i]
  /\ (\A q \in Procs : i \notin About(proc[q].updates)) =>
       /\ got[i].n = told[i] => got[i].to = current[i]
       /\ \A e \in Line : e.id = i /\ e.n = told[i] => e.to = current[i]
Followed == \A i \in Ids \ astray : Follows(i)

LEMMA InitFollowed == Init => Followed
<1> SUFFICES ASSUME Init PROVE Followed
  OBVIOUS
<1>1. Line = {}
  BY DEF Init, Line, Range
<1>2. \A p \in Procs : proc[p].updates = {}
  BY DEF Init, Rest
<1>3. \A i \in Ids : got[i].to = None /\ current[i] = None
  BY DEF Init, NoCredential
<1>4. QED
  BY <1>1, <1>2, <1>3 DEF Followed, Follows, About

\* Nothing is said, and only credentials that go astray change.
LEMMA NothingSaid ==
  ASSUME Followed, \A q \in Procs : proc'[q].updates = proc[q].updates, UNCHANGED delivery,
         astray \subseteq astray', \A i \in Ids \ astray' : current'[i] = current[i]
  PROVE  Followed'
<1>1. Line' = Line /\ UNCHANGED <<got, told>>
  BY DEF delivery, Line
<1>2. ASSUME NEW i \in Ids \ astray' PROVE Follows(i)'
  <2>1. Follows(i) /\ current'[i] = current[i]
    BY DEF Followed
  <2>2. QED
    BY <1>1, <2>1 DEF Follows, About
<1>3. QED
  BY <1>2 DEF Followed

\* A goroutine leaves clientsMutex with what currentAuths says now of every
\* credential it changed.
LEMMA LeaveFollows ==
  ASSUME Typed, Followed, NEW p \in Procs, proc[p].updates = {},
         NEW updates \in SUBSET Change, OneEach(updates), Leave(p, updates), UNCHANGED delivery,
         \A u \in updates : u.to = current'[u.id],
         \A i \in Ids : i \in About(updates) \/ current'[i] = current[i]
  PROVE  Followed'
<1>1. proc'[p].updates = updates /\ \A q \in Procs \ {p} : proc'[q] = proc[q]
  BY Leaves
<1>2. Line' = Line /\ UNCHANGED <<got, told>>
  BY DEF delivery, Line
<1>3. ASSUME NEW i \in Ids \ astray' PROVE Follows(i)'
  <2>1. CASE i \in About(updates)
    <3>1. \A q \in Procs \ {p} : i \notin About(proc[q].updates)
      BY <2>1 DEF Leave
    <3>2. \A q \in Procs \ {p} : i \notin About(proc'[q].updates)
      BY <1>1, <3>1
    <3>3. \A q \in Procs : \A u \in proc'[q].updates : u.id = i => q = p /\ u.to = current'[i]
      BY <1>1, <3>2 DEF About
    <3>4. i \in About(proc'[p].updates)
      BY <1>1, <2>1
    <3>5. QED
      BY <3>2, <3>3, <3>4 DEF Follows, About
  <2>2. CASE i \notin About(updates)
    <3>1. Follows(i) /\ current'[i] = current[i]
      BY <2>2 DEF Leave, Followed
    <3>2. \A q \in Procs : i \in About(proc'[q].updates) <=> i \in About(proc[q].updates)
      BY <1>1, <2>2 DEF About
    <3>3. \A q \in Procs : \A u \in proc'[q].updates : u.id = i => u \in proc[q].updates
      BY <1>1, <2>2 DEF About
    <3>4. QED
      BY <1>2, <3>1, <3>2, <3>3 DEF Follows
  <2>3. QED
    BY <2>1, <2>2
<1>4. QED
  BY <1>3 DEF Followed

LEMMA FileEventFollows ==
  ASSUME Typed, Followed, FileEvent
  PROVE  Followed'
<1>1. /\ proc \in [Procs -> Local] /\ Right(Events, proc[Events]) /\ Events \in Procs
      /\ current \in [Ids -> Value]
  BY Assumed DEF Typed
<1>2. proc[Events].at # "dispatch" => proc[Events].updates = {}
  BY <1>1 DEF Right
<1>3. proc[Events].at \in FileSteps => File \in Files
  BY <1>1 DEF Right, Local, File
<1>4. ASSUME proc[Events].updates = {}, Drop(Events)
      PROVE  \A q \in Procs : proc'[q].updates = proc[q].updates
  BY <1>1, <1>4, AsleepIsRight DEF Drop
<1>5. ASSUME NEW f, NEW at, Work(f, at)
      PROVE  \A q \in Procs : proc'[q].updates = proc[q].updates
  BY <1>1, <1>5 DEF Work, Local
<1>6. CASE HandleEvent
  <2>1. UNCHANGED proc \/ \E f, at : Work(f, at)
    BY <1>6 DEF HandleEvent
  <2>2. QED
    BY <1>5, <1>6, <2>1, NothingSaid DEF HandleEvent
<1>7. CASE Check
  <2>1. \A q \in Procs : proc'[q].updates = proc[q].updates
    BY <1>1, <1>2, <1>4, <1>7 DEF Check, Goto, Local
  <2>2. QED
    BY <1>7, <2>1, NothingSaid DEF Check, Locals
<1>8. CASE Read
  <2>1. \A q \in Procs : proc'[q].updates = proc[q].updates
    BY <1>1, <1>2, <1>4, <1>8 DEF Read, Local
  <2>2. QED
    BY <1>8, <2>1, NothingSaid DEF Read, Locals
<1>9. CASE Apply
  <2> DEFINE c == proc[Events].content
  <2>1. File \in Files /\ File \in Ids /\ c \in Value /\ proc[Events].updates = {} /\ UNCHANGED delivery
    BY <1>1, <1>2, <1>3, <1>9, Assumed DEF Apply, Local, FileSteps
  <2>2. CASE known[File] = c
    <3>1. Drop(Events) /\ UNCHANGED <<current, astray>>
      BY <1>9, <2>2 DEF Apply
    <3>2. QED
      BY <1>4, <2>1, <3>1, NothingSaid
  <2>3. CASE known[File] # c
    <3>1. current' = [current EXCEPT ![File] = c] /\ Leave(Events, Put(File, c))
      BY <1>9, <2>3 DEF Apply
    <3>2. Put(File, c) \in SUBSET Change /\ OneEach(Put(File, c))
      BY <2>1, PutChange
    <3>3. \A u \in Put(File, c) : u.to = current'[u.id]
      BY <1>1, <2>1, <3>1 DEF Put, Update
    <3>4. \A i \in Ids : i \in About(Put(File, c)) \/ current'[i] = current[i]
      BY <1>1, <2>1, <3>1 DEF Put, Update, About
    <3>5. QED
      BY <1>1, <2>1, <3>1, <3>2, <3>3, <3>4, LeaveFollows
  <2>4. QED
    BY <2>2, <2>3
<1>10. CASE RemoveClient
  <2> DEFINE U == IF known[File] = None THEN {} ELSE {Update(File, None)}
  <2>1. File \in Files /\ File \in Ids /\ proc[Events].updates = {} /\ UNCHANGED delivery
    BY <1>2, <1>3, <1>10, Assumed DEF RemoveClient, FileSteps
  <2>2. current' = (IF known[File] = None THEN current ELSE [current EXCEPT ![File] = None])
        /\ Leave(Events, U)
    BY <1>10 DEF RemoveClient
  <2>3. U \in SUBSET Change /\ OneEach(U)
    BY <2>1, PutChange, Assumed DEF OneEach
  <2>4. \A u \in U : u.to = current'[u.id]
    BY <1>1, <2>1, <2>2 DEF Update
  <2>5. \A i \in Ids : i \in About(U) \/ current'[i] = current[i]
    BY <1>1, <2>1, <2>2 DEF Update, About
  <2> HIDE DEF U
  <2>6. QED
    BY <1>1, <2>1, <2>2, <2>3, <2>4, <2>5, LeaveFollows
<1>11. QED
  BY <1>6, <1>7, <1>8, <1>9, <1>10 DEF FileEvent

LEMMA ReloadFollows ==
  ASSUME Typed, Followed, NEW r \in Reloads \cup {Start}, Reload(r)
  PROVE  Followed'
<1>1. /\ proc \in [Procs -> Local] /\ r \in Procs /\ Right(r, proc[r])
      /\ current \in [Ids -> Value] /\ runtime \in [Runtimes -> Value]
  BY Assumed DEF Typed
<1>2. CASE Filter(r)
  <2>1. \A q \in Procs : proc'[q].updates = proc[q].updates
    BY <1>1, <1>2 DEF Filter, Local
  <2>2. \A i \in Ids \ astray' : current'[i] = current[i]
    BY <1>1, <1>2 DEF Filter, Local
  <2>3. QED
    BY <1>2, <2>1, <2>2, NothingSaid DEF Filter
<1>3. CASE Rescan(r) \/ Snapshot(r)
  <2>1. \A q \in Procs : proc'[q].updates = proc[q].updates
    <3>1. CASE Rescan(r)
      BY <1>1, <3>1 DEF Rescan, Goto, Local
    <3>2. CASE Snapshot(r)
      <4>1. PICK snap, over :
              proc' = [proc EXCEPT ![r].at = "prepare", ![r].over = over, ![r].snap = snap]
        BY <3>2 DEF Snapshot
      <4>2. QED
        BY <1>1, <4>1 DEF Local
    <3>3. QED
      BY <1>3, <3>1, <3>2
  <2>2. UNCHANGED <<delivery, astray, current>>
    BY <1>3 DEF Rescan, Snapshot, Locals
  <2>3. QED
    BY <2>1, <2>2, NothingSaid
<1>4. CASE Prepare(r)
  <2> DEFINE new == [i \in Ids |-> IF i \in Runtimes THEN runtime[i] ELSE proc[r].snap[i]]
  <2>1. new \in [Ids -> Value] /\ proc[r].force \in BOOLEAN /\ proc[r].updates = {}
    BY <1>1, <1>4, Assumed DEF Local, Prepare, Right
  <2>2. current' = new /\ Leave(r, Diff(new, proc[r].force)) /\ UNCHANGED delivery
    BY <1>4 DEF Prepare
  <2> HIDE DEF new
  <2>3. /\ Diff(new, proc[r].force) \in SUBSET Change /\ OneEach(Diff(new, proc[r].force))
        /\ \A u \in Diff(new, proc[r].force) : u.to = new[u.id]
        /\ \A i \in Ids : i \in About(Diff(new, proc[r].force)) \/ new[i] = current[i]
    BY <2>1, DiffChange
  <2>4. QED
    BY <1>1, <2>1, <2>2, <2>3, LeaveFollows
<1>5. QED
  BY <1>2, <1>3, <1>4 DEF Reload

LEMMA InputFollows ==
  ASSUME Typed, Followed, (\E f \in Files : Edit(f)) \/ (\E r \in Reloads : Begin(r))
                          \/ (\E p \in Calls : RuntimeUpdate(p))
  PROVE  Followed'
<1>1. proc \in [Procs -> Local] /\ current \in [Ids -> Value]
      /\ \A p \in Procs : Right(p, proc[p])
  BY DEF Typed
<1>2. ASSUME NEW f \in Files, Edit(f) PROVE Followed'
  <2>1. \A q \in Procs : proc'[q].updates = proc[q].updates
    BY <1>1, <1>2 DEF Edit, Local
  <2>2. QED
    BY <1>2, <2>1, NothingSaid DEF Edit
<1>3. ASSUME NEW r \in Reloads, Begin(r) PROVE Followed'
  <2>1. PICK c \in Changes :
          proc' = [p \in Procs |->
                 CASE p = r -> [proc[r] EXCEPT !.at = IF c.filter = {} THEN "snapshot" ELSE "filter",
                                               !.filter = c.filter, !.force = c.force]
                   [] p # r /\ proc[p].at = "prepare" -> [proc[p] EXCEPT !.over = @ \cup Keys]
                   [] OTHER -> proc[p]]
    BY <1>3 DEF Begin
  <2>2. \A q \in Procs : proc'[q].updates = proc[q].updates
    BY <1>1, <2>1 DEF Local
  <2>3. QED
    BY <1>3, <2>2, NothingSaid DEF Begin
<1>4. ASSUME NEW p \in Calls, RuntimeUpdate(p) PROVE Followed'
  <2>1. PICK w \in Runtimes, c \in Value :
          current' = [current EXCEPT ![w] = c] /\ Leave(p, {Update(w, c)})
    BY <1>4 DEF RuntimeUpdate
  <2>2. p \in Procs /\ w \in Ids /\ proc[p].updates = {} /\ UNCHANGED delivery
    BY <1>1, <1>4, Assumed DEF RuntimeUpdate, Right
  <2>3. {Update(w, c)} \in SUBSET Change /\ OneEach({Update(w, c)})
    BY <2>2 DEF Update, Change, OneEach
  <2>4. \A u \in {Update(w, c)} : u.to = current'[u.id]
    BY <1>1, <2>1, <2>2 DEF Update
  <2>5. \A i \in Ids : i \in About({Update(w, c)}) \/ current'[i] = current[i]
    BY <1>1, <2>1 DEF Update, About
  <2>6. QED
    BY <2>1, <2>2, <2>3, <2>4, <2>5, LeaveFollows
<1>5. QED
  BY <1>2, <1>3, <1>4

LEMMA DispatchFollows ==
  ASSUME Typed, Delivered, Followed, NEW p \in Procs, Dispatch(p)
  PROVE  Followed'
<1>0. PICK updates : updates = proc[p].updates
  OBVIOUS
<1>1. /\ updates \in SUBSET Change /\ OneEach(updates) /\ About(updates) \subseteq Ids
      /\ \A e \in Range(pending') : \/ e \in Range(pending) /\ e.id \notin About(updates)
                                    \/ \E u \in updates : e = Fresh(u)
  BY <1>0, Queued
<1>2. /\ told' = [i \in Ids |-> IF i \in About(updates) THEN told[i] + 1 ELSE told[i]]
      /\ UNCHANGED <<batch, queue, got, current, astray>> /\ Drop(p)
  BY <1>0 DEF Dispatch
<1>3. proc'[p].updates = {} /\ \A q \in Procs \ {p} : proc'[q] = proc[q]
  BY <1>2, AsleepIsRight DEF Drop, Typed
<1>4. \A e \in Line' : e \in Line \/ \E u \in updates : e = Fresh(u)
  BY <1>1, <1>2 DEF Line
<1>5. \A u \in updates : Fresh(u).id = u.id /\ Fresh(u).to = u.to
  BY DEF Fresh
<1>6. ASSUME NEW i \in Ids \ astray' PROVE Follows(i)'
  <2>1. Follows(i)
    BY <1>2 DEF Followed
  <2>2. CASE i \in About(updates)
    <3>1. PICK u \in updates : u.id = i
      BY <2>2 DEF About
    <3>2. u.to = current[i] /\ \A q \in Procs \ {p} : i \notin About(proc[q].updates)
      BY <1>0, <2>1, <2>2, <3>1 DEF Follows
    <3>3. \A q \in Procs : i \notin About(proc'[q].updates)
      BY <1>3, <3>2 DEF About
    <3>4. told'[i] = told[i] + 1 /\ told[i] \in Nat /\ got[i].n \in Nat /\ got[i].n <= told[i]
      <4>1. told'[i] = told[i] + 1 /\ told[i] \in Nat /\ got[i].n \in Nat
        BY <1>2, <2>2 DEF Typed
      <4>2. QED
        BY <4>1, LineTyped DEF Delivered
    <3>5. ASSUME NEW e \in Line', e.id = i, e.n = told'[i] PROVE e.to = current'[i]
      <4>1. e \notin Line
        BY <3>4, <3>5, LineTyped DEF Delivered
      <4>2. PICK v \in updates : e = Fresh(v)
        BY <1>4, <4>1
      <4>3. v = u
        BY <1>1, <1>5, <3>1, <3>5, <4>2 DEF OneEach
      <4>4. QED
        BY <1>2, <1>5, <3>2, <4>2, <4>3
    <3>6. got'[i].n # told'[i]
      BY <1>2, <3>4
    <3>7. \A q \in Procs : \A x \in proc'[q].updates : x.id # i
      BY <3>3 DEF About
    <3>8. QED
      BY <3>3, <3>5, <3>6, <3>7 DEF Follows
  <2>3. CASE i \notin About(updates)
    <3>1. told'[i] = told[i] /\ got'[i] = got[i] /\ current'[i] = current[i]
      BY <1>2, <2>3
    <3>2. \A e \in Line' : e.id = i => e \in Line
      BY <1>4, <1>5, <2>3 DEF About
    <3>3. \A q \in Procs : i \in About(proc'[q].updates) <=> i \in About(proc[q].updates)
      BY <1>0, <1>3, <2>3 DEF About
    <3>4. \A q \in Procs : \A u \in proc'[q].updates : u \in proc[q].updates
      BY <1>3
    <3>5. QED
      BY <2>1, <3>1, <3>2, <3>3, <3>4 DEF Follows
  <2>4. QED
    BY <2>2, <2>3
<1>7. QED
  BY <1>6 DEF Followed

LEMMA DeliverFollows ==
  ASSUME Typed, Delivered, Followed, Deliver
  PROVE  Followed'
<1>1. /\ UNCHANGED <<proc, current, astray, told>>
      /\ pending \in Seq(Entry) /\ batch \in Seq(Entry) /\ queue \in Seq(Entry)
  BY DEF Deliver, NextBatch, Send, Receive, Loop, Typed
<1>2. ASSUME Line' \subseteq Line,
             \A i \in Ids : got'[i] = got[i]
                            \/ \E e \in Line : e.id = i /\ got'[i] = [n |-> e.n, to |-> e.to]
      PROVE  Followed'
  <2>1. ASSUME NEW i \in Ids \ astray' PROVE Follows(i)'
    <3>1. Follows(i)
      BY <1>1 DEF Followed
    <3>2. got'[i].n = told'[i] => got'[i].to = current'[i]
             \/ \E q \in Procs : i \in About(proc'[q].updates)
      <4>1. CASE got'[i] = got[i]
        BY <1>1, <3>1, <4>1 DEF Follows
      <4>2. CASE \E e \in Line : e.id = i /\ got'[i] = [n |-> e.n, to |-> e.to]
        BY <1>1, <3>1, <4>2 DEF Follows
      <4>3. QED
        BY <1>2, <4>1, <4>2
    <3>3. QED
      BY <1>1, <1>2, <3>1, <3>2 DEF Follows
  <2>2. QED
    BY <2>1 DEF Followed
<1>3. CASE NextBatch
  <2>1. Line' \subseteq Line
    BY <1>3 DEF NextBatch, Line, Range
  <2>2. QED
    BY <1>2, <1>3, <2>1 DEF NextBatch
<1>4. CASE Send
  <2>1. Head(batch) \in Entry /\ Head(batch) \in Range(batch)
        /\ \A e \in Range(batch') : e \in Range(batch)
    BY <1>1, <1>4, Taken DEF Send
  <2>2. Range(queue') = Range(queue) \cup {Head(batch)}
    BY <1>1, <1>4, <2>1, Added DEF Send
  <2>3. Line' \subseteq Line
    BY <1>4, <2>1, <2>2 DEF Send, Line
  <2>4. QED
    BY <1>2, <1>4, <2>3 DEF Send
<1>5. CASE Receive
  <2>1. Head(queue) \in Range(queue) /\ \A e \in Range(queue') : e \in Range(queue)
    BY <1>1, <1>5, Taken DEF Receive
  <2>2. Line' \subseteq Line /\ Head(queue) \in Line
    BY <1>5, <2>1 DEF Receive, Line
  <2>3. got' = [got EXCEPT ![Head(queue).id] = [n |-> Head(queue).n, to |-> Head(queue).to]]
    BY <1>5 DEF Receive
  <2>4. \A i \in Ids : got'[i] = got[i]
                       \/ \E e \in Line : e.id = i /\ got'[i] = [n |-> e.n, to |-> e.to]
    BY <2>2, <2>3 DEF Typed
  <2>5. QED
    BY <1>2, <2>2, <2>4
<1>6. QED
  BY <1>3, <1>4, <1>5 DEF Deliver

LEMMA FollowedStep == Typed /\ Delivered /\ Followed /\ [Next]_vars => Followed'
<1> SUFFICES ASSUME Typed, Delivered, Followed, [Next]_vars PROVE Followed'
  OBVIOUS
<1>1. CASE UNCHANGED vars
  BY <1>1, NothingSaid DEF vars, delivery
<1>2. QED
  BY <1>1, FileEventFollows, ReloadFollows, InputFollows, DispatchFollows, DeliverFollows DEF Next

LEMMA RestFollows == Typed /\ Delivered /\ Followed => ConsumerFollows
<1> SUFFICES ASSUME Typed, Delivered, Followed, Quiet, NEW i \in Ids \ astray
             PROVE  got[i].to = current[i]
  BY DEF ConsumerFollows
<1>1. Line = {}
  BY DEF Quiet, Line, Range
<1>2. got[i].n = told[i]
  BY <1>1 DEF Delivered
<1>3. \A q \in Procs : i \notin About(proc[q].updates)
  BY DEF Quiet, Typed, Right, About
<1>4. QED
  BY <1>2, <1>3 DEF Followed, Follows

\* Whatever events, reloads and calls of runtime providers interleave, at rest
\* the service has what currentAuths says of every credential that did not go
\* astray: nothing else is lost between the watcher's two locks, its queues and
\* the service.
THEOREM ServiceFollows == Spec => []ConsumerFollows
<1>1. Init => Typed /\ Delivered /\ Followed
  BY InitTyped, InitDelivered, InitFollowed
<1>2. Typed /\ Delivered /\ Followed /\ [Next]_vars => (Typed /\ Delivered /\ Followed)'
  BY TypedStep, DeliveredStep, FollowedStep
<1>3. QED
  BY <1>1, <1>2, RestFollows, PTL DEF Spec

(***************************************************************************)
(* At rest currentAuths has what the files and the configuration say.      *)
(***************************************************************************)
Loads == Reloads \cup {Start}
Coming(f) == \E e \in Range(events) : e.file = f
Rescanned == proc[Start].at # "rescan"
Reloading == \E r \in Loads : proc[r].at \in {"rescan", "filter", "snapshot", "prepare"}

\* The last event of a file says whether it is there, and what the event loop
\* found of the file it works on still holds unless another event is coming.
EventsRight ==
  /\ \A k \in DOMAIN events :
       (\A j \in DOMAIN events : j > k => events[j].file # events[k].file)
         => (events[k].removal <=> disk[events[k].file] = None)
  /\ File \in Files /\ ~Coming(File) =>
       /\ proc[Events].at \in {"check", "read"} => disk[File] # None
       /\ proc[Events].at = "apply" => disk[File] = proc[Events].content
       /\ proc[Events].at = "remove" => disk[File] = None

\* lastAuthHashes has the content of a file unless there is still to be a look at it.
KnownRight ==
  Rescanned => \A f \in Files : f \in raced \/ known[f] = disk[f] \/ Coming(f) \/ File = f

\* A snapshot still has what it noted no change of.
SnapRight(r) ==
  proc[r].at = "prepare" =>
    /\ \A f \in Files \ proc[r].over :
         /\ proc[r].snap[f] = disk[f] /\ ~Coming(f) /\ File # f
         /\ Rescanned => f \in raced \/ known[f] = disk[f]
    /\ \A k \in Keys \ proc[r].over : proc[r].snap[k] = keys[k]

\* Between reloads currentAuths has what was loaded of each file, each key of
\* the configuration and each runtime credential.
CurrentRight ==
  ~Reloading =>
    /\ \A f \in Files \ raced : current[f] = known[f]
    /\ \A k \in Keys \ raced : current[k] = keys[k]
    /\ \A w \in Runtimes : current[w] = runtime[w]

DiskRight == EventsRight /\ KnownRight /\ (\A r \in Loads : SnapRight(r)) /\ CurrentRight

LEMMA InitDiskRight == Init => DiskRight
<1> SUFFICES ASSUME Init PROVE DiskRight
  OBVIOUS
<1>1. proc[Start].at = "rescan" /\ File = None /\ \A r \in Loads : proc[r].at # "prepare"
  BY Assumed DEF Init, Rest, File, Loads
<1>2. Reloading /\ ~Rescanned
  BY <1>1 DEF Reloading, Rescanned, Loads
<1>3. EventsRight
  BY <1>1, Assumed DEF EventsRight, Init
<1>4. QED
  BY <1>1, <1>2, <1>3 DEF DiskRight, KnownRight, SnapRight, CurrentRight

\* What moves no load and takes nothing away keeps everything right.
LEMMA NothingSeen ==
  ASSUME DiskRight, UNCHANGED <<disk, keys, events, known, raced>>,
         \A r \in Loads : \/ proc'[r] = proc[r]
                          \/ /\ proc[r].at \notin {"rescan", "filter", "snapshot", "prepare"}
                             /\ proc'[r].at = "done",
         \/ proc'[Events] = proc[Events]
         \/ File' = None /\ (File = None \/ Coming(File) \/ known[File] = disk[File]),
         None \notin Files,
         \A i \in Files \cup Keys : current'[i] = current[i],
         \A w \in Runtimes : \/ current'[w] = current[w] /\ runtime'[w] = runtime[w]
                             \/ current'[w] = runtime'[w]
  PROVE  DiskRight'
<1>1. /\ \A f : Coming(f)' <=> Coming(f)
      /\ Rescanned' <=> Rescanned
      /\ Reloading' <=> Reloading
  BY DEF Coming, Rescanned, Reloading, Loads
<1>2. \/ File' = File
      \/ File' = None /\ (File = None \/ Coming(File) \/ known[File] = disk[File])
  BY DEF File
<1>3. EventsRight'
  <2>1. CASE proc'[Events] = proc[Events]
    BY <1>1, <2>1 DEF DiskRight, EventsRight, File
  <2>2. CASE File' = None
    BY <2>2 DEF DiskRight, EventsRight
  <2>3. QED
    BY <2>1, <2>2
<1>4. KnownRight'
  BY <1>1, <1>2 DEF DiskRight, KnownRight
<1>5. ASSUME NEW r \in Loads PROVE SnapRight(r)'
  BY <1>1, <1>2 DEF DiskRight, SnapRight
<1>6. CurrentRight'
  BY <1>1 DEF DiskRight, CurrentRight
<1>7. QED
  BY <1>3, <1>4, <1>5, <1>6 DEF DiskRight

LEMMA EditSeen ==
  ASSUME Typed, DiskRight, NEW f \in Files, Edit(f)
  PROVE  DiskRight'
<1>1. PICK c \in Value : /\ disk' = [disk EXCEPT ![f] = c]
                         /\ events' = Append(events, [file |-> f, removal |-> c = None])
  BY DEF Edit
<1> DEFINE e == [file |-> f, removal |-> c = None]
<1>2. e \in Event
  BY DEF Event
<1>3. /\ Range(events') = Range(events) \cup {e} /\ DOMAIN events' = 1 .. Len(events) + 1
      /\ \A k \in 1 .. Len(events) : events'[k] = events[k]
      /\ events'[Len(events) + 1] = e
      /\ DOMAIN events = 1 .. Len(events) /\ Len(events) \in Nat
  BY <1>1, <1>2, Added, Element DEF Typed
<1>4. Coming(f)' /\ \A g : g # f => (Coming(g)' <=> Coming(g))
  BY <1>3 DEF Coming
<1>5. disk'[f] = c /\ \A g \in Files \ {f} : disk'[g] = disk[g]
  BY <1>1 DEF Typed
<1>6. /\ proc' = [p \in Procs |-> IF proc[p].at = "prepare" THEN [proc[p] EXCEPT !.over = @ \cup {f}]
                                  ELSE proc[p]]
      /\ UNCHANGED <<keys, known, runtime, current, raced>>
  BY DEF Edit
<1>7. ASSUME NEW p \in Procs
      PROVE  /\ proc'[p].at = proc[p].at /\ proc'[p].file = proc[p].file
             /\ proc'[p].content = proc[p].content /\ proc'[p].snap = proc[p].snap
             /\ proc[p].at = "prepare" => proc'[p].over = proc[p].over \cup {f}
  BY <1>6 DEF Typed, Local
<1>8. File' = File /\ proc'[Events].at = proc[Events].at /\ proc'[Events].content = proc[Events].content
      /\ (Rescanned' <=> Rescanned) /\ (Reloading' <=> Reloading)
  BY <1>7, Assumed DEF File, Rescanned, Reloading, Loads
<1>9. EventsRight'
  <2>1. ASSUME NEW k \in DOMAIN events', \A j \in DOMAIN events' : j > k => events'[j].file # events'[k].file
        PROVE  events'[k].removal <=> disk'[events'[k].file] = None
    <3>1. CASE k = Len(events) + 1
      <4>1. events'[k] = e /\ e.file = f /\ (e.removal <=> c = None)
        BY <1>3, <3>1
      <4> HIDE DEF e
      <4>2. QED
        BY <1>5, <4>1
    <3>2. CASE k # Len(events) + 1
      <4>1. k \in DOMAIN events /\ events'[k] = events[k] /\ Len(events) + 1 > k
            /\ Len(events) + 1 \in DOMAIN events'
        BY <1>3, <3>2
      <4>2. events[k].file # f
        BY <1>3, <2>1, <4>1
      <4>3. \A j \in DOMAIN events : j \in DOMAIN events' /\ events'[j] = events[j]
        BY <1>3
      <4>4. events[k].removal <=> disk[events[k].file] = None
        BY <2>1, <4>1, <4>3 DEF DiskRight, EventsRight
      <4>5. events[k].file \in Files
        <5>1. events[k] \in Event
          BY <4>1, Element DEF Typed
        <5>2. QED
          BY <5>1 DEF Event
      <4>6. QED
        BY <1>5, <4>1, <4>2, <4>4, <4>5
    <3>3. QED
      BY <3>1, <3>2
  <2>2. QED
    BY <2>1, <1>4, <1>5, <1>8 DEF DiskRight, EventsRight
<1>10. KnownRight'
  BY <1>4, <1>5, <1>6, <1>8 DEF DiskRight, KnownRight
<1>11. ASSUME NEW r \in Loads PROVE SnapRight(r)'
  <2>1. r \in Procs
    BY Assumed DEF Loads
  <2>2. QED
    BY <2>1, <1>4, <1>5, <1>6, <1>7, <1>8 DEF DiskRight, SnapRight
<1>12. CurrentRight'
  BY <1>6, <1>8 DEF DiskRight, CurrentRight
<1>13. QED
  BY <1>9, <1>10, <1>11, <1>12 DEF DiskRight

LEMMA HandleEventSeen ==
  ASSUME Typed, DiskRight, HandleEvent
  PROVE  DiskRight'
<1>0. PICK f, removal : f = Head(events).file /\ removal = Head(events).removal
  OBVIOUS
<1>1. /\ proc[Events].at = "idle" /\ events # <<>> /\ events' = Tail(events)
      /\ UNCHANGED <<disk, keys, runtime, known, current>>
  BY DEF HandleEvent, sources
<1>2. /\ Head(events) \in Event /\ DOMAIN Tail(events) = 1 .. Len(events) - 1
      /\ \A k \in 1 .. Len(events) - 1 : Tail(events)[k] = events[k + 1]
      /\ \A e \in Range(events) : e = Head(events) \/ e \in Range(events')
      /\ \A e \in Range(events') : e \in Range(events)
      /\ DOMAIN events = 1 .. Len(events) /\ Len(events) \in Nat /\ Head(events) \in Range(events)
  BY <1>1, Taken, Element DEF Typed
<1>3. f \in Files /\ removal \in BOOLEAN
  BY <1>0, <1>2 DEF Event
<1>4. Head(events) = events[1] /\ Len(events) > 0
  BY <1>1 DEF Typed
<1>5. Coming(f) /\ (\A g : Coming(g)' => Coming(g)) /\ \A g : g # f /\ Coming(g) => Coming(g)'
  BY <1>0, <1>2 DEF Coming
<1>6. File = None /\ Right(Events, proc[Events]) /\ proc \in [Procs -> Local]
  BY <1>1, Assumed DEF Typed, Right, File, FileSteps
<1>7. PICK dropped \in BOOLEAN :
        /\ raced' = (IF dropped THEN raced \cup {f} ELSE raced)
        /\ CASE dropped -> UNCHANGED proc
             [] ~dropped /\ removal /\ disk[f] # None -> Work(f, "check")
             [] ~dropped /\ removal /\ disk[f] = None ->
                  IF known[f] # None THEN Work(f, "remove") ELSE UNCHANGED proc
             [] ~removal -> IF Unchanged(f) THEN UNCHANGED proc ELSE Work(f, "read")
  <2>1. \A x \in BOOLEAN : x \in (IF removal /\ f \in recent THEN BOOLEAN ELSE {FALSE}) => x \in BOOLEAN
    OBVIOUS
  <2>2. QED
    BY <1>0, <2>1 DEF HandleEvent
<1>8. \/ UNCHANGED proc /\ (f \in raced' \/ known[f] = disk[f])
      \/ Work(f, "check") /\ disk[f] # None
      \/ Work(f, "remove") /\ disk[f] = None
      \/ Work(f, "read") /\ ~removal
  BY <1>3, <1>7 DEF Unchanged
<1>9. \A at : Work(f, at) =>
        /\ File' = f /\ proc'[Events].at = at
        /\ \A p \in Procs \ {Events} : proc'[p] = proc[p]
  BY <1>6, Assumed DEF Work, File, Local
<1>10. /\ \A r \in Loads : proc'[r] = proc[r]
       /\ (Rescanned' <=> Rescanned) /\ (Reloading' <=> Reloading)
  BY <1>8, <1>9, Assumed DEF Rescanned, Reloading, Loads
<1>11. EventsRight'
  <2>1. ASSUME NEW k \in DOMAIN events', \A j \in DOMAIN events' : j > k => events'[j].file # events'[k].file
        PROVE  events'[k].removal <=> disk'[events'[k].file] = None
    <3>1. k \in 1 .. Len(events) - 1 /\ events'[k] = events[k + 1] /\ k + 1 \in DOMAIN events
      BY <1>1, <1>2, <2>1
    <3>2. ASSUME NEW j \in DOMAIN events, j > k + 1 PROVE events[j].file # events[k + 1].file
      <4>1. j - 1 \in DOMAIN events' /\ j - 1 > k /\ events'[j - 1] = events[j]
        BY <1>1, <1>2, <3>1, <3>2
      <4>2. QED
        BY <2>1, <3>1, <4>1
    <3>3. QED
      BY <1>1, <3>1, <3>2 DEF DiskRight, EventsRight
  <2>2. ASSUME Work(f, "read"), ~removal, ~Coming(f)' PROVE disk[f] # None
    <3>1. ASSUME NEW j \in DOMAIN events, j > 1 PROVE events[j].file # f
      <4>1. j - 1 \in DOMAIN events' /\ events'[j - 1] = events[j]
        BY <1>1, <1>2, <3>1
      <4>2. QED
        BY <2>2, <4>1 DEF Coming, Range
    <3>2. 1 \in DOMAIN events
      BY <1>2, <1>4
    <3>3. QED
      BY <1>0, <1>4, <2>2, <3>1, <3>2 DEF DiskRight, EventsRight
  <2>3. \/ File' = None
        \/ File' = f /\ \/ proc'[Events].at = "check" /\ disk[f] # None
                        \/ proc'[Events].at = "remove" /\ disk[f] = None
                        \/ proc'[Events].at = "read" /\ (Coming(f)' \/ disk[f] # None)
    BY <1>6, <1>8, <1>9, <2>2 DEF File
  <2>4. QED
    BY <1>1, <2>1, <2>3, Assumed DEF EventsRight
<1>12. KnownRight'
  <2>1. ASSUME NEW g \in Files, Rescanned
        PROVE  g \in raced' \/ known[g] = disk[g] \/ Coming(g)' \/ File' = g
    <3>1. CASE g = f
      BY <1>8, <1>9, <3>1
    <3>2. CASE g # f
      <4>1. g \in raced \/ known[g] = disk[g] \/ Coming(g)
        BY <1>6, <2>1, Assumed DEF DiskRight, KnownRight
      <4>2. QED
        BY <1>5, <1>7, <3>2, <4>1
    <3>3. QED
      BY <3>1, <3>2
  <2>2. QED
    BY <1>1, <1>10, <2>1 DEF KnownRight
<1>13. ASSUME NEW r \in Loads PROVE SnapRight(r)'
  <2>1. SnapRight(r) /\ proc'[r] = proc[r]
    BY <1>10 DEF DiskRight
  <2>2. File' = None \/ File' = f
    BY <1>6, <1>8, <1>9 DEF File
  <2>3. QED
    BY <1>1, <1>5, <1>7, <1>10, <2>1, <2>2, Assumed DEF SnapRight
<1>14. CurrentRight'
  BY <1>1, <1>7, <1>10 DEF DiskRight, CurrentRight
<1>15. QED
  BY <1>11, <1>12, <1>13, <1>14 DEF DiskRight

\* The other steps of the event loop.
LEMMA FileStepSeen ==
  ASSUME Typed, DiskRight, Check \/ Read \/ Apply \/ RemoveClient
  PROVE  DiskRight'
<1>1. /\ Right(Events, proc[Events]) /\ proc \in [Procs -> Local] /\ Events \in Procs
      /\ proc[Events].at \in FileSteps
  BY Assumed DEF Typed, Check, Read, Apply, RemoveClient, FileSteps
<1>2. File \in Files /\ File \in Ids /\ File # None /\ Events \notin Loads /\ Loads \subseteq Procs
  BY <1>1, Assumed DEF Right, Local, File, Loads
<1>3. UNCHANGED <<disk, keys, runtime, events>> /\ \A f : Coming(f)' <=> Coming(f)
  BY DEF Check, Read, Apply, RemoveClient, Locals, sources, Coming
<1>4. ASSUME Drop(Events) PROVE File' = None /\ \A p \in Procs \ {Events} : proc'[p] = proc[p]
  BY <1>1, <1>4 DEF Drop, File, Asleep, Rest
<1>5. ASSUME UNCHANGED <<known, raced, current>>, Drop(Events),
             Coming(File) \/ known[File] = disk[File]
      PROVE  DiskRight'
  <2>1. File' = None /\ \A r \in Loads : proc'[r] = proc[r]
    BY <1>2, <1>4, <1>5
  <2>2. /\ \A i \in Files \cup Keys : current'[i] = current[i]
        /\ \A w \in Runtimes : current'[w] = current[w] /\ runtime'[w] = runtime[w]
    BY <1>3, <1>5
  <2>3. None \notin Files /\ UNCHANGED <<disk, keys, events, known, raced>>
    BY <1>3, <1>5, Assumed
  <2>4. QED
    BY <1>5, <2>1, <2>2, <2>3, NothingSeen
<1>6. ASSUME NEW at \in {"read", "apply"}, NEW content \in Value, UNCHANGED <<known, raced, current>>,
             proc' = [proc EXCEPT ![Events].at = at, ![Events].content = content],
             ~Coming(File) => CASE at = "read" -> disk[File] # None
                                [] at = "apply" -> disk[File] = content
      PROVE  DiskRight'
  <2>1. /\ File' = File /\ proc'[Events].at = at /\ proc'[Events].content = content
        /\ \A p \in Procs \ {Events} : proc'[p] = proc[p]
    BY <1>1, <1>6 DEF File, Local
  <2>2. (Rescanned' <=> Rescanned) /\ (Reloading' <=> Reloading) /\ \A r \in Loads : proc'[r] = proc[r]
    BY <1>2, <2>1 DEF Rescanned, Reloading, Loads
  <2>3. EventsRight'
    BY <1>3, <1>6, <2>1 DEF DiskRight, EventsRight
  <2>4. KnownRight' /\ CurrentRight'
    BY <1>3, <1>6, <2>1, <2>2 DEF DiskRight, KnownRight, CurrentRight
  <2>5. ASSUME NEW r \in Loads PROVE SnapRight(r)'
    BY <1>3, <1>6, <2>1, <2>2 DEF DiskRight, SnapRight
  <2>6. QED
    BY <2>3, <2>4, <2>5 DEF DiskRight
<1>7. ASSUME NEW c \in Value, known' = [known EXCEPT ![File] = c], raced' = raced \ {File},
             current' = [current EXCEPT ![File] = c],
             File' = None, \A p \in Procs \ {Events} : proc'[p] = proc[p],
             Coming(File) \/ disk[File] = c
      PROVE  DiskRight'
  <2>1. (Rescanned' <=> Rescanned) /\ (Reloading' <=> Reloading) /\ \A r \in Loads : proc'[r] = proc[r]
    BY <1>2, <1>7 DEF Rescanned, Reloading, Loads
  <2>2. known'[File] = c /\ current'[File] = c
        /\ (\A f \in Files \ {File} : known'[f] = known[f]) /\ (\A i \in Ids \ {File} : current'[i] = current[i])
    BY <1>2, <1>7 DEF Typed
  <2>3. EventsRight'
    BY <1>3, <1>7, Assumed DEF DiskRight, EventsRight
  <2>4. KnownRight'
    BY <1>3, <1>7, <2>1, <2>2 DEF DiskRight, KnownRight
  <2>5. CurrentRight'
    BY <1>2, <1>3, <1>7, <2>1, <2>2, Assumed DEF DiskRight, CurrentRight
  <2>6. ASSUME NEW r \in Loads PROVE SnapRight(r)'
    <3>1. SnapRight(r)
      BY DEF DiskRight
    <3>2. QED
      BY <1>2, <1>3, <1>7, <2>1, <2>2, <3>1, Assumed DEF SnapRight
  <2>7. QED
    BY <2>3, <2>4, <2>5, <2>6 DEF DiskRight
<1>8. CASE Check
  <2>1. UNCHANGED <<known, raced, current>>
    BY <1>8 DEF Check, Locals
  <2>2. CASE Unchanged(File)
    BY <1>5, <1>8, <2>1, <2>2 DEF Check, Unchanged
  <2>3. CASE ~Unchanged(File)
    <3>1. ~Coming(File) => disk[File] # None
      BY <1>2, <1>8 DEF DiskRight, EventsRight, Check
    <3>2. proc[Events].content \in Value
      BY <1>1 DEF Local
    <3>3. proc' = [proc EXCEPT ![Events].at = "read", ![Events].content = proc[Events].content]
      BY <1>1, <1>8, <2>3 DEF Check, Goto, Local
    <3>4. QED
      BY <1>6, <2>1, <3>1, <3>2, <3>3
  <2>4. QED
    BY <2>2, <2>3
<1>9. CASE Read
  <2>1. UNCHANGED <<known, raced, current>> /\ disk[File] \in Value
    BY <1>2, <1>9 DEF Read, Locals, Typed
  <2>2. CASE disk[File] = None
    <3>1. Coming(File)
      BY <1>2, <1>9, <2>2 DEF DiskRight, EventsRight, Read
    <3>2. QED
      BY <1>5, <1>9, <2>1, <2>2, <3>1 DEF Read
  <2>3. CASE disk[File] # None
    <3>1. proc' = [proc EXCEPT ![Events].at = "apply", ![Events].content = disk[File]]
      BY <1>9, <2>3 DEF Read
    <3>2. QED
      BY <1>6, <2>1, <3>1
  <2>4. QED
    BY <2>2, <2>3
<1>10. CASE Apply
  <2>1. PICK c \in Value : c = proc[Events].content
    BY <1>1 DEF Local
  <2>2. Coming(File) \/ disk[File] = c
    BY <1>2, <1>10, <2>1 DEF DiskRight, EventsRight, Apply
  <2>3. CASE known[File] = c
    BY <1>5, <1>10, <2>1, <2>2, <2>3 DEF Apply
  <2>4. CASE known[File] # c
    <3>1. /\ known' = [known EXCEPT ![File] = c] /\ current' = [current EXCEPT ![File] = c]
          /\ raced' = raced \ {File} /\ Leave(Events, Put(File, c))
      BY <1>10, <2>1, <2>4 DEF Apply
    <3>2. Put(File, c) \in SUBSET Change /\ OneEach(Put(File, c))
      BY <1>2, PutChange
    <3>3. proc'[Events].file = None /\ \A p \in Procs \ {Events} : proc'[p] = proc[p]
      BY <1>1, <3>1, <3>2, Leaves
    <3>4. QED
      BY <1>7, <2>2, <3>1, <3>3 DEF File
  <2>5. QED
    BY <2>3, <2>4
<1>11. CASE RemoveClient
  <2> DEFINE U == IF known[File] = None THEN {} ELSE {Update(File, None)}
  <2>1. Coming(File) \/ disk[File] = None
    BY <1>2, <1>11 DEF DiskRight, EventsRight, RemoveClient
  <2>2. U \in SUBSET Change /\ OneEach(U)
    BY <1>2, PutChange, Assumed DEF OneEach
  <2>3. Leave(Events, U)
    BY <1>11 DEF RemoveClient
  <2>4. proc'[Events].file = None /\ \A p \in Procs \ {Events} : proc'[p] = proc[p]
    BY <1>1, <2>2, <2>3, Leaves
  <2>5. known' = [known EXCEPT ![File] = None]
        /\ current' = (IF known[File] = None THEN current ELSE [current EXCEPT ![File] = None])
        /\ raced' = (IF known[File] = None THEN raced ELSE raced \ {File})
    BY <1>11 DEF RemoveClient
  <2>6. CASE known[File] # None
    BY <1>7, <2>1, <2>4, <2>5, <2>6, Assumed DEF File
  <2>7. CASE known[File] = None
    <3>1. known' = known /\ current' = current /\ raced' = raced
      BY <1>2, <2>5, <2>7 DEF Typed
    <3>2. File' = None /\ \A r \in Loads : proc'[r] = proc[r]
      BY <1>2, <2>4 DEF File
    <3>3. /\ \A i \in Files \cup Keys : current'[i] = current[i]
          /\ \A w \in Runtimes : current'[w] = current[w] /\ runtime'[w] = runtime[w]
      BY <1>3, <3>1
    <3>4. None \notin Files /\ UNCHANGED <<disk, keys, events, known, raced>>
      BY <1>3, <3>1, Assumed
    <3>5. QED
      BY <2>1, <2>7, <3>2, <3>3, <3>4, NothingSeen
  <2>8. QED
    BY <2>6, <2>7
<1>12. QED
  BY <1>8, <1>9, <1>10, <1>11

\* A load moves on to its snapshot, or takes one.
LEMMA LoadMoves ==
  ASSUME Typed, DiskRight, NEW r \in Loads, NEW at \in {"snapshot", "prepare"},
         proc[r].at \in {"begin", "rescan", "filter", "snapshot"}, proc'[r].at = at,
         \A p \in Procs \ {r} : /\ proc'[p].at = proc[p].at /\ proc'[p].file = proc[p].file
                                /\ proc'[p].content = proc[p].content /\ proc'[p].snap = proc[p].snap
                                /\ proc[p].at = "prepare" =>
                                     /\ proc[p].over \subseteq proc'[p].over
                                     /\ \A k \in Keys \ proc'[p].over : keys'[k] = keys[k],
         UNCHANGED <<disk, events, raced>>,
         known' = known \/ known' = disk,
         Rescanned' => Rescanned \/ known' = disk,
         at = "prepare" =>
           /\ \A f \in Files \ proc'[r].over :
                /\ proc'[r].snap[f] = disk[f] /\ ~Coming(f) /\ File # f
                /\ Rescanned' => f \in raced \/ known'[f] = disk[f]
           /\ \A k \in Keys \ proc'[r].over : proc'[r].snap[k] = keys'[k]
  PROVE  DiskRight'
<1>1. /\ \A f : Coming(f)' <=> Coming(f)
      /\ Reloading' /\ Events \in Procs \ {r} /\ Loads \subseteq Procs
  BY Assumed DEF Coming, Reloading, Loads
<1>2. File' = File /\ proc'[Events].at = proc[Events].at /\ proc'[Events].content = proc[Events].content
  BY <1>1 DEF File
<1>3. EventsRight'
  BY <1>1, <1>2 DEF DiskRight, EventsRight
<1>4. KnownRight'
  BY <1>1, <1>2 DEF DiskRight, KnownRight
<1>5. ASSUME NEW q \in Loads PROVE SnapRight(q)'
  <2>1. CASE q = r
    BY <1>1, <1>2, <2>1 DEF SnapRight
  <2>2. CASE q # r
    <3>1. SnapRight(q) /\ q \in Procs \ {r}
      BY <1>1, <2>2 DEF DiskRight
    <3>2. QED
      BY <1>1, <1>2, <3>1 DEF SnapRight
  <2>3. QED
    BY <2>1, <2>2
<1>6. QED
  BY <1>1, <1>3, <1>4, <1>5 DEF DiskRight, CurrentRight

LEMMA BeginSeen ==
  ASSUME Typed, DiskRight, NEW r \in Reloads, Begin(r)
  PROVE  DiskRight'
<1>1. PICK c \in Changes :
        proc' = [p \in Procs |->
                 CASE p = r -> [proc[r] EXCEPT !.at = IF c.filter = {} THEN "snapshot" ELSE "filter",
                                               !.filter = c.filter, !.force = c.force]
                   [] p # r /\ proc[p].at = "prepare" -> [proc[p] EXCEPT !.over = @ \cup Keys]
                   [] OTHER -> proc[p]]
  BY DEF Begin
<1>2. proc[r].at = "begin" /\ UNCHANGED <<disk, runtime, events, known, current, raced>>
  BY DEF Begin
<1>3. r \in Procs /\ r \in Loads /\ r # Start /\ r # Events /\ proc \in [Procs -> Local]
      /\ Loads \subseteq Procs /\ Start \in Procs /\ Events \in Procs
  BY Assumed DEF Loads, Typed
<1>4. proc'[r].at \in {"snapshot", "filter"}
  BY <1>1, <1>3 DEF Local
<1>5. ASSUME NEW p \in Procs \ {r}
      PROVE  /\ proc'[p].at = proc[p].at /\ proc'[p].file = proc[p].file
             /\ proc'[p].content = proc[p].content /\ proc'[p].snap = proc[p].snap
             /\ proc[p].at = "prepare" => proc'[p].over = proc[p].over \cup Keys
  BY <1>1, <1>3 DEF Local
<1>6. /\ \A f : Coming(f)' <=> Coming(f)
      /\ Reloading' /\ (Rescanned' <=> Rescanned)
      /\ File' = File /\ proc'[Events].at = proc[Events].at /\ proc'[Events].content = proc[Events].content
  BY <1>2, <1>3, <1>4, <1>5 DEF Coming, Reloading, Rescanned, File
<1>7. EventsRight'
  BY <1>2, <1>6 DEF DiskRight, EventsRight
<1>8. KnownRight'
  BY <1>2, <1>6 DEF DiskRight, KnownRight
<1>9. ASSUME NEW q \in Loads PROVE SnapRight(q)'
  <2>1. CASE q = r
    BY <1>4, <2>1 DEF SnapRight
  <2>2. CASE q # r
    <3>1. SnapRight(q) /\ q \in Procs \ {r}
      BY <1>3, <2>2 DEF DiskRight
    <3>2. QED
      BY <1>2, <1>5, <1>6, <3>1 DEF SnapRight
  <2>3. QED
    BY <2>1, <2>2
<1>10. QED
  BY <1>6, <1>7, <1>8, <1>9 DEF DiskRight, CurrentRight

LEMMA ReloadSeen ==
  ASSUME Typed, DiskRight, NEW r \in Loads, Filter(r) \/ Rescan(r) \/ Snapshot(r)
  PROVE  DiskRight'
<1>1. /\ r \in Procs /\ r # Events /\ proc \in [Procs -> Local] /\ Right(r, proc[r])
      /\ Start \in Procs
  BY Assumed DEF Loads, Typed
<1>2. UNCHANGED <<disk, keys, runtime, events, raced>>
  BY DEF Filter, Rescan, Snapshot, Locals, sources
<1>3. ASSUME \A p \in Procs \ {r} : proc'[p] = proc[p]
      PROVE  \A p \in Procs \ {r} :
               /\ proc'[p].at = proc[p].at /\ proc'[p].file = proc[p].file
               /\ proc'[p].content = proc[p].content /\ proc'[p].snap = proc[p].snap
               /\ proc[p].at = "prepare" =>
                    /\ proc[p].over \subseteq proc'[p].over
                    /\ \A k \in Keys \ proc'[p].over : keys'[k] = keys[k]
  BY <1>2, <1>3
<1>4. CASE Filter(r)
  <2>1. /\ proc[r].at = "filter" /\ proc'[r].at = "snapshot" /\ known' = known
        /\ \A p \in Procs \ {r} : proc'[p] = proc[p]
    BY <1>1, <1>4 DEF Filter, Local
  <2>2. r # Start
    BY <1>1, <2>1, Assumed DEF Right, Places
  <2>3. Rescanned' <=> Rescanned
    BY <1>1, <2>1, <2>2 DEF Rescanned
  <2>4. QED
    BY <1>2, <1>3, <2>1, <2>3, LoadMoves
<1>5. CASE Rescan(r)
  <2>1. /\ proc[r].at = "rescan" /\ proc'[r].at = "snapshot" /\ known' = disk
        /\ \A p \in Procs \ {r} : proc'[p] = proc[p]
    BY <1>1, <1>5 DEF Rescan, Goto, Local
  <2>2. QED
    BY <1>2, <1>3, <2>1, LoadMoves
<1>6. CASE Snapshot(r)
  <2> DEFINE snap == [i \in Ids |-> CASE i \in Files -> disk[i] [] i \in Keys -> keys[i] [] OTHER -> None]
  <2>1. /\ proc[r].at = "snapshot" /\ known' = known
        /\ proc' = [proc EXCEPT ![r].at = "prepare", ![r].over = Outstanding, ![r].snap = snap]
    BY <1>6 DEF Snapshot, Locals
  <2>2. /\ proc'[r].at = "prepare" /\ proc'[r].over = Outstanding /\ proc'[r].snap = snap
        /\ \A p \in Procs \ {r} : proc'[p] = proc[p]
    BY <1>1, <2>1 DEF Local
  <2>3. /\ \A f \in Files : snap[f] = disk[f]
        /\ \A k \in Keys : snap[k] = keys[k]
    BY Assumed
  <2>4. ASSUME NEW f \in Files \ Outstanding PROVE ~Coming(f) /\ File # f
    BY <2>4, Assumed DEF Outstanding, Coming
  <2>5. Rescanned' <=> Rescanned
    BY <1>1, <2>1, <2>2 DEF Rescanned
  <2>6. ASSUME NEW f \in Files \ Outstanding, Rescanned PROVE f \in raced \/ known[f] = disk[f]
    BY <2>4, <2>6 DEF DiskRight, KnownRight
  <2> HIDE DEF snap
  <2>7. /\ \A f \in Files \ proc'[r].over :
             /\ proc'[r].snap[f] = disk[f] /\ ~Coming(f) /\ File # f
             /\ Rescanned' => f \in raced \/ known'[f] = disk[f]
        /\ \A k \in Keys \ proc'[r].over : proc'[r].snap[k] = keys'[k]
    BY <1>2, <2>1, <2>2, <2>3, <2>4, <2>5, <2>6
  <2>8. QED
    BY <1>2, <1>3, <2>1, <2>2, <2>5, <2>7, LoadMoves
<1>7. QED
  BY <1>4, <1>5, <1>6

LEMMA PrepareSeen ==
  ASSUME Typed, DiskRight, NEW r \in Loads, Prepare(r)
  PROVE  DiskRight'
<1>1. /\ r \in Procs /\ r # Events /\ proc \in [Procs -> Local] /\ Right(r, proc[r])
      /\ Start \in Procs /\ Events \in Procs /\ proc[r].at = "prepare" /\ Loads \subseteq Procs
      /\ runtime \in [Runtimes -> Value] /\ SnapRight(r)
  BY Assumed DEF Loads, Typed, Prepare, DiskRight
<1> DEFINE new == [i \in Ids |-> IF i \in Runtimes THEN runtime[i] ELSE proc[r].snap[i]]
<1>2. /\ UNCHANGED <<disk, keys, runtime, events, known>> /\ raced' = Excused(r)
      /\ current' = new /\ Leave(r, Diff(new, proc[r].force))
  BY DEF Prepare, sources
<1>3. new \in [Ids -> Value] /\ proc[r].force \in BOOLEAN
  BY <1>1 DEF Local
<1>4. /\ \A w \in Runtimes : new[w] = runtime[w]
      /\ \A i \in Files \cup Keys : new[i] = proc[r].snap[i]
  BY Assumed
<1> HIDE DEF new
<1>5. Diff(new, proc[r].force) \in SUBSET Change /\ OneEach(Diff(new, proc[r].force))
  BY <1>3, DiffChange
<1>6. proc'[r].at \in {"dispatch", "done"} /\ \A q \in Procs \ {r} : proc'[q] = proc[q]
  BY <1>1, <1>2, <1>5, Leaves, AsleepIsRight
<1>7. /\ \A f : Coming(f)' <=> Coming(f)
      /\ (Rescanned' <=> Rescanned) /\ File' = File /\ proc'[Events] = proc[Events]
  BY <1>1, <1>2, <1>6 DEF Coming, Rescanned, File
<1>8. ASSUME NEW f \in Files \ raced'
      PROVE  /\ proc[r].snap[f] = disk[f]
             /\ Rescanned => known[f] = disk[f]
  BY <1>1, <1>2, <1>8 DEF Excused, SnapRight
<1>9. EventsRight'
  BY <1>2, <1>7 DEF DiskRight, EventsRight
<1>10. KnownRight'
  BY <1>2, <1>7, <1>8 DEF KnownRight
<1>11. ASSUME NEW q \in Loads PROVE SnapRight(q)'
  <2>1. CASE q = r
    BY <1>6, <2>1 DEF SnapRight
  <2>2. CASE q # r
    <3>1. SnapRight(q) /\ proc'[q] = proc[q]
      BY <1>1, <1>6, <2>2 DEF DiskRight
    <3>2. QED
      BY <1>2, <1>7, <1>8, <3>1 DEF SnapRight
  <2>3. QED
    BY <2>1, <2>2
<1>12. CurrentRight'
  <2>1. SUFFICES ASSUME ~Reloading' PROVE Rescanned
    <3>1. \A k \in Keys \ raced' : proc[r].snap[k] = keys[k]
      BY <1>1, <1>2 DEF Excused, SnapRight
    <3>2. QED
      BY <1>2, <1>4, <1>8, <2>1, <3>1 DEF CurrentRight
  <2>2. QED
    BY <1>7, <2>1 DEF Reloading, Rescanned, Loads
<1>13. QED
  BY <1>9, <1>10, <1>11, <1>12 DEF DiskRight

LEMMA OtherSeen ==
  ASSUME Typed, DiskRight,
         (\E p \in Calls : RuntimeUpdate(p)) \/ (\E p \in Procs : Dispatch(p)) \/ Deliver
         \/ UNCHANGED vars
  PROVE  DiskRight'
<1>1. /\ proc \in [Procs -> Local] /\ \A p \in Procs : Right(p, proc[p])
      /\ None \notin Files /\ Loads \subseteq Procs /\ Calls \subseteq Procs
      /\ Loads \cap Calls = {} /\ Events \notin Calls /\ Events \in Procs
      /\ current \in [Ids -> Value] /\ runtime \in [Runtimes -> Value]
  BY Assumed DEF Typed, Loads
<1>2. UNCHANGED <<disk, keys, events, known, raced>>
  BY DEF RuntimeUpdate, Dispatch, Deliver, NextBatch, Send, Receive, Loop, sources, vars
<1>3. ASSUME NEW p \in Calls, RuntimeUpdate(p) PROVE DiskRight'
  <2>1. PICK w \in Runtimes, c \in Value :
          /\ runtime' = [runtime EXCEPT ![w] = c] /\ current' = [current EXCEPT ![w] = c]
          /\ Leave(p, {Update(w, c)})
    BY <1>3 DEF RuntimeUpdate
  <2>2. {Update(w, c)} \in SUBSET Change /\ OneEach({Update(w, c)}) /\ w \in Ids
    BY Assumed DEF Update, Change, OneEach
  <2>3. \A q \in Procs \ {p} : proc'[q] = proc[q]
    BY <1>1, <2>1, <2>2, Leaves
  <2>4. proc'[Events] = proc[Events] /\ \A r \in Loads : proc'[r] = proc[r]
    BY <1>1, <2>3
  <2>5. /\ \A i \in Files \cup Keys : current'[i] = current[i]
        /\ \A v \in Runtimes : \/ current'[v] = current[v] /\ runtime'[v] = runtime[v]
                               \/ current'[v] = runtime'[v]
    BY <1>1, <2>1, <2>2, Assumed
  <2>6. QED
    BY <1>1, <1>2, <2>4, <2>5, NothingSeen
<1>4. ASSUME NEW p \in Procs, Dispatch(p) PROVE DiskRight'
  <2>1. UNCHANGED <<current, runtime>> /\ Drop(p) /\ proc[p].at = "dispatch"
    BY <1>4 DEF Dispatch, sources
  <2>2. proc'[p] = Asleep(p) /\ \A q \in Procs \ {p} : proc'[q] = proc[q]
    BY <1>1, <2>1 DEF Drop
  <2>3. Right(p, proc[p])
    BY <1>1
  <2>4. \A r \in Loads : \/ proc'[r] = proc[r]
                           \/ /\ proc[r].at \notin {"rescan", "filter", "snapshot", "prepare"}
                              /\ proc'[r].at = "done"
    <3>1. Events \notin Loads
      BY Assumed DEF Loads
    <3>2. QED
      BY <1>1, <2>1, <2>2, <3>1, AsleepIsRight
  <2>5. \/ proc'[Events] = proc[Events]
        \/ File' = None /\ File = None
    <3>1. CASE p = Events
      BY <2>1, <2>2, <2>3, <3>1 DEF File, Asleep, Rest, Right, FileSteps, Local
    <3>2. QED
      BY <1>1, <2>2, <3>1
  <2>6. /\ \A i \in Files \cup Keys : current'[i] = current[i]
        /\ \A v \in Runtimes : current'[v] = current[v] /\ runtime'[v] = runtime[v]
    BY <2>1
  <2>7. QED
    BY <1>1, <1>2, <2>4, <2>5, <2>6, NothingSeen
<1>5. ASSUME Deliver \/ UNCHANGED vars PROVE DiskRight'
  <2>1. UNCHANGED <<current, runtime, proc>>
    BY <1>5 DEF Deliver, NextBatch, Send, Receive, Loop, sources, vars
  <2>2. QED
    BY <1>1, <1>2, <2>1, NothingSeen
<1>6. QED
  BY <1>3, <1>4, <1>5

LEMMA DiskRightStep == Typed /\ DiskRight /\ [Next]_vars => DiskRight'
<1> SUFFICES ASSUME Typed, DiskRight, [Next]_vars PROVE DiskRight'
  OBVIOUS
<1>1. CASE UNCHANGED vars \/ (\E p \in Calls : RuntimeUpdate(p)) \/ (\E p \in Procs : Dispatch(p)) \/ Deliver
  BY <1>1, OtherSeen
<1>2. CASE \E f \in Files : Edit(f)
  BY <1>2, EditSeen
<1>3. CASE FileEvent
  BY <1>3, HandleEventSeen, FileStepSeen DEF FileEvent
<1>4. CASE \E r \in Reloads : Begin(r)
  BY <1>4, BeginSeen
<1>5. CASE \E r \in Loads : Reload(r)
  BY <1>5, ReloadSeen, PrepareSeen DEF Reload
<1>6. QED
  BY <1>1, <1>2, <1>3, <1>4, <1>5 DEF Next, Loads

LEMMA RestIsCurrent == Typed /\ DiskRight => CurrentFollowsDisk
<1> SUFFICES ASSUME Typed, DiskRight, Quiet
             PROVE  /\ \A i \in Files \ raced : current[i] = disk[i]
                    /\ \A i \in Keys \ raced : current[i] = keys[i]
                    /\ \A i \in Runtimes : current[i] = runtime[i]
  BY DEF CurrentFollowsDisk
<1>1. \A f : ~Coming(f)
  BY DEF Quiet, Coming, Range
<1>2. \A p \in Procs : proc[p].at \in {"idle", "begin", "done"}
  BY DEF Quiet
<1>3. Rescanned /\ ~Reloading
  BY <1>2, Assumed DEF Rescanned, Reloading, Loads
<1>4. File = None
  <2>1. Right(Events, proc[Events]) /\ proc[Events].at \notin FileSteps
    BY <1>2, Assumed DEF Typed, FileSteps
  <2>2. QED
    BY <2>1, Assumed DEF Right, Local, File
<1>5. QED
  BY <1>1, <1>3, <1>4, Assumed DEF DiskRight, KnownRight, CurrentRight

\* However file events, scans, reloads of the configuration and calls of runtime
\* providers interleave, at rest currentAuths has what the files, the
\* configuration and the runtime providers say, but for what is raced.
THEOREM CurrentFollows == Spec => []CurrentFollowsDisk
<1>1. Init => Typed /\ DiskRight
  BY InitTyped, InitDiskRight
<1>2. Typed /\ DiskRight /\ [Next]_vars => (Typed /\ DiskRight)'
  BY TypedStep, DiskRightStep
<1>3. QED
  BY <1>1, <1>2, RestIsCurrent, PTL DEF Spec
=============================================================================
