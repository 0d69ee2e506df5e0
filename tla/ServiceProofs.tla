--------------------------- MODULE ServiceProofs ---------------------------
(***************************************************************************)
(* The service around the queue.  JobClock: the active time is right at    *)
(* every moment of every history, for a clock of any length.  Webhooks:    *)
(* one announcement per completion, for any number of domains, handlers    *)
(* and retries.  Ingest: a download has what its preview said, for any     *)
(* file.  Provider keys: no pause for a key that was replaced, for any     *)
(* number of admins, handlers, changes and restarts.                       *)
(***************************************************************************)
EXTENDS JobClock, Webhooks, Ingest, ProviderKeys, FiniteSetTheorems, TLAPS

-----------------------------------------------------------------------------
(* The clock of a job                                                      *)

\* The types of a job's columns; no timestamp is in the future.
ClockType ==
  /\ clkStatus \in {"queued", "running", "paused", "done", "cancelled"}
  /\ clkStarted \in Int /\ clkFinished \in Int /\ clkPausedAt \in Int
  /\ clkPausedSeconds \in Int
  /\ clkNow \in Nat /\ clkRan \in Nat /\ clkLate \in Nat
  /\ \A t \in {clkStarted, clkFinished, clkPausedAt} : t = Null \/ (0 <= t /\ t <= clkNow)

\* Which columns are set in which status.
Columns ==
  /\ clkStatus = "queued" => clkStarted = Null
  /\ clkStatus = "done" => clkStarted # Null
  /\ clkPausedAt # Null <=> clkStatus = "paused"
  /\ clkFinished # Null <=> clkStatus \in {"done", "cancelled"}

\* The moment until which the time since the first claim is accounted for.
Until ==
  IF clkStatus = "paused" THEN Greatest(clkPausedAt, clkStarted)
  ELSE IF clkStatus \in {"done", "cancelled"} THEN clkFinished
  ELSE clkNow

\* The time since the first claim is in clkRan, booked as paused, or what retries took.
\* A claim that is late for a cancel starts a job that is over.
Accounts ==
  /\ clkStarted = Null => clkRan = 0 /\ clkLate = 0 /\ clkPausedSeconds = 0
  /\ clkStarted # Null =>
       \/ Until - clkStarted - clkPausedSeconds = clkRan + clkLate
       \/ clkStatus = "cancelled" /\ clkFinished < clkStarted
                                  /\ clkRan = 0 /\ clkPausedSeconds = 0

\* The inductive invariant of the clock.
ClockInv == ClockType /\ Columns /\ Accounts

\* Initially nothing has run and no column is set.
LEMMA ClockInvInit == ClockInit => ClockInv
BY DEF ClockInit, ClockInv, ClockType, Columns, Accounts, Until, Null, Greatest

\* Every statement that touches the columns keeps the accounts, and so does the
\* passing of time.
LEMMA ClockInvStep == ClockInv /\ [ClockNext]_clkVars => ClockInv'
<1> SUFFICES ASSUME ClockInv, [ClockNext]_clkVars PROVE ClockInv'
  OBVIOUS
<1> USE DEF ClockInv, ClockType, Columns, Accounts, Until, Null, Greatest
<1>1. CASE ClockTick
  BY <1>1 DEF ClockTick
<1>2. CASE ClaimMarks
  BY <1>2 DEF ClaimMarks
<1>3. CASE CompleteMarks
  BY <1>3 DEF CompleteMarks
<1>4. CASE PauseMarks
  BY <1>4 DEF PauseMarks
<1>5. CASE ResumeMarks
  BY <1>5 DEF ResumeMarks, Transition, PauseTime
<1>6. CASE CancelMarks
  BY <1>6 DEF CancelMarks, Transition, PauseTime
<1>7. ASSUME NEW began \in 0..clkNow, RetryMarks(began)
      PROVE  ClockInv'
  BY <1>7 DEF RetryMarks
<1>8. CASE UNCHANGED clkVars
  BY <1>8 DEF clkVars
<1>9. QED
  BY <1>1, <1>2, <1>3, <1>4, <1>5, <1>6, <1>7, <1>8 DEF ClockNext

\* The accounts say what the API's formula computes.
LEMMA ClockInvRight == ClockInv => ActiveTimeRight
BY DEF ClockInv, ClockType, Columns, Accounts, Until, Null, Greatest,
       ActiveTimeRight, active_seconds

\* active_seconds is the time spent running since the first claim, up to what retries
\* took, in every reachable state and for every bound of the clock and of the retries
\* (_active_seconds, _transition, requeue_failed and claim together).
THEOREM ActiveTimeIsRight == ClockSpec => []ActiveTimeRight
<1>1. ClockInit => ClockInv
  BY ClockInvInit
<1>2. ClockInv /\ [ClockNext]_clkVars => ClockInv'
  BY ClockInvStep
<1>3. ClockInv => ActiveTimeRight
  BY ClockInvRight
<1>4. QED
  BY <1>1, <1>2, <1>3, PTL DEF ClockSpec

-----------------------------------------------------------------------------
(* Provider keys                                                           *)

\* The keys a process may use.
KeyValues == NewKeys \cup {EnvKey, ""}

\* The types, and what is proved.
KeyInv ==
  /\ keyRow \in NewKeys \cup {NoKey}
  /\ keyMem \in [KeyProcs -> NewKeys \cup {NoKey, Unreadable}]
  /\ keyAdmin \in [Admins -> [st : {"idle", "save", "reload", "resume"},
                              key : NewKeys \cup {NoKey}, credit : BOOLEAN]]
  /\ keyTask \in [Handlers -> [st : {"idle", "crawl", "refused", "pausing"},
                               before : KeyValues, seen : KeyValues]]
  /\ PauseSeesTheKey

\* A process that loads the key uses the right one.
LEMMA LoadedIsRight ==
  ASSUME KeyInv, NEW p \in KeyProcs
  PROVE  /\ Loaded(p) \in NewKeys \cup {NoKey, Unreadable}
         /\ KeyOf(Loaded(p)) = Right(p)
         /\ Right(p) \in KeyValues /\ current(p) \in KeyValues
<1>1. keyMem[p] \in NewKeys \cup {NoKey, Unreadable}
  BY DEF KeyInv
<1>2. current(p) \in KeyValues
  BY <1>1 DEF current, KeyOf, KeyValues
<1>3. CASE keyRow = NoKey
  <2>1. Loaded(p) = NoKey /\ Right(p) = EnvKey
    BY <1>3 DEF Loaded, Right
  <2>2. KeyOf(NoKey) = EnvKey
    BY DEF KeyOf, NoKey, Unreadable
  <2>3. QED
    BY <1>2, <2>1, <2>2 DEF KeyValues
<1>4. CASE keyRow # NoKey /\ p \in keyMaster
  BY <1>2, <1>4, KeysAssumption DEF KeyInv, Loaded, KeyOf, Right, KeyValues
<1>5. CASE keyRow # NoKey /\ p \notin keyMaster
  <2>1. Loaded(p) = Unreadable /\ Right(p) = ""
    BY <1>5 DEF Loaded, Right
  <2>2. KeyOf(Unreadable) = ""
    BY DEF KeyOf, NoKey, Unreadable
  <2>3. QED
    BY <1>2, <2>1, <2>2 DEF KeyValues
<1>6. QED
  BY <1>3, <1>4, <1>5

\* Nothing is loaded or handled at the start.
LEMMA KeyInvInit == KeyInit => KeyInv
<1> SUFFICES ASSUME KeyInit PROVE KeyInv
  OBVIOUS
<1>1. keyRow \in NewKeys \cup {NoKey} /\ keyMem \in [KeyProcs -> NewKeys \cup {NoKey, Unreadable}]
  BY DEF KeyInit
<1>2. keyAdmin \in [Admins -> [st : {"idle", "save", "reload", "resume"},
                              key : NewKeys \cup {NoKey}, credit : BOOLEAN]]
  BY DEF KeyInit, NoChange
<1>3. /\ keyTask \in [Handlers -> [st : {"idle", "crawl", "refused", "pausing"},
                                  before : KeyValues, seen : KeyValues]]
      /\ PauseSeesTheKey
  BY DEF KeyInit, NoWork, KeyValues, PauseSeesTheKey
<1>4. QED
  BY <1>1, <1>2, <1>3 DEF KeyInv

\* A load, of the API or the worker, keeps the types.
LEMMA RefreshKeeps ==
  ASSUME KeyInv, NEW p \in KeyProcs, NEW reported, refresh(p, reported)
  PROVE  /\ keyMem' \in [KeyProcs -> NewKeys \cup {NoKey, Unreadable}]
         /\ keyMem'[p] = Loaded(p)
BY LoadedIsRight DEF refresh, KeyInv

\* A change of the key by an admin.
LEMMA AdminKeeps ==
  ASSUME KeyInv, NEW a \in Admins,
         \/ AdminStep(a) \/ Clear(a)
         \/ \E k \in NewKeys, accepted, credit \in BOOLEAN : Check(a, k, accepted, credit)
  PROVE  KeyInv'
<1>1. keyTask' = keyTask
  BY DEF AdminStep, Save, Resume, AdminReload, Clear, Check
<1>2. keyMem' \in [KeyProcs -> NewKeys \cup {NoKey, Unreadable}]
  BY RefreshKeeps, KeysAssumption
     DEF AdminStep, Save, Resume, AdminReload, Clear, Check, NotRefreshed, KeyInv
<1>3. keyRow' \in NewKeys \cup {NoKey}
  BY DEF AdminStep, Save, Resume, AdminReload, Clear, Check, KeyInv
<1>4. keyAdmin' \in [Admins -> [st : {"idle", "save", "reload", "resume"},
                                key : NewKeys \cup {NoKey}, credit : BOOLEAN]]
  <2> DEFINE Change == [st : {"idle", "save", "reload", "resume"},
                        key : NewKeys \cup {NoKey}, credit : BOOLEAN]
  <2>1. keyAdmin \in [Admins -> Change] /\ keyAdmin[a] \in Change
    BY DEF KeyInv
  <2>2. NoChange \in Change /\ [NoChange EXCEPT !.st = "reload"] \in Change
    BY Zenon DEF NoChange
  <2>3. \A st \in {"reload", "resume"} : [keyAdmin[a] EXCEPT !.st = st] \in Change
    BY <2>1
  <2>4. \A st : Admin(a, st) = [keyAdmin EXCEPT ![a] = [keyAdmin[a] EXCEPT !.st = st]]
    BY DEF Admin
  <2>5. \E c \in Change : keyAdmin' = [keyAdmin EXCEPT ![a] = c] \/ keyAdmin' = keyAdmin
    <3>1. CASE Save(a) \/ Resume(a) \/ Clear(a)
      BY <2>2, <2>3, <2>4, <3>1 DEF Save, Resume, Clear
    <3>2. ASSUME NEW reported \in BOOLEAN, AdminReload(a, reported)
          PROVE  \E c \in Change : keyAdmin' = [keyAdmin EXCEPT ![a] = c] \/ keyAdmin' = keyAdmin
      BY <2>2, <2>3, <2>4, <3>2, Zenon DEF AdminReload
    <3>3. ASSUME NEW k \in NewKeys, NEW accepted \in BOOLEAN, NEW credit \in BOOLEAN,
                 Check(a, k, accepted, credit)
          PROVE  \E c \in Change : keyAdmin' = [keyAdmin EXCEPT ![a] = c] \/ keyAdmin' = keyAdmin
      <4>1. [st |-> "save", key |-> k, credit |-> credit] \in Change
        OBVIOUS
      <4>2. QED
        BY <2>2, <3>3, <4>1 DEF Check
    <3>4. QED
      BY <3>1, <3>2, <3>3 DEF AdminStep
  <2>6. QED
    BY <2>1, <2>5
<1>5. QED
  BY <1>1, <1>2, <1>3, <1>4 DEF KeyInv, PauseSeesTheKey

\* A handler: it comes to pause only with the key that is right as it looks.
LEMMA HandlerKeeps ==
  ASSUME KeyInv, NEW h \in Handlers,
         \/ Begin(h) \/ Pause(h)
         \/ \E refused \in BOOLEAN : Crawled(h, refused)
         \/ \E reported \in BOOLEAN : HandlerReload(h, reported)
  PROVE  KeyInv'
<1> DEFINE Task == [st : {"idle", "crawl", "refused", "pausing"},
                    before : KeyValues, seen : KeyValues]
<1>1. keyRow' = keyRow /\ keyAdmin' = keyAdmin
  BY DEF Begin, Pause, Crawled, HandlerReload
<1>2. keyMem' \in [KeyProcs -> NewKeys \cup {NoKey, Unreadable}]
  BY RefreshKeeps, KeysAssumption DEF Begin, Pause, Crawled, HandlerReload, NotRefreshed, KeyInv
<1>3. PICK task \in Task : /\ keyTask' = [keyTask EXCEPT ![h] = task]
                           /\ task.st = "pausing" => task.before = task.seen
  <2>1. keyTask[h] \in Task /\ NoWork \in Task /\ NoWork.st # "pausing"
    BY DEF KeyInv, NoWork, KeyValues
  <2>2. CASE Begin(h)
    <3> DEFINE task == [NoWork EXCEPT !.st = "crawl", !.before = current("worker")]
    <3>1. current("worker") \in KeyValues
      BY LoadedIsRight, KeysAssumption
    <3>2. task \in Task /\ task.st # "pausing"
      BY <2>1, <3>1, Zenon
    <3>3. QED
      BY <2>2, <3>2, Zenon DEF Begin
  <2>3. CASE Pause(h)
    BY <2>1, <2>3, Zenon DEF Pause
  <2>4. ASSUME NEW refused \in BOOLEAN, Crawled(h, refused)
        PROVE  \E task \in Task : /\ keyTask' = [keyTask EXCEPT ![h] = task]
                                  /\ task.st = "pausing" => task.before = task.seen
    <3>1. /\ [keyTask[h] EXCEPT !.st = "refused"] \in Task
          /\ [keyTask[h] EXCEPT !.st = "refused"].st # "pausing"
      BY <2>1
    <3>2. QED
      BY <2>1, <2>4, <3>1, Zenon DEF Crawled
  <2>5. ASSUME NEW reported \in BOOLEAN, HandlerReload(h, reported)
        PROVE  \E task \in Task : /\ keyTask' = [keyTask EXCEPT ![h] = task]
                                  /\ task.st = "pausing" => task.before = task.seen
    <3>1. KeyOf(keyMem'["worker"]) = Right("worker") /\ Right("worker") \in KeyValues
      BY <2>5, RefreshKeeps, LoadedIsRight, KeysAssumption DEF HandlerReload
    <3>2. CASE Right("worker") # keyTask[h].before
      BY <2>1, <2>5, <3>1, <3>2, Zenon DEF HandlerReload
    <3>3. CASE Right("worker") = keyTask[h].before
      <4>1. keyTask' = [keyTask EXCEPT ![h].st = "pausing", ![h].seen = Right("worker")]
        BY <2>5, <3>1, <3>3 DEF HandlerReload
      <4> DEFINE task == [keyTask[h] EXCEPT !.st = "pausing", !.seen = Right("worker")]
      <4>2. task \in Task /\ task.before = task.seen
        BY <2>1, <3>1, <3>3, Zenon
      <4>3. keyTask' = [keyTask EXCEPT ![h] = task]
        BY <4>1, Zenon DEF KeyInv
      <4>4. QED
        BY <4>2, <4>3, Zenon
    <3>4. QED
      BY <3>2, <3>3
  <2>6. QED
    BY <2>2, <2>3, <2>4, <2>5
<1>4. QED
  BY <1>1, <1>2, <1>3 DEF KeyInv, PauseSeesTheKey

\* Every step keeps the invariant.
LEMMA KeyInvStep == KeyInv /\ [KeyNext]_keyVars => KeyInv'
<1> SUFFICES ASSUME KeyInv, [KeyNext]_keyVars PROVE KeyInv'
  OBVIOUS
<1>1. ASSUME NEW p \in KeyProcs, Expire(p) PROVE KeyInv'
  BY <1>1 DEF Expire, KeyInv, PauseSeesTheKey
<1>2. ASSUME NEW p \in KeyProcs, Restart(p) PROVE KeyInv'
  BY <1>2 DEF Restart, KeyInv, PauseSeesTheKey, NoChange, NoWork, KeyValues
<1>3. ASSUME NEW p \in KeyProcs, NEW reported \in BOOLEAN, RefreshLoop(p, reported) PROVE KeyInv'
  BY <1>3, RefreshKeeps DEF RefreshLoop, KeyInv, PauseSeesTheKey
<1>4. CASE UNCHANGED keyVars
  BY <1>4 DEF keyVars, KeyInv, PauseSeesTheKey
<1>5. QED
  BY <1>1, <1>2, <1>3, <1>4, AdminKeeps, HandlerKeeps DEF KeyNext

\* The jobs are paused only by a handler that had the right key when it looked,
\* however the admins' changes, the refreshers and the restarts fall in between
\* (handle, load_keys).
THEOREM PausesSeeTheKey == KeySpec => []PauseSeesTheKey
<1>1. KeyInv => PauseSeesTheKey
  BY DEF KeyInv
<1>2. QED
  BY <1>1, KeyInvInit, KeyInvStep, PTL DEF KeySpec

-----------------------------------------------------------------------------
(* The events of a job                                                     *)

\* A handler of the job.
HandlerRecord ==
  [st : {"off", "work", "recorded", "submit", "submit_job"}, dom : JobDomains \cup {""},
   last : BOOLEAN, age : Nat, counts : Nat, counted : Nat]

\* The types.
HookType ==
  /\ hookRow \in [JobDomains -> {"queued", "running", "done"}]
  /\ hookJob \in {"running", "done"}
  /\ hookTask \in [Slots -> HandlerRecord]
  /\ hookRetries \in Nat
  /\ hookJobDone \in Seq(HandlerRecord)

\* The counts are those of a finished job, or were taken after a retry.
CountsRight(e) == e.counts = Cardinality(JobDomains) \/ e.counted > e.age

\* A handler that finished the job and has not announced it yet.
HandlerOK(t) ==
  LET h == hookTask[t]
  IN  /\ h.st \in {"off", "work"} => ~h.last
      /\ h.st = "submit_job" => h.last
      /\ h.last => h.age <= hookRetries
      /\ h.last /\ h.st = "recorded" /\ h.age = hookRetries =>
           \A d \in JobDomains : hookRow[d] = "done"
      /\ h.last /\ h.st \in {"submit", "submit_job"} => CountsRight(h)

\* Each completion (the job may complete once per retry) has one handler or one
\* event; while the job is running, the next completion has none.
OneAnnouncer ==
  /\ \A t, u \in Slots : hookTask[t].last /\ hookTask[u].last
                         /\ hookTask[t].age = hookTask[u].age => t = u
  /\ \A t \in Slots, i \in 1..Len(hookJobDone) :
       hookTask[t].last => hookTask[t].age # hookJobDone[i].age
  /\ \A i, k \in 1..Len(hookJobDone) : hookJobDone[i].age = hookJobDone[k].age => i = k
  /\ hookJob = "running" =>
       /\ \A t \in Slots : hookTask[t].last => hookTask[t].age # hookRetries
       /\ \A i \in 1..Len(hookJobDone) : hookJobDone[i].age # hookRetries

\* The inductive invariant of the announcements.
HookInv ==
  /\ HookType /\ OneAnnouncer
  /\ \A t \in Slots : HandlerOK(t)
  /\ \A i \in 1..Len(hookJobDone) : hookJobDone[i].age <= hookRetries /\ CountsRight(hookJobDone[i])

\* No event and no handler at the start.
LEMMA HookInvInit == HookInit => HookInv
<1> SUFFICES ASSUME HookInit PROVE HookInv
  OBVIOUS
<1>1. NoHandler \in HandlerRecord /\ ~NoHandler.last /\ NoHandler.st = "off"
  BY DEF NoHandler, HandlerRecord
<1>2. /\ hookRow = [d \in JobDomains |-> "queued"] /\ hookJob = "running"
      /\ hookTask = [t \in Slots |-> NoHandler] /\ hookRetries = 0 /\ hookJobDone = <<>>
  BY DEF HookInit
<1>3. HookType
  BY <1>1, <1>2 DEF HookType
<1>4. \A t \in Slots : ~hookTask[t].last /\ hookTask[t].st = "off"
  BY <1>1, <1>2
<1>5. OneAnnouncer
  BY <1>2, <1>4 DEF OneAnnouncer
<1>6. \A t \in Slots : HandlerOK(t)
  BY <1>4 DEF HandlerOK
<1>7. QED
  BY <1>2, <1>3, <1>5, <1>6 DEF HookInv

\* A handler that only changes where it is.
LEMMA HandlerRecordStep ==
  ASSUME NEW h \in HandlerRecord,
         NEW st \in {"off", "work", "recorded", "submit", "submit_job"}
  PROVE  /\ [h EXCEPT !.st = st] \in HandlerRecord
         /\ [h EXCEPT !.st = st].st = st
         /\ [h EXCEPT !.st = st].last = h.last /\ [h EXCEPT !.st = st].age = h.age
         /\ [h EXCEPT !.st = st].counts = h.counts /\ [h EXCEPT !.st = st].counted = h.counted
BY DEF HandlerRecord

\* A step that sets the record of one handler that announces nothing new, and
\* does not undo a result.
LEMMA OneHandler ==
  ASSUME HookInv, NEW t \in Slots, NEW h \in HandlerRecord,
         hookTask' = [hookTask EXCEPT ![t] = h],
         UNCHANGED <<hookJob, hookRetries, hookJobDone>>,
         hookRow' \in [JobDomains -> {"queued", "running", "done"}],
         (\A d \in JobDomains : hookRow[d] = "done") => \A d \in JobDomains : hookRow'[d] = "done",
         h.last => hookTask[t].last /\ h.age = hookTask[t].age,
         HandlerOK(t)'
  PROVE  HookInv'
<1>1. HookType'
  BY DEF HookInv, HookType
<1>2. hookTask'[t] = h /\ \A u \in Slots : u # t => hookTask'[u] = hookTask[u]
  BY DEF HookInv, HookType
<1>3. OneAnnouncer'
  BY <1>2 DEF HookInv, OneAnnouncer
<1>4. ASSUME NEW u \in Slots PROVE HandlerOK(u)'
  BY <1>2 DEF HookInv, HandlerOK, CountsRight
<1>5. QED
  BY <1>1, <1>3, <1>4 DEF HookInv, CountsRight

\* claim: its row was not done, so nobody counts on it.
LEMMA ClaimKeepsHooks ==
  ASSUME HookInv, NEW t \in Slots, NEW d \in JobDomains, ClaimRow(t, d)
  PROVE  HookInv'
<1> DEFINE h == [hookTask[t] EXCEPT !.st = "work", !.dom = d]
<1>1. hookTask[t] \in HandlerRecord /\ hookTask \in [Slots -> HandlerRecord]
      /\ hookTask[t].st = "off" /\ ~hookTask[t].last
  BY DEF HookInv, HookType, HandlerOK, ClaimRow
<1>2. h \in HandlerRecord /\ ~h.last /\ h.st = "work"
  BY <1>1 DEF HandlerRecord
<1>3. hookTask' = [hookTask EXCEPT ![t] = h]
  BY <1>1, Zenon DEF ClaimRow
<1> HIDE DEF h
<1>4. /\ hookRow' \in [JobDomains -> {"queued", "running", "done"}]
      /\ hookRow[d] # "done"
  BY DEF ClaimRow, HookInv, HookType
<1>5. HandlerOK(t)'
  BY <1>1, <1>2, <1>3 DEF HandlerOK
<1>6. UNCHANGED <<hookJob, hookRetries, hookJobDone>>
  BY DEF ClaimRow
<1>7. QED
  BY <1>2, <1>3, <1>4, <1>5, <1>6, OneHandler, Zenon

\* finish: the handler that completes the job is the only one for this completion.
LEMMA FinishKeepsHooks ==
  ASSUME HookInv, NEW t \in Slots, FinishRow(t)
  PROVE  HookInv'
<1> DEFINE rows == [hookRow EXCEPT ![hookTask[t].dom] = "done"]
           b == JobFinished(rows)
           h == [hookTask[t] EXCEPT !.st = "recorded", !.last = b, !.age = hookRetries]
<1>1. /\ hookTask[t] \in HandlerRecord /\ hookTask[t].st = "work"
      /\ hookTask \in [Slots -> HandlerRecord] /\ hookRetries \in Nat
  BY DEF HookInv, HookType, FinishRow
<1>2. b \in BOOLEAN /\ (b => hookJob = "running" /\ \A d \in JobDomains : rows[d] = "done")
  BY DEF JobFinished
<1>3. hookRow' = rows /\ hookJob' = IF b THEN "done" ELSE hookJob
  BY DEF FinishRow
<1>4. hookTask' = [hookTask EXCEPT ![t] = h] /\ UNCHANGED <<hookRetries, hookJobDone>>
  BY <1>1 DEF FinishRow
<1>5. /\ rows \in [JobDomains -> {"queued", "running", "done"}]
      /\ \A d \in JobDomains : rows[d] \in {hookRow[d], "done"}
  BY Zenon DEF HookInv, HookType
<1> HIDE DEF b, rows
<1>6. h \in HandlerRecord /\ h.st = "recorded" /\ h.last = b /\ h.age = hookRetries
  BY <1>1, <1>2 DEF HandlerRecord
<1> HIDE DEF h
<1>7. hookTask'[t] = h /\ \A u \in Slots : u # t => hookTask'[u] = hookTask[u]
  BY <1>1, <1>4
<1>8. HookType'
  BY <1>1, <1>3, <1>4, <1>5, <1>6 DEF HookInv, HookType
<1>9. OneAnnouncer'
  <2>1. CASE b
    BY <1>2, <1>3, <1>4, <1>6, <1>7, <2>1 DEF HookInv, OneAnnouncer
  <2>2. CASE ~b
    BY <1>2, <1>3, <1>4, <1>6, <1>7, <2>2 DEF HookInv, OneAnnouncer
  <2>3. QED
    BY <2>1, <2>2
<1>10. HandlerOK(t)'
  BY <1>1, <1>2, <1>3, <1>4, <1>6, <1>7 DEF HandlerOK
<1>11. ASSUME NEW u \in Slots, u # t PROVE HandlerOK(u)'
  <2>1. HandlerOK(u)
    BY DEF HookInv
  <2>2. (\A d \in JobDomains : hookRow[d] = "done") => \A d \in JobDomains : hookRow'[d] = "done"
    BY <1>3, <1>5
  <2>3. QED
    BY <1>4, <1>7, <1>11, <2>1, <2>2 DEF HandlerOK, CountsRight
<1>12. QED
  BY <1>4, <1>8, <1>9, <1>10, <1>11 DEF HookInv, CountsRight

\* job_counts: with no retry since the completion every domain is counted.
LEMMA CountsKeepHooks ==
  ASSUME HookInv, NEW t \in Slots, ReadCounts(t)
  PROVE  HookInv'
<1> DEFINE Done == {d \in JobDomains : hookRow[d] = "done"}
           n == Cardinality(Done)
           h == [hookTask[t] EXCEPT !.st = "submit", !.counted = hookRetries, !.counts = n]
           g == [hookTask[t] EXCEPT !.st = "submit"]
<1>1. /\ hookTask[t] \in HandlerRecord /\ hookTask[t].st = "recorded" /\ HandlerOK(t)
      /\ hookTask \in [Slots -> HandlerRecord] /\ hookRetries \in Nat
  BY DEF HookInv, HookType, ReadCounts
<1>2. n \in Nat
  BY JobDomainsAssumption, FS_Subset, FS_CardinalityType
<1>3. hookTask[t].last /\ hookTask[t].age = hookRetries => n = Cardinality(JobDomains)
  <2>1. hookTask[t].last /\ hookTask[t].age = hookRetries => Done = JobDomains
    BY <1>1 DEF HandlerOK
  <2>2. QED
    BY <2>1
<1> HIDE DEF n
<1>4. /\ hookRow' \in [JobDomains -> {"queued", "running", "done"}] /\ hookRow' = hookRow
      /\ UNCHANGED <<hookJob, hookRetries, hookJobDone>>
  BY DEF ReadCounts, HookInv, HookType
<1>5. CASE hookTask[t].last
  <2>1. hookTask' = [hookTask EXCEPT ![t] = h]
    BY <1>1, <1>5, Zenon DEF ReadCounts, n
  <2>2. /\ h \in HandlerRecord /\ h.st = "submit" /\ h.last = hookTask[t].last
        /\ h.age = hookTask[t].age /\ h.counts = n /\ h.counted = hookRetries
    BY <1>1, <1>2 DEF HandlerRecord
  <2> HIDE DEF h
  <2>3. hookTask[t].age \in Nat /\ hookTask[t].age <= hookRetries
    BY <1>1, <1>5 DEF HandlerRecord, HandlerOK
  <2>4. CountsRight(h)
    BY <1>1, <1>3, <1>5, <2>2, <2>3 DEF CountsRight
  <2>5. HandlerOK(t)'
    BY <1>1, <1>4, <2>1, <2>2, <2>3, <2>4 DEF HandlerOK, CountsRight
  <2>6. QED
    BY <1>1, <1>4, <2>1, <2>2, <2>5, OneHandler, Zenon
<1>6. CASE ~hookTask[t].last
  <2>1. hookTask' = [hookTask EXCEPT ![t] = g]
    BY <1>1, <1>6 DEF ReadCounts, Handling
  <2>2. g \in HandlerRecord /\ g.st = "submit" /\ g.last = hookTask[t].last
    BY <1>1, HandlerRecordStep, Zenon
  <2> HIDE DEF g
  <2>3. HandlerOK(t)'
    BY <1>1, <1>6, <2>1, <2>2 DEF HandlerOK
  <2>4. QED
    BY <1>1, <1>4, <1>6, <2>1, <2>2, <2>3, OneHandler, Zenon
<1>7. QED
  BY <1>5, <1>6

\* submit, of the domain's event: the handler goes on to the job's, or ends.
LEMMA SubmitDomainKeepsHooks ==
  ASSUME HookInv, NEW t \in Slots, SubmitDomain(t)
  PROVE  HookInv'
<1> DEFINE g == [hookTask[t] EXCEPT !.st = "submit_job"]
<1>1. /\ hookTask[t] \in HandlerRecord /\ hookTask[t].st = "submit" /\ HandlerOK(t)
      /\ hookTask \in [Slots -> HandlerRecord] /\ hookRetries \in Nat
  BY DEF HookInv, HookType, SubmitDomain
<1>2. /\ hookRow' \in [JobDomains -> {"queued", "running", "done"}] /\ hookRow' = hookRow
      /\ UNCHANGED <<hookJob, hookRetries, hookJobDone>>
  BY DEF SubmitDomain, HookInv, HookType
<1>3. CASE hookTask[t].last
  <2>1. hookTask' = [hookTask EXCEPT ![t] = g]
    BY <1>1, <1>3 DEF SubmitDomain, Handling
  <2>2. /\ g \in HandlerRecord /\ g.st = "submit_job" /\ g.last = hookTask[t].last
        /\ g.age = hookTask[t].age /\ g.counts = hookTask[t].counts
        /\ g.counted = hookTask[t].counted
    BY <1>1, HandlerRecordStep, Zenon
  <2> HIDE DEF g
  <2>3. HandlerOK(t)'
    BY <1>1, <1>2, <1>3, <2>1, <2>2, Zenon DEF HandlerOK, CountsRight
  <2>4. QED
    BY <1>1, <1>2, <2>1, <2>2, <2>3, OneHandler, Zenon
<1>4. CASE ~hookTask[t].last
  <2>1. hookTask' = [hookTask EXCEPT ![t] = NoHandler]
    BY <1>4 DEF SubmitDomain
  <2>2. NoHandler \in HandlerRecord /\ ~NoHandler.last /\ NoHandler.st = "off"
    BY DEF NoHandler, HandlerRecord
  <2>3. HandlerOK(t)'
    BY <1>1, <2>1, <2>2 DEF HandlerOK
  <2>4. QED
    BY <1>2, <2>1, <2>2, <2>3, OneHandler, Zenon
<1>5. QED
  BY <1>3, <1>4

\* submit, of the job's event: what the handler had to announce is announced.
LEMMA SubmitJobKeepsHooks ==
  ASSUME HookInv, NEW t \in Slots, SubmitJob(t)
  PROVE  HookInv'
<1> DEFINE e == hookTask[t]
           N == Len(hookJobDone)
<1>1. /\ e \in HandlerRecord /\ e.st = "submit_job" /\ HandlerOK(t)
      /\ hookTask \in [Slots -> HandlerRecord] /\ hookRetries \in Nat
      /\ hookJobDone \in Seq(HandlerRecord)
  BY DEF HookInv, HookType, SubmitJob
<1>2. e.last /\ e.age <= hookRetries /\ CountsRight(e)
  BY <1>1 DEF HandlerOK
<1>3. NoHandler \in HandlerRecord /\ ~NoHandler.last /\ NoHandler.st = "off"
  BY DEF NoHandler, HandlerRecord
<1>4. /\ hookJobDone' = Append(hookJobDone, e) /\ UNCHANGED <<hookRow, hookJob, hookRetries>>
      /\ hookTask' = [hookTask EXCEPT ![t] = NoHandler]
  BY DEF SubmitJob
<1>5. /\ Len(hookJobDone') = N + 1 /\ hookJobDone'[N + 1] = e
      /\ \A i \in 1..N : hookJobDone'[i] = hookJobDone[i]
      /\ hookJobDone' \in Seq(HandlerRecord) /\ N \in Nat
  BY <1>1, <1>4
<1>6. hookTask'[t] = NoHandler /\ \A u \in Slots : u # t => hookTask'[u] = hookTask[u]
  BY <1>1, <1>4
<1>7. HookType'
  BY <1>1, <1>3, <1>4, <1>5 DEF HookInv, HookType
<1>8. \A i \in 1..Len(hookJobDone') : i \in 1..N \/ i = N + 1
  BY <1>5
<1> HIDE DEF e, N
<1>9. OneAnnouncer'
  <2>1. \A u \in Slots : hookTask[u].last => u = t \/ hookTask[u].age # e.age
    BY <1>2 DEF HookInv, OneAnnouncer, e
  <2>2. \A i \in 1..N : hookJobDone[i].age # e.age
    BY <1>2 DEF HookInv, OneAnnouncer, e, N
  <2>3. hookJob = "running" => e.age # hookRetries
    BY <1>2 DEF HookInv, OneAnnouncer, e
  <2>4. QED
    BY <1>3, <1>4, <1>5, <1>6, <1>8, <2>1, <2>2, <2>3, SMTT(30) DEF HookInv, OneAnnouncer, N
<1>10. ASSUME NEW u \in Slots PROVE HandlerOK(u)'
  BY <1>3, <1>4, <1>6 DEF HookInv, HandlerOK, CountsRight
<1>11. \A i \in 1..Len(hookJobDone') :
         hookJobDone'[i].age <= hookRetries' /\ CountsRight(hookJobDone[i])'
  BY <1>2, <1>4, <1>5, <1>8 DEF HookInv, CountsRight, N
<1>12. QED
  BY <1>7, <1>9, <1>10, <1>11 DEF HookInv

\* A retry: the next completion is a new one.
LEMMA RetryKeepsHooks ==
  ASSUME HookInv, NEW D \in SUBSET JobDomains, RetryFailed(D)
  PROVE  HookInv'
<1>1. /\ hookRetries \in Nat /\ hookTask \in [Slots -> HandlerRecord]
      /\ hookJobDone \in Seq(HandlerRecord)
  BY DEF HookInv, HookType
<1>2. /\ hookRetries' = hookRetries + 1 /\ hookJob' = "running"
      /\ UNCHANGED <<hookTask, hookJobDone>>
  BY DEF RetryFailed
<1>3. HookType'
  BY <1>1, <1>2 DEF HookInv, HookType, RetryFailed
<1>4. \A t \in Slots : hookTask[t].age \in Nat
  BY <1>1 DEF HandlerRecord
<1>5. \A i \in 1..Len(hookJobDone) : hookJobDone[i].age \in Nat /\ hookJobDone[i].age <= hookRetries
  <2>1. \A i \in 1..Len(hookJobDone) : hookJobDone[i] \in HandlerRecord
    BY <1>1, SMTT(30)
  <2>2. QED
    BY <2>1 DEF HookInv, HandlerRecord
<1>6. OneAnnouncer'
  BY <1>1, <1>2, <1>4, <1>5 DEF HookInv, OneAnnouncer, HandlerOK
<1>7. ASSUME NEW t \in Slots PROVE HandlerOK(t)'
  BY <1>1, <1>2, <1>4 DEF HookInv, HandlerOK, CountsRight
<1>8. \A i \in 1..Len(hookJobDone') :
        hookJobDone'[i].age <= hookRetries' /\ CountsRight(hookJobDone[i])'
  BY <1>1, <1>2, <1>5 DEF HookInv, CountsRight
<1>9. QED
  BY <1>3, <1>6, <1>7, <1>8 DEF HookInv

\* A stop: the handlers are gone, and what they had not announced never is.
LEMMA StopKeepsHooks ==
  ASSUME HookInv, Stop
  PROVE  HookInv'
<1>1. NoHandler \in HandlerRecord /\ ~NoHandler.last /\ NoHandler.st = "off"
  BY DEF NoHandler, HandlerRecord
<1>2. /\ hookTask' = [t \in Slots |-> NoHandler]
      /\ UNCHANGED <<hookJob, hookRetries, hookJobDone>>
      /\ hookRow' \in [JobDomains -> {"queued", "running", "done"}]
  BY DEF Stop, HookInv, HookType
<1>3. HookType'
  BY <1>1, <1>2 DEF HookInv, HookType
<1>4. OneAnnouncer'
  BY <1>1, <1>2 DEF HookInv, OneAnnouncer
<1>5. \A t \in Slots : HandlerOK(t)'
  BY <1>1, <1>2 DEF HandlerOK
<1>6. QED
  BY <1>2, <1>3, <1>4, <1>5 DEF HookInv, CountsRight

\* Every step of handlers, senders, owner and shutdown.
LEMMA HookInvStep == HookInv /\ [HookNext]_hookVars => HookInv'
<1> SUFFICES ASSUME HookInv, [HookNext]_hookVars PROVE HookInv'
  OBVIOUS
<1>1. ASSUME NEW t \in Slots, HandlerStep(t) PROVE HookInv'
  BY <1>1, FinishKeepsHooks, CountsKeepHooks, SubmitDomainKeepsHooks, SubmitJobKeepsHooks, SMTT(30)
     DEF HandlerStep
<1>2. ASSUME UNCHANGED <<hookRow, hookJob, hookTask, hookRetries, hookJobDone>> PROVE HookInv'
  BY <1>2 DEF HookInv, HookType, OneAnnouncer, HandlerOK, CountsRight
<1>3. ASSUME NEW s \in Senders, SenderStep(s) PROVE HookInv'
  BY <1>2, <1>3 DEF SenderStep, SenderGets, deliver
<1>4. CASE Close
  BY <1>2, <1>4 DEF Close
<1>5. CASE UNCHANGED hookVars
  BY <1>2, <1>5 DEF hookVars
<1>6. QED
  BY <1>1, <1>3, <1>4, <1>5, ClaimKeepsHooks, RetryKeepsHooks, StopKeepsHooks DEF HookNext

\* One job.done event per completion, with the counts of a finished job unless the
\* owner had already retried it, wherever handlers, retries and stops fall between
\* finish, job_counts and submit.
THEOREM OneEventPerCompletion == HookSpec => []JobDoneEvents
<1>1. HookInv => JobDoneEvents
  <2> SUFFICES ASSUME HookInv PROVE JobDoneEvents
    OBVIOUS
  <2>1. DOMAIN hookJobDone = 1..Len(hookJobDone)
    BY DEF HookInv, HookType
  <2>2. QED
    BY <2>1 DEF HookInv, OneAnnouncer, CountsRight, JobDoneEvents
<1>2. QED
  BY <1>1, HookInvInit, HookInvStep, PTL DEF HookSpec

-----------------------------------------------------------------------------
(* The preview of a file and the download of its job                       *)

\* What the file holds, and the column that is read for the column asked for.
Parsed == parse(ingFile)
Guess == detect_column(Parsed)
Column == Chosen(Guess, ingColumn)
Items == normalize_column(Parsed, Column, Derives(Guess, Column))

\* A preview tells about Items.
PreviewRight ==
  Column # NoColumn =>
    /\ ingPreview.rows = Len(Parsed.rows)
    /\ ingPreview.unique = Cardinality(Domains(Items))
    /\ ingPreview.invalid = Cardinality({i \in DOMAIN Items : ~Valid(Items[i])})
    /\ ingPreview.samples = [i \in {k \in DOMAIN Items : k <= 5} |-> Items[i].domain]

\* What was previewed and what was created are from the file.
IngestInv ==
  /\ ingFile \in Uploads
  /\ ingStep \in {"preview", "create", "download", "over"}
  /\ ingStep # "over" => ingRows = <<>>
  /\ ingStep \in {"create", "download"} =>
       Parsed.error = "none" /\ PreviewRight /\ ingPreview.column = Column
  /\ ingStep = "download" => Column # NoColumn /\ ingItems = Items
  /\ PreviewAgrees

\* A file that is not refused is a sequence of rows.
LEMMA ParsedRows ==
  ASSUME NEW file \in Uploads, parse(file).error = "none"
  PROVE  Len(parse(file).rows) \in Nat /\ DOMAIN parse(file).rows = 1..Len(parse(file).rows)
<1> DEFINE Row == Seq([name : STRING, frags : Seq([mail : BOOLEAN, host : STRING, key : STRING])])
           first == Trimmed(file[1])
           had == looks_like_header(first)
           headers == [i \in DOMAIN first |->
                         IF had /\ first[i].frags # <<>> THEN first[i].name ELSE ColumnName[i]]
           body == IF had THEN Tail(file) ELSE file
           rows == [i \in DOMAIN body |-> to_row(headers, body[i])]
<1>1. file \in Seq(Row)
  BY UploadsAssumption
<1>2. file # <<>>
  BY DEF parse
<1>3. parse(file) = [error |-> "none", headers |-> headers, rows |-> rows]
  BY <1>2 DEF parse
<1> HIDE DEF had, headers, Row
<1>4. body \in Seq(Row)
  BY <1>1, <1>2
<1> HIDE DEF body
<1>5. Len(body) \in Nat /\ DOMAIN body = 1..Len(body)
  BY <1>4
<1>6. DOMAIN rows = 1..Len(body) /\ Len(rows) = Len(body)
  BY <1>5
<1> HIDE DEF rows
<1>7. parse(file).rows = rows
  BY <1>3
<1>8. QED
  BY <1>5, <1>6, <1>7

\* Nothing is previewed at first.
LEMMA IngestInvInit == IngestInit => IngestInv
BY DEF IngestInit, IngestInv, PreviewAgrees

\* The column the preview showed leads a request to the column it was made for.
LEMMA SameColumn ==
  ASSUME NEW asked \in {ingColumn, Column}
  PROVE  Chosen(Guess, asked) = Column
BY DEF Column, Chosen

\* POST /preview keeps the invariant.
LEMMA PreviewKeepsIngest ==
  ASSUME IngestInv, Preview
  PROVE  IngestInv'
<1>1. Parsed' = Parsed /\ Guess' = Guess /\ Column' = Column /\ Items' = Items
  BY Zenon DEF Preview, Parsed, Guess, Column, Items
<1>2. ingRows' = <<>> /\ ingFile' \in Uploads
  BY ZenonT(30) DEF Preview, IngestInv
<1>3. PreviewAgrees'
  BY <1>2 DEF PreviewAgrees
<1>4. CASE ingStep' = "over"
  BY <1>2, <1>3, <1>4, Zenon DEF IngestInv
<1>5. CASE ingStep' # "over"
  <2> DEFINE items == IF Column = NoColumn THEN <<>> ELSE Items
  <2>1. ingStep' = "create" /\ ~Refused(Parsed, ingColumn)
    BY <1>5, Zenon DEF Preview, Parsed
  <2>2. ingPreview' = [error |-> "none", column |-> Column, rows |-> Len(Parsed.rows),
                       unique |-> Cardinality(Domains(items)),
                       invalid |-> Cardinality({i \in DOMAIN items : ~Valid(items[i])}),
                       samples |-> [i \in {k \in DOMAIN items : k <= 5} |-> items[i].domain]]
    BY <2>1, Zenon DEF Preview, Parsed, Guess, Column, Items
  <2>3. Parsed.error = "none"
    BY <2>1 DEF Refused
  <2>4. Column # NoColumn => items = Items
    OBVIOUS
  <2> HIDE DEF items
  <2>5. PreviewRight'
    BY <1>1, <2>2, <2>4 DEF PreviewRight
  <2>6. (ingPreview.column)' = Column
    BY <2>2
  <2>7. QED
    BY <1>1, <1>2, <1>3, <2>1, <2>3, <2>5, <2>6, Zenon DEF IngestInv
<1>6. QED
  BY <1>4, <1>5

\* POST /jobs keeps the invariant.
LEMMA CreateKeepsIngest ==
  ASSUME IngestInv, NEW asked, Create(asked)
  PROVE  IngestInv'
<1>1. Parsed' = Parsed /\ Guess' = Guess /\ Column' = Column /\ Items' = Items
  BY Zenon DEF Create, Parsed, Guess, Column, Items
<1>2. ingRows' = <<>> /\ ingFile' \in Uploads /\ ingPreview' = ingPreview
  BY DEF Create, IngestInv
<1>3. PreviewAgrees'
  BY <1>2 DEF PreviewAgrees
<1>4. Parsed.error = "none" /\ PreviewRight /\ ingPreview.column = Column
  BY DEF Create, IngestInv
<1>5. Chosen(Guess, asked) = Column
  BY <1>4, SameColumn DEF Create
<1>6. CASE ingStep' = "over"
  BY <1>2, <1>3, <1>6 DEF IngestInv
<1>7. CASE ingStep' # "over"
  <2>1. ingStep' = "download" /\ Column # NoColumn /\ ingItems' = Items
    BY <1>5, <1>7 DEF Create, Parsed, Guess, Items, prepare_items
  <2>2. PreviewRight'
    BY <1>1, <1>2, <1>4 DEF PreviewRight
  <2>3. QED
    BY <1>1, <1>2, <1>3, <1>4, <2>1, <2>2, SMTT(30) DEF IngestInv
<1>8. QED
  BY <1>6, <1>7

\* A download keeps the invariant.
LEMMA DownloadKeepsIngest ==
  ASSUME IngestInv, NEW done, Download(done)
  PROVE  IngestInv'
<1>1. /\ ingFile \in Uploads /\ Parsed.error = "none" /\ PreviewRight
      /\ Column # NoColumn /\ ingItems = Items /\ ingPreview' = ingPreview
  BY DEF Download, IngestInv
<1>2. DOMAIN Items = DOMAIN Parsed.rows
  BY DEF Items, normalize_column
<1>3. Len(Parsed.rows) \in Nat /\ DOMAIN Parsed.rows = 1..Len(Parsed.rows)
  BY <1>1, ParsedRows DEF Parsed
<1>4. DOMAIN ingRows' = DOMAIN Items /\ Len(ingRows') = Len(Parsed.rows)
  BY <1>1, <1>2, <1>3 DEF Download
<1>5. ASSUME NEW i \in DOMAIN Items
      PROVE  /\ Valid(Items[i]) => ingRows'[i].domain = Items[i].domain
             /\ ingRows'[i].status = "invalid_input" <=> ~Valid(Items[i])
  BY <1>1, <1>5 DEF Download
<1>6. {i \in DOMAIN ingRows' : ingRows'[i].status = "invalid_input"}
        = {i \in DOMAIN Items : ~Valid(Items[i])}
  BY <1>4, <1>5
<1>7. {ingRows'[i].domain : i \in {k \in DOMAIN ingRows' : ingRows'[k].status # "invalid_input"}}
        = Domains(Items)
  BY <1>4, <1>5 DEF Domains
<1>8. \A i \in DOMAIN ingPreview.samples :
         i \in DOMAIN Items /\ ingPreview.samples[i] = Items[i].domain
  BY <1>1 DEF PreviewRight
<1>9. PreviewAgrees'
  BY <1>1, <1>4, <1>5, <1>6, <1>7, <1>8 DEF PreviewAgrees, PreviewRight, Valid
<1>10. ingStep' = "over" /\ ingFile' = ingFile
  BY DEF Download
<1>11. QED
  BY <1>1, <1>9, <1>10 DEF IngestInv

\* Every step keeps the invariant.
LEMMA IngestInvStep == IngestInv /\ [IngestNext]_ingVars => IngestInv'
<1> SUFFICES ASSUME IngestInv, [IngestNext]_ingVars PROVE IngestInv'
  OBVIOUS
<1>1. CASE UNCHANGED ingVars
  BY <1>1, ZenonT(30) DEF ingVars, IngestInv, PreviewRight, PreviewAgrees, Parsed, Guess, Column, Items
<1>2. QED
  BY <1>1, PreviewKeepsIngest, CreateKeepsIngest, DownloadKeepsIngest DEF IngestNext

\* What a preview told about a file is what the download of its job contains, for
\* every file, whichever column is named and however many domains are finished:
\* POST /jobs reads the column the preview read, by the same rule.
THEOREM DownloadIsAsPreviewed == IngestSpec => []PreviewAgrees
<1>1. IngestInv => PreviewAgrees
  BY DEF IngestInv
<1>2. QED
  BY <1>1, IngestInvInit, IngestInvStep, PTL DEF IngestSpec

=============================================================================
