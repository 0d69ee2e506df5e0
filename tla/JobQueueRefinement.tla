------------------------- MODULE JobQueueRefinement -------------------------
(***************************************************************************)
(* JobQueue implements JobLifecycle, for every value of the constants:     *)
(* each transaction of the queue, the workers and the API is one step of a *)
(* job's life cycle or changes nothing a user sees.  What the life cycle   *)
(* promises of done and cancelled jobs and of answers then holds of the    *)
(* queue.  The last part is about the timestamps, which the life cycle     *)
(* does not show.                                                          *)
(***************************************************************************)
EXTENDS JobQueueProofs

USE DEF JobStatuses, ActiveStatuses

\* A handler on its way to finish carries a result.
Finishing(h) == h.phase = "finish" \/ (h.phase = "unlock" /\ h.next = "finish")

\* A handler about to finish has a result.
ResultsReady == \A t \in Tokens : Finishing(handlers[t]) => handlers[t].result \in Results

-----------------------------------------------------------------------------
(* Handlers and their results.                                             *)

\* A change of one handler is safe when the changed one is not about to finish
\* without a result.
LEMMA ReadyOne ==
  ASSUME TypeOK, ResultsReady, NEW t \in Tokens, NEW h, handlers' = [handlers EXCEPT ![t] = h],
         Finishing(h) => h.result \in Results
  PROVE  ResultsReady'
BY DEF TypeOK, ResultsReady

\* Moving on to anything but an unlock or a finish.
LEMMA ReadyGo ==
  ASSUME TypeOK, ResultsReady, NEW t \in Tokens, NEW p \in Phases \ {"finish", "unlock"},
         Go(t, p)
  PROVE  ResultsReady'
<1> DEFINE h == [handlers[t] EXCEPT !.phase = p]
<1>1. handlers[t] \in Handler /\ handlers' = [handlers EXCEPT ![t] = h]
  BY DEF TypeOK, Go
<1>2. h.phase = p
  BY <1>1 DEF Handler
<1> HIDE DEF h
<1> QED
  BY <1>1, <1>2, ReadyOne, Zenon DEF Finishing

\* Turning to an unlock on the way to a requeue.
LEMMA ReadyUnlock ==
  ASSUME TypeOK, ResultsReady, NEW t \in Tokens, NEW n \in Nexts \ {"finish"}, GoUnlock(t, n)
  PROVE  ResultsReady'
<1> DEFINE h == [handlers[t] EXCEPT !.phase = "unlock", !.next = n]
<1>1. handlers[t] \in Handler /\ handlers' = [handlers EXCEPT ![t] = h]
  BY Zenon DEF TypeOK, GoUnlock
<1>2. h.phase = "unlock" /\ h.next = n
  BY <1>1 DEF Handler
<1> HIDE DEF h
<1> QED
  BY <1>1, <1>2, ReadyOne DEF Finishing

\* Turning to finish with a result.
LEMMA ReadyFinish ==
  ASSUME TypeOK, ResultsReady, NEW t \in Tokens, NEW res \in Results, NEW c \in BOOLEAN,
         GoFinish(t, res, c)
  PROVE  ResultsReady'
<1> DEFINE h == [handlers[t] EXCEPT !.phase = "finish", !.result = res, !.from_cache = c]
<1>1. handlers[t] \in Handler /\ handlers' = [handlers EXCEPT ![t] = h]
  BY Zenon DEF TypeOK, GoFinish
<1>2. h.result = res
  BY <1>1 DEF Handler
<1> HIDE DEF h
<1> QED
  BY <1>1, <1>2, ReadyOne DEF Finishing

\* Ending.
LEMMA ReadyEnd ==
  ASSUME TypeOK, ResultsReady, NEW t \in Tokens, End(t)
  PROVE  ResultsReady'
BY IdleFacts, ReadyOne DEF End, Finishing

\* Dropping a worker's handlers.
LEMMA ReadyDrop ==
  ASSUME TypeOK, ResultsReady, NEW w \in Workers, DropHandlers(w)
  PROVE  ResultsReady'
BY IdleFacts DEF TypeOK, DropHandlers, ResultsReady, Finishing

\* A usable cached result is a result.
LEMMA CachedResult ==
  ASSUME ClaimInv, NEW t \in Tokens, Live(t), NEW cur, CacheUsable(handlers[t].row, cur)
  PROVE  doms[handlers[t].row[2]].result \in Results
BY LiveRow DEF CacheUsable, Domain, Fetched

\* The steps of a handler.
LEMMA HandlerReady ==
  ASSUME ClaimInv, ResultsReady, NEW t \in Tokens, HandlerStep(t)
  PROVE  ResultsReady'
<1> TypeOK
  BY DEF ClaimInv
<1>1. CASE CheckCache(t)
  <2>1. PICK cur \in Currents(t) :
          IF CacheUsable(handlers[t].row, cur)
          THEN GoFinish(t, doms[handlers[t].row[2]].result, TRUE)
          ELSE IF handlers[t].attempts > MaxClaims
               THEN GoFinish(t, "too_many", FALSE)
               ELSE Go(t, "lock")
    BY <1>1, Zenon DEF CheckCache
  <2>2. Live(t)
    BY <1>1 DEF CheckCache, Live
  <2>3. CASE CacheUsable(handlers[t].row, cur)
    BY <2>1, <2>2, <2>3, CachedResult, ReadyFinish, Zenon
  <2>4. CASE ~CacheUsable(handlers[t].row, cur)
    BY <2>1, <2>4, ReadyFinish, ReadyGo, Zenon DEF Results, Phases
  <2> QED
    BY <2>3, <2>4
<1>2. CASE LockDomain(t)
  <2> DEFINE h == [handlers[t] EXCEPT !.phase = "requeue", !.next = "busy"]
  <2>1. CASE Go(t, "recheck")
    BY <2>1, ReadyGo DEF Phases
  <2>2. CASE handlers' = [handlers EXCEPT ![t] = h]
    <3>1. h.phase = "requeue"
      BY DEF TypeOK, Handler
    <3> HIDE DEF h
    <3> QED
      BY <2>2, <3>1, ReadyOne, Zenon DEF Finishing
  <2> QED
    BY <1>2, <2>1, <2>2, Zenon DEF LockDomain, TypeOK
<1>3. CASE RecheckCache(t)
  <2> DEFINE h == [handlers[t] EXCEPT !.phase = "unlock", !.next = "finish",
                                      !.result = doms[handlers[t].row[2]].result,
                                      !.from_cache = TRUE]
  <2>1. PICK cur \in Currents(t) :
          IF CacheUsable(handlers[t].row, cur)
          THEN handlers' = [handlers EXCEPT ![t] = h]
          ELSE Go(t, "fetch")
    BY <1>3, Zenon DEF RecheckCache, TypeOK
  <2>2. Live(t)
    BY <1>3 DEF RecheckCache, Live
  <2>3. CASE CacheUsable(handlers[t].row, cur)
    <3>1. h.result \in Results
      BY <2>2, <2>3, CachedResult, Zenon DEF TypeOK, Handler
    <3> HIDE DEF h
    <3> QED
      BY <2>1, <2>3, <3>1, ReadyOne DEF Finishing
  <2>4. CASE ~CacheUsable(handlers[t].row, cur)
    BY <2>1, <2>4, ReadyGo DEF Phases
  <2> QED
    BY <2>3, <2>4
<1>4. CASE FetchDone(t)
  BY <1>4, ChoicesAssumption, ReadyFinish, Zenon DEF FetchDone, Fetched
<1>5. CASE FetchCircuitOpen(t)
  BY <1>5, ReadyFinish, ReadyUnlock DEF FetchCircuitOpen, Results, Nexts
<1>6. CASE PauseActiveJobs(t)
  BY <1>6, ReadyUnlock, Zenon DEF PauseActiveJobs, Nexts
<1>7. CASE UnlockDomain(t)
  <2>1. CASE handlers[t].next = "finish"
    <3> DEFINE h == [handlers[t] EXCEPT !.phase = "finish"]
    <3>1. handlers' = [handlers EXCEPT ![t] = h]
      BY <1>7, <2>1 DEF UnlockDomain, Go, TypeOK
    <3>2. h.result = handlers[t].result
      BY DEF TypeOK, Handler
    <3>3. handlers[t].result \in Results
      BY <1>7, <2>1 DEF UnlockDomain, ResultsReady, Finishing
    <3> HIDE DEF h
    <3> QED
      BY <3>1, <3>2, <3>3, ReadyOne DEF Finishing
  <2>2. CASE handlers[t].next # "finish"
    BY <1>7, <2>2, ReadyGo DEF UnlockDomain, Phases
  <2> QED
    BY <2>1, <2>2
<1>8. CASE RequeueRow(t) \/ UnlockLost(t) \/ Notify(t)
  BY <1>8, ReadyEnd DEF RequeueRow, UnlockLost, Notify
<1>9. CASE FinishOwned(t) \/ FinishLost(t)
  BY <1>9, ReadyGo, Zenon DEF FinishOwned, FinishLost, Phases
<1> QED
  BY <1>1, <1>2, <1>3, <1>4, <1>5, <1>6, <1>7, <1>8, <1>9 DEF HandlerStep

\* A handler starts without a result, at its first check.
LEMMA ClaimRowReady ==
  ASSUME TypeOK, ResultsReady, NEW w \in Workers, NEW j \in Jobs, ClaimRow(w, j)
  PROVE  ResultsReady'
<1>1. PICK d \in Available(j), t \in TokensOf(w) :
        handlers' = [handlers EXCEPT ![t] = [Idle EXCEPT !.phase = "check", !.row = <<j, d>>,
                                                         !.attempts = rows[<<j, d>>].attempts + 1]]
  BY Zenon DEF ClaimRow
<1> DEFINE h == [Idle EXCEPT !.phase = "check", !.row = <<j, d>>,
                             !.attempts = rows[<<j, d>>].attempts + 1]
<1>2. h.phase = "check"
  BY DEF Idle
<1>3. handlers' = [handlers EXCEPT ![t] = h] /\ t \in Tokens
  BY <1>1, TokenFacts
<1> HIDE DEF h
<1> QED
  BY <1>2, <1>3, ReadyOne DEF Finishing

\* No other step gives a handler something to finish.
LEMMA ReadyStep == ClaimInv /\ ResultsReady /\ [Next]_vars => ResultsReady'
<1> SUFFICES ASSUME ClaimInv, ResultsReady, [Next]_vars PROVE ResultsReady'
  OBVIOUS
<1> TypeOK
  BY DEF ClaimInv
<1>1. ASSUME handlers' = handlers PROVE ResultsReady'
  BY <1>1 DEF ResultsReady
<1>2. CASE ApiStep
  BY <1>1, <1>2, Zenon DEF ApiStep, CreateJob, CancelJob, ResumeJob, ResumePaused, Resume,
     CompleteResumed, ResumeDies, RetryCheck, RequeueFailed
<1>3. ASSUME NEW w \in Workers, WorkerStep(w) PROVE ResultsReady'
  <2>1. CASE ClaimLoop(w)
    BY <1>1, <2>1, ClaimRowReady DEF ClaimLoop, PickJobs, SkipJob
  <2>2. CASE Heartbeat(w) \/ ReleaseWorker(w)
    BY <1>1, <2>2, Zenon DEF Heartbeat, ReleaseWorker
  <2>3. CASE StopWorker(w)
    BY <2>3, ReadyDrop DEF StopWorker
  <2> QED
    BY <1>3, <2>1, <2>2, <2>3 DEF WorkerStep
<1>4. CASE Reap \/ Sweep
  BY <1>1, <1>4, Zenon DEF Reap, Sweep
<1>5. CASE FaultStep
  <2>1. ASSUME NEW t \in Tokens, FetchAccountError(t) \/ HandleFails(t) PROVE ResultsReady'
    BY <2>1, ReadyUnlock, ReadyGo, ReadyEnd DEF FetchAccountError, HandleFails, Nexts, Phases
  <2>2. ASSUME NEW w \in Workers, Crash(w) \/ Outage(w) PROVE ResultsReady'
    BY <1>1, <2>2, ReadyDrop DEF Crash, Outage
  <2> QED
    BY <1>5, <2>1, <2>2 DEF FaultStep
<1>6. CASE TimeStep
  BY <1>1, <1>6 DEF TimeStep, DelayPasses, RowGoesStale, LockLapses, CacheAges
<1>7. CASE UNCHANGED vars
  BY <1>1, <1>7 DEF vars
<1> QED
  BY <1>2, <1>3, <1>4, <1>5, <1>6, <1>7, HandlerReady DEF Next

-----------------------------------------------------------------------------
(* What a user sees of a step.                                             *)

\* One step of the life cycle, or nothing a user sees.
Visible == Lifecycle!Next \/ UNCHANGED Lifecycle!view

\* A row shows "pending" exactly while it is queued or running.
LEMMA ShownFacts ==
  ASSUME NEW row \in Row
  PROVE  /\ Shown(row) = "pending" <=> row.state \in {"queued", "running"}
         /\ row.state = "done" => Shown(row) = row.result
         /\ row.state = "absent" => Shown(row) = "none"
BY DEF Shown, Row, Results

\* A job has unfinished rows exactly when a domain of it shows "pending".
LEMMA PendingFacts ==
  ASSUME NEW rs \in [Rows -> Row], NEW j \in Jobs
  PROVE  Unfinished(rs, j) <=> \E d \in Domains : Shown(rs[<<j, d>>]) = "pending"
<1>1. \A d \in Domains : <<j, d>> \in Rows
  BY DEF Rows
<1> QED
  BY <1>1, ShownFacts DEF Unfinished

\* A step that keeps the statuses and what the rows show is invisible.
LEMMA Invisible ==
  ASSUME \A j \in Jobs : jobs'[j].status = jobs[j].status,
         \A r \in Rows : Shown(rows'[r]) = Shown(rows[r])
  PROVE  Visible
<1>1. [j \in Jobs |-> jobs[j].status]' = [j \in Jobs |-> jobs[j].status]
  OBVIOUS
<1>2. Outcome' = Outcome
  BY DEF Outcome
<1> QED
  BY <1>1, <1>2 DEF Visible, Lifecycle!view

\* In particular one that touches neither table.
LEMMA SameTables ==
  ASSUME jobs' = jobs, rows' = rows
  PROVE  Visible
BY Invisible

\* Rows that stay pending: a claim, a requeue, a reap, a release, a heartbeat.
LEMMA StillPending ==
  ASSUME TypeOK, TypeOK', \A j \in Jobs : jobs'[j].status = jobs[j].status,
         \A r \in Rows : \/ rows'[r].state = rows[r].state /\ rows'[r].result = rows[r].result
                         \/ /\ rows[r].state \in {"queued", "running"}
                            /\ rows'[r].state \in {"queued", "running"}
  PROVE  Visible
<1>1. ASSUME NEW r \in Rows PROVE Shown(rows'[r]) = Shown(rows[r])
  <2>1. rows[r] \in Row /\ rows'[r] \in Row
    BY DEF TypeOK
  <2> QED
    BY <2>1, ShownFacts DEF Row
<1> QED
  BY <1>1, Invisible

\* create_job is Create.
LEMMA CreateJobVisible ==
  ASSUME TypeOK, TypeOK', NEW j \in Jobs, NEW D \in SUBSET Domains, NEW fresh \in BOOLEAN,
         CreateJob(j, D, fresh)
  PROVE  Visible
<1>1. jobs[j].status = "none"
  BY Zenon DEF CreateJob
<1>2. \A i \in Jobs : jobs'[i].status = IF i = j THEN IF D = {} THEN "done" ELSE "queued"
                                                 ELSE jobs[i].status
  <2> DEFINE n == IF D = {} THEN "done" ELSE "queued"
             x == [jobs[j] EXCEPT !.status = n, !.fresh = fresh, !.finished_at = (D = {})]
  <2>1. jobs' = [jobs EXCEPT ![j] = x]
    BY Zenon DEF CreateJob, TypeOK
  <2>2. x.status = n
    BY DEF TypeOK, Job
  <2> HIDE DEF x
  <2> QED
    BY <2>1, <2>2 DEF TypeOK
<1>3. ASSUME NEW r \in Rows
      PROVE  Shown(rows'[r]) = IF r[1] = j /\ r[2] \in D THEN "pending" ELSE Shown(rows[r])
  <2>1. CASE r[1] = j /\ r[2] \in D
    <3>1. rows'[r] = [rows[r] EXCEPT !.state = "queued", !.available = TRUE]
      BY <2>1, Zenon DEF CreateJob
    <3>2. rows[r] \in Row /\ rows'[r] \in Row
      BY DEF TypeOK
    <3>3. rows'[r].state = "queued"
      BY <3>1, <3>2 DEF Row
    <3> QED
      BY <2>1, <3>2, <3>3, ShownFacts
  <2>2. CASE ~(r[1] = j /\ r[2] \in D)
    BY <2>2, Zenon DEF CreateJob
  <2> QED
    BY <2>1, <2>2
<1>4. Lifecycle!Create(j, D)
  BY <1>1, <1>2, <1>3, Zenon DEF Lifecycle!Create, Lifecycle!Rows, Rows, Outcome
<1> QED
  BY <1>4 DEF Visible, Lifecycle!Next

\* cancel_job is Cancel.
LEMMA CancelJobVisible ==
  ASSUME TypeOK, NEW j \in Jobs, CancelJob(j)
  PROVE  Visible
<1>1. \A i \in Jobs : jobs'[i].status = IF i = j THEN "cancelled" ELSE jobs[i].status
  BY DEF CancelJob, TypeOK, Job
<1>2. jobs[j].status \in {"queued", "running", "paused"} /\ Outcome' = Outcome
  BY DEF CancelJob, Outcome
<1>3. Lifecycle!Cancel(j)
  BY <1>1, <1>2, Zenon DEF Lifecycle!Cancel, Lifecycle!Active
<1> QED
  BY <1>3 DEF Visible, Lifecycle!Next

\* Resuming one job, or all that are paused, is Resume.
LEMMA ResumeVisible ==
  ASSUME TypeOK, NEW S \in SUBSET Jobs, Resume(S)
  PROVE  Visible
<1>1. \A j \in Jobs : jobs'[j].status = IF j \in S THEN "running" ELSE jobs[j].status
  BY Zenon DEF Resume, TypeOK, Job
<1>2. (\A j \in S : jobs[j].status = "paused") /\ Outcome' = Outcome
  BY Zenon DEF Resume, Outcome
<1>3. Lifecycle!Resume(S)
  BY <1>1, <1>2 DEF Lifecycle!Resume
<1> QED
  BY <1>3 DEF Visible, Lifecycle!Next

\* pause_active_jobs is Pause.
LEMMA PauseVisible ==
  ASSUME TypeOK, NEW t \in Tokens, PauseActiveJobs(t)
  PROVE  Visible
<1>1. \A j \in Jobs : jobs'[j].status = IF jobs[j].status \in ActiveStatuses THEN "paused"
                                                                  ELSE jobs[j].status
  BY Zenon DEF PauseActiveJobs, TypeOK, Job
<1>2. Outcome' = Outcome
  BY Zenon DEF PauseActiveJobs, Outcome
<1>3. Lifecycle!Pause
  BY <1>1, <1>2 DEF Lifecycle!Pause, Lifecycle!Active
<1> QED
  BY <1>3 DEF Visible, Lifecycle!Next

\* complete_if_finished after a resume, and the sweep, are Complete.
LEMMA CompleteVisible ==
  ASSUME TypeOK, NEW S \in SUBSET Jobs, jobs' = MarkDone(jobs, rows, S), rows' = rows
  PROVE  Visible
<1>1. jobs \in [Jobs -> Job] /\ rows \in [Rows -> Row]
  BY DEF TypeOK
<1>2. \A j \in Jobs : jobs'[j].status = IF j \in S /\ Completable(jobs, rows, j) THEN "done"
                                        ELSE jobs[j].status
  BY <1>1, MarkDoneFacts, Zenon
<1>3. \A j \in Jobs : Unfinished(rows, j) <=> \E d \in Domains : Outcome[<<j, d>>] = "pending"
  BY <1>1, PendingFacts DEF Outcome, Rows
<1>4. Outcome' = Outcome
  BY DEF Outcome
<1>5. Lifecycle!Complete(S)
  BY <1>2, <1>3, <1>4 DEF Lifecycle!Complete, Lifecycle!Settled, Lifecycle!Pending,
     Lifecycle!Active, Completable
<1> QED
  BY <1>5 DEF Visible, Lifecycle!Next

\* requeue_failed is Retry, unless there is nothing to retry.
LEMMA RequeueFailedVisible ==
  ASSUME TypeOK, TypeOK', NEW j \in Jobs, RequeueFailed(j)
  PROVE  Visible
<1> DEFINE S == FailedRows(j)
<1>1. \A i \in Jobs : jobs'[i].status = IF i = j /\ S # {} /\ jobs[j].status = "done"
                                        THEN "running" ELSE jobs[i].status
  BY DEF RequeueFailed, TypeOK, Job
<1>2. S = {r \in Rows : r[1] = j /\ Outcome[r] \in Retryable}
  <2>1. ASSUME NEW r \in Rows
        PROVE  Outcome[r] \in Retryable
               <=> rows[r].state = "done" /\ rows[r].result \in Retryable
    <3>1. rows[r] \in Row /\ Outcome[r] = Shown(rows[r])
      BY DEF TypeOK, Outcome
    <3> QED
      BY <3>1, ShownFacts DEF Row, Retryable
  <2> QED
    BY <2>1 DEF FailedRows
<1>3. \A r \in Rows : Shown(rows'[r]) = IF r \in S THEN "pending" ELSE Shown(rows[r])
  <2>1. ASSUME NEW r \in S PROVE r \in Rows /\ Shown(rows'[r]) = "pending"
    <3> DEFINE q == Queued(rows[r], 0, TRUE)
               c == r[2] \in retrying[j].newer
    <3>1. r \in Rows /\ rows[r] \in Row /\ rows'[r] \in Row
      BY DEF FailedRows, TypeOK
    <3>2. rows'[r] = [q EXCEPT !.current = c]
      BY <3>1 DEF RequeueFailed
    <3>3. q \in Row /\ q.state = "queued"
      BY <3>1, QueuedFacts, Zenon
    <3> HIDE DEF q, c
    <3>4. rows'[r].state = "queued"
      BY <3>2, <3>3 DEF Row
    <3> QED
      BY <3>1, <3>4, ShownFacts
  <2>2. \A r \in Rows : r \notin S => rows'[r] = rows[r]
    BY DEF RequeueFailed
  <2> QED
    BY <2>1, <2>2
<1> HIDE DEF S
<1>4. CASE S = {}
  BY <1>1, <1>3, <1>4, Invisible
<1>5. CASE S # {}
  <2>1. Lifecycle!Retry(j)
    BY <1>1, <1>2, <1>3, <1>5 DEF Lifecycle!Retry, Lifecycle!Rows, Lifecycle!Retryable,
       Retryable, Rows, Outcome
  <2> QED
    BY <2>1 DEF Visible, Lifecycle!Next
<1> QED
  BY <1>4, <1>5

\* The first claim on a job is Start; the others are invisible.
LEMMA ClaimRowVisible ==
  ASSUME ClaimInv, TypeOK', NEW w \in Workers, NEW j \in Jobs, ClaimRow(w, j)
  PROVE  Visible
<1> TypeOK
  BY DEF ClaimInv
<1>1. \A i \in Jobs : jobs'[i].status = IF i = j /\ jobs[j].status = "queued" THEN "running"
                                                                   ELSE jobs[i].status
  BY DEF ClaimRow, TypeOK, Job
<1>2. \A r \in Rows : \/ rows'[r].state = rows[r].state /\ rows'[r].result = rows[r].result
                      \/ /\ rows[r].state \in {"queued", "running"}
                         /\ rows'[r].state \in {"queued", "running"}
  <2>1. PICK d \in Available(j), t \in TokensOf(w) :
          rows' = [rows EXCEPT ![<<j, d>>].state = "running", ![<<j, d>>].claimed_by = t,
                               ![<<j, d>>].stale = FALSE,
                               ![<<j, d>>].attempts = rows[<<j, d>>].attempts + 1]
    BY Zenon DEF ClaimRow
  <2>2. <<j, d>> \in Rows /\ rows[<<j, d>>].state = "queued" /\ rows[<<j, d>>] \in Row
    BY DEF Available, Rows, TypeOK
  <2>3. rows'[<<j, d>>].state = "running" /\ \A r \in Rows : r # <<j, d>> => rows'[r] = rows[r]
    BY <2>1, <2>2 DEF TypeOK, Row
  <2> QED
    BY <2>2, <2>3
<1>3. CASE jobs[j].status = "queued"
  <2>1. \A r \in Rows : Shown(rows'[r]) = Shown(rows[r])
    <3>1. \A r \in Rows : rows[r] \in Row /\ rows'[r] \in Row
      BY DEF TypeOK
    <3> QED
      BY <1>2, <3>1, ShownFacts DEF Row
  <2>2. Outcome' = Outcome
    BY <2>1 DEF Outcome
  <2>3. Lifecycle!Start(j)
    BY <1>1, <1>3, <2>2 DEF Lifecycle!Start
  <2> QED
    BY <2>3 DEF Visible, Lifecycle!Next
<1>4. CASE jobs[j].status # "queued"
  BY <1>1, <1>2, <1>4, StillPending
<1> QED
  BY <1>3, <1>4

\* finish, by the claim that owns the row, is Record.
LEMMA FinishOwnedVisible ==
  ASSUME ClaimInv, TypeOK', ResultsReady, NEW t \in Tokens, FinishOwned(t)
  PROVE  Visible
<1> TypeOK
  BY DEF ClaimInv
<1>0. Live(t) /\ handlers[t].result \in Results
  BY Zenon DEF FinishOwned, Live, ResultsReady, Finishing
<1>1. PICK q \in Rows, res \in Results : q = handlers[t].row /\ res = handlers[t].result
  BY <1>0, LiveRow
<1>2. q[1] \in Jobs /\ rows[q].state = "running" /\ rows[q] \in Row
  BY <1>0, <1>1, LiveRow, Zenon DEF FinishOwned, Owns
<1>3. ASSUME NEW r \in Rows
      PROVE  Shown(rows'[r]) = IF r = q THEN res ELSE Shown(rows[r])
  <2> DEFINE x == IF r = q
                  THEN [rows[r] EXCEPT !.state = "done", !.claimed_by = NoToken, !.result = res]
                  ELSE rows[r]
             c == rows[r].current \/ (/\ WritesCache(handlers[t])
                                      /\ r[2] = q[2]
                                      /\ rows[r].state # "absent")
  <2>1. rows'[r] = [x EXCEPT !.current = c]
    BY <1>1, Zenon DEF FinishOwned
  <2>2. rows[r] \in Row /\ rows'[r] \in Row
    BY DEF TypeOK
  <2>3. /\ x \in Row
        /\ r = q => x.state = "done" /\ x.result = res
        /\ r # q => x = rows[r]
    BY <1>1, <2>2 DEF Row
  <2> HIDE DEF x, c
  <2>4. rows'[r].state = x.state /\ rows'[r].result = x.result
    BY <2>1, <2>3 DEF Row
  <2> QED
    BY <2>2, <2>3, <2>4, ShownFacts DEF Row
<1>4. \A j \in Jobs : jobs'[j].status = IF j = q[1] /\ Completable(jobs, rows', j) THEN "done"
                                        ELSE jobs[j].status
  <2>1. jobs \in [Jobs -> Job] /\ jobs' = MarkDone(jobs, rows', {q[1]})
    BY <1>1, Zenon DEF TypeOK, FinishOwned
  <2> DEFINE J == {q[1]}
  <2>2. \A j \in Jobs : j \in J <=> j = q[1]
    OBVIOUS
  <2>3. jobs' = MarkDone(jobs, rows', J)
    BY <2>1
  <2> HIDE DEF J
  <2>4. \A j \in Jobs : MarkDone(jobs, rows', J)[j].status
                          = IF j \in J /\ Completable(jobs, rows', j) THEN "done"
                                                                     ELSE jobs[j].status
    BY <2>1, MarkDoneFacts, ZenonT(30)
  <2> QED
    BY <2>2, <2>3, <2>4
<1>5. \A j \in Jobs : Unfinished(rows', j) <=> \E d \in Domains : Outcome'[<<j, d>>] = "pending"
  BY PendingFacts, Zenon DEF TypeOK, Outcome, Rows
<1>6. Outcome[q] = "pending"
  BY <1>2, ShownFacts DEF Outcome
<1>7. Outcome' = [Outcome EXCEPT ![q] = res]
  BY <1>3, Zenon DEF Outcome
<1>8. Lifecycle!Record(q, res)
  BY <1>4, <1>5, <1>6, <1>7 DEF Lifecycle!Record, Lifecycle!Settled, Lifecycle!Pending,
     Lifecycle!Active, Completable
<1>9. q \in Lifecycle!Rows /\ res \in Lifecycle!Results
  BY DEF Lifecycle!Rows, Lifecycle!Results, Rows, Results
<1> QED
  BY <1>8, <1>9 DEF Visible, Lifecycle!Next

\* The queue's other steps on rows change nothing visible.
LEMMA RequeueRowVisible ==
  ASSUME ClaimInv, TypeOK', NEW t \in Tokens, RequeueRow(t)
  PROVE  Visible
<1> DEFINE q == handlers[t].row
<1> TypeOK
  BY DEF ClaimInv
<1>1. CASE Owns(t)
  <2>1. Live(t)
    BY DEF RequeueRow, Live
  <2>2. q \in Rows /\ rows[q].state = "running" /\ rows[q] \in Row
    BY <1>1, <2>1, LiveRow DEF Owns
  <2>3. rows'[q].state = "queued" /\ \A r \in Rows : r # q => rows'[r] = rows[r]
    <3> DEFINE x == Queued(rows[q], rows[q].attempts - Refund(handlers[t].next),
                           NoDelay(handlers[t].next))
    <3>1. rows' = [rows EXCEPT ![q] = x]
      BY <1>1 DEF RequeueRow
    <3>2. x.state = "queued"
      BY <2>2 DEF Queued, Row
    <3> HIDE DEF x, q
    <3> QED
      BY <2>2, <3>1, <3>2 DEF TypeOK
  <2>4. jobs' = jobs
    BY DEF RequeueRow
  <2> QED
    BY <2>2, <2>3, <2>4, StillPending
<1>2. CASE ~Owns(t)
  BY <1>2, SameTables DEF RequeueRow
<1> QED
  BY <1>1, <1>2

\* Heartbeats, outages and delays leave states and results alone.
LEMMA TouchedVisible ==
  ASSUME TypeOK, TypeOK', jobs' = jobs,
         \A r \in Rows : \/ rows'[r] = rows[r]
                         \/ \E b \in BOOLEAN : \/ rows'[r] = [rows[r] EXCEPT !.stale = b]
                                               \/ rows'[r] = [rows[r] EXCEPT !.available = b]
  PROVE  Visible
<1>1. ASSUME NEW r \in Rows
      PROVE  rows'[r].state = rows[r].state /\ rows'[r].result = rows[r].result
  <2>1. rows[r] \in Row
    BY DEF TypeOK
  <2>2. ASSUME NEW b \in BOOLEAN, NEW x, x = [rows[r] EXCEPT !.stale = b]
        PROVE  x.state = rows[r].state /\ x.result = rows[r].result
    BY <2>1, <2>2 DEF Row
  <2>3. ASSUME NEW b \in BOOLEAN, NEW x, x = [rows[r] EXCEPT !.available = b]
        PROVE  x.state = rows[r].state /\ x.result = rows[r].result
    BY <2>1, <2>3 DEF Row
  <2> QED
    BY <2>2, <2>3, Zenon
<1> QED
  BY <1>1, StillPending

\* A row taken from its claim by the reaper or by a drain is pending still.
LEMMA ReturnedVisible ==
  ASSUME TypeOK, TypeOK', jobs' = jobs,
         \A r \in Rows : \/ rows'[r] = rows[r]
                         \/ /\ rows[r].state = "running"
                            /\ \E n \in Nat : rows'[r] = Queued(rows[r], n, TRUE)
  PROVE  Visible
<1>1. ASSUME NEW r \in Rows, rows'[r] # rows[r]
      PROVE  rows[r].state = "running" /\ rows'[r].state = "queued"
  <2>1. rows[r] \in Row
    BY DEF TypeOK
  <2>2. PICK n \in Nat : rows'[r] = Queued(rows[r], n, TRUE)
    BY <1>1
  <2>3. rows'[r].state = "queued"
    BY <2>1, <2>2, Zenon DEF Queued, Row
  <2> QED
    BY <1>1, <2>3, Zenon
<1> QED
  BY <1>1, StillPending

\* reap and release_worker.
LEMMA ReapVisible ==
  ASSUME TypeOK, TypeOK', Reap
  PROVE  Visible
<1>1. \A r \in Rows : rows[r].attempts \in Nat
  BY DEF TypeOK, Row
<1> QED
  BY <1>1, ReturnedVisible DEF Reap, StaleRows

\* The rows a draining worker hands back.
LEMMA ReleaseWorkerVisible ==
  ASSUME TypeOK, TypeOK', NEW w \in Workers, ReleaseWorker(w)
  PROVE  Visible
<1>1. \A r \in Rows : (IF rows[r].attempts > 0 THEN rows[r].attempts - 1 ELSE 0) \in Nat
  BY DEF TypeOK, Row
<1> QED
  BY <1>1, ReturnedVisible, Zenon DEF ReleaseWorker

\* Every step of the queue is a step of the life cycle, or invisible.
LEMMA VisibleStep == ClaimInv /\ ClaimInv' /\ ResultsReady /\ [Next]_vars => Visible
<1> SUFFICES ASSUME ClaimInv, ClaimInv', ResultsReady, [Next]_vars PROVE Visible
  OBVIOUS
<1> TypeOK /\ TypeOK'
  BY DEF ClaimInv
<1>1. CASE ApiStep
  <2>1. ASSUME NEW j \in Jobs, ResumeJob(j) PROVE Visible
    BY <2>1, ResumeVisible DEF ResumeJob
  <2>2. CASE ResumePaused
    <3>1. {j \in Jobs : jobs[j].status = "paused"} \in SUBSET Jobs
      OBVIOUS
    <3> QED
      BY <2>2, <3>1, ResumeVisible DEF ResumePaused
  <2>3. ASSUME NEW j \in Jobs, CompleteResumed(j) PROVE Visible
    BY <2>3, CompleteVisible DEF CompleteResumed
  <2>4. ASSUME NEW j \in Jobs, ResumeDies(j) \/ RetryCheck(j) PROVE Visible
    BY <2>4, SameTables DEF ResumeDies, RetryCheck
  <2> QED
    BY <1>1, <2>1, <2>2, <2>3, <2>4, ChoicesAssumption, CreateJobVisible, CancelJobVisible,
       RequeueFailedVisible
    DEF ApiStep
<1>2. ASSUME NEW w \in Workers, WorkerStep(w) PROVE Visible
  <2>1. ASSUME NEW j \in Jobs, PickJobs(w) \/ SkipJob(w, j) \/ StopWorker(w) PROVE Visible
    BY <2>1, SameTables DEF PickJobs, SkipJob, StopWorker
  <2>2. CASE PickJobs(w) \/ StopWorker(w)
    BY <2>2, SameTables DEF PickJobs, StopWorker
  <2>3. CASE Heartbeat(w)
    BY <2>3, TouchedVisible DEF Heartbeat
  <2> QED
    BY <1>2, <2>1, <2>2, <2>3, ClaimRowVisible, ReleaseWorkerVisible DEF WorkerStep, ClaimLoop
<1>3. ASSUME NEW t \in Tokens, HandlerStep(t) PROVE Visible
  <2>1. CASE CheckCache(t) \/ LockDomain(t) \/ RecheckCache(t) \/ FetchDone(t)
    BY <2>1, SameTables, Zenon DEF CheckCache, LockDomain, RecheckCache, FetchDone
  <2>2. CASE \/ FetchCircuitOpen(t) \/ UnlockDomain(t) \/ FinishLost(t) \/ UnlockLost(t)
             \/ Notify(t)
    BY <2>2, SameTables, Zenon DEF FetchCircuitOpen, UnlockDomain, FinishLost, UnlockLost, Notify
  <2> QED
    BY <1>3, <2>1, <2>2, PauseVisible, RequeueRowVisible, FinishOwnedVisible DEF HandlerStep
<1>4. CASE Sweep
  BY <1>4, CompleteVisible DEF Sweep
<1>5. CASE FaultStep
  <2>1. ASSUME NEW t \in Tokens, FetchAccountError(t) \/ HandleFails(t) PROVE Visible
    BY <2>1, SameTables DEF FetchAccountError, HandleFails
  <2>2. ASSUME NEW w \in Workers, Crash(w) PROVE Visible
    BY <2>2, SameTables DEF Crash
  <2>3. ASSUME NEW w \in Workers, Outage(w) PROVE Visible
    BY <2>3, TouchedVisible, Zenon DEF Outage
  <2> QED
    BY <1>5, <2>1, <2>2, <2>3 DEF FaultStep
<1>6. CASE TimeStep
  <2>1. ASSUME NEW r \in Rows, DelayPasses(r) PROVE Visible
    <3>1. /\ jobs' = jobs
          /\ \A q \in Rows : rows'[q] = rows[q] \/ rows'[q] = [rows[q] EXCEPT !.available = TRUE]
      BY <2>1, Zenon DEF DelayPasses, TypeOK
    <3> QED
      BY <3>1, TouchedVisible, Zenon
  <2>2. ASSUME NEW r \in Rows, RowGoesStale(r) PROVE Visible
    <3>1. /\ jobs' = jobs
          /\ \A q \in Rows : rows'[q] = rows[q] \/ rows'[q] = [rows[q] EXCEPT !.stale = TRUE]
      BY <2>2, Zenon DEF RowGoesStale, TypeOK
    <3> QED
      BY <3>1, TouchedVisible, Zenon
  <2>3. ASSUME NEW d \in Domains, LockLapses(d) \/ CacheAges(d) PROVE Visible
    BY <2>3, SameTables DEF LockLapses, CacheAges
  <2> QED
    BY <1>6, <2>1, <2>2, <2>3 DEF TimeStep
<1>7. CASE UNCHANGED vars
  BY <1>7, SameTables DEF vars
<1> QED
  BY <1>1, <1>2, <1>3, <1>4, <1>5, <1>6, <1>7, ReapVisible DEF Next

\* The empty queue shows no jobs, and no handler is finishing.
LEMMA VisibleInit == Init => ResultsReady /\ Lifecycle!Init
<1> SUFFICES ASSUME Init PROVE ResultsReady /\ Lifecycle!Init
  OBVIOUS
<1>1. ResultsReady
  BY IdleFacts DEF Init, ResultsReady, Finishing
<1>2. \A r \in Rows : Shown(rows[r]) = "none"
  BY DEF Init, Shown
<1>3. \A j \in Jobs : jobs[j].status = "none"
  BY DEF Init
<1> QED
  BY <1>1, <1>2, <1>3 DEF Lifecycle!Init, Lifecycle!Rows, Rows, Outcome

\* The queue, the workers and the API implement the life cycle of jobs: whatever
\* claims, locks, caches, reaps, drains, crashes and retries do, what a user sees
\* changes only as JobLifecycle allows.
THEOREM QueueImplementsLifecycle == Spec => Implements
<1>1. ClaimInv /\ ResultsReady /\ [Next]_vars => ClaimInv' /\ ResultsReady'
  BY ClaimStep, ReadyStep
<1>2. ClaimInv /\ ClaimInv' /\ ResultsReady /\ [Next]_vars => [Lifecycle!Next]_(Lifecycle!view)
  BY VisibleStep DEF Visible
<1> QED
  BY <1>1, <1>2, ClaimInit, VisibleInit, PTL DEF Spec, Implements, Lifecycle!Spec

-----------------------------------------------------------------------------
(* What follows from the life cycle.                                       *)

\* The view of a state, in the terms of the life cycle: a job that is not created
\* shows no result.
LEMMA ViewFacts ==
  ASSUME ClaimInv
  PROVE  /\ \A j \in Jobs : Unfinished(rows, j) <=> \E d \in Domains : Outcome[<<j, d>>] = "pending"
         /\ \A r \in Rows : jobs[r[1]].status = "none" => Outcome[r] = "none"
<1>1. rows \in [Rows -> Row]
  BY DEF ClaimInv, TypeOK
<1>2. \A r \in Rows : Outcome[r] = Shown(rows[r])
  BY DEF Outcome
<1>3. \A j \in Jobs, d \in Domains : <<j, d>> \in Rows
  BY DEF Rows
<1>4. \A j \in Jobs : Unfinished(rows, j) <=> \E d \in Domains : Outcome[<<j, d>>] = "pending"
  BY <1>1, <1>2, <1>3, PendingFacts
<1>5. \A r \in Rows : jobs[r[1]].status = "none" => Outcome[r] = "none"
  BY <1>1, <1>2, ShownFacts DEF ClaimInv, UncreatedEmpty
<1> QED
  BY <1>4, <1>5

\* The job status and the results a step of the life cycle may change.
LEMMA LifecycleKeeps ==
  ASSUME ClaimInv, Visible, NEW j \in Jobs
  PROVE  /\ jobs[j].status = "cancelled" => jobs'[j].status = "cancelled"
         /\ \A d \in Domains : Outcome[<<j, d>>] \in {"answer", "refused"}
                               => Outcome'[<<j, d>>] = Outcome[<<j, d>>]
         /\ /\ jobs[j].status = "done" => \A d \in Domains : Outcome[<<j, d>>] # "pending"
            /\ jobs'[j].status = "done"
            => \A d \in Domains : Outcome'[<<j, d>>] # "pending"
<1> DEFINE st == [i \in Jobs |-> jobs[i].status]
<1> DEFINE Goal == /\ st[j] = "cancelled" => st'[j] = "cancelled"
                   /\ \A d \in Domains : Outcome[<<j, d>>] \in {"answer", "refused"}
                                         => Outcome'[<<j, d>>] = Outcome[<<j, d>>]
                   /\ /\ st[j] = "done" => \A d \in Domains : Outcome[<<j, d>>] # "pending"
                      /\ st'[j] = "done"
                      => \A d \in Domains : Outcome'[<<j, d>>] # "pending"
<1> SUFFICES Goal
  OBVIOUS
<1>1. /\ st = [i \in Jobs |-> st[i]]
      /\ \A d \in Domains : <<j, d>> \in Rows
      /\ \A d \in Domains : st[j] = "none" => Outcome[<<j, d>>] = "none"
      /\ Outcome = [r \in Rows |-> Outcome[r]]
  <2>1. \A d \in Domains : <<j, d>> \in Rows /\ <<j, d>>[1] = j
    BY DEF Rows
  <2>2. \A r \in Rows : jobs[r[1]].status = "none" => Outcome[r] = "none"
    BY ViewFacts
  <2>3. \A d \in Domains : st[j] = "none" => Outcome[<<j, d>>] = "none"
    BY <2>1, <2>2
  <2> QED
    BY <2>1, <2>3 DEF Outcome
<1>2. CASE UNCHANGED Lifecycle!view
  BY <1>2 DEF Lifecycle!view
<1>3. ASSUME NEW i \in Jobs, NEW D \in SUBSET Domains, Lifecycle!Create(i, D) PROVE Goal
  <2>1. /\ st[i] = "none"
        /\ st' = [st EXCEPT ![i] = IF D = {} THEN "done" ELSE "queued"]
        /\ \A d \in Domains : Outcome'[<<j, d>>] = IF j = i /\ d \in D THEN "pending"
                                                                     ELSE Outcome[<<j, d>>]
    BY <1>1, <1>3 DEF Lifecycle!Create, Lifecycle!Rows, Rows
  <2> HIDE DEF st
  <2> QED
    BY <1>1, <2>1
<1>4. ASSUME NEW i \in Jobs, Lifecycle!Start(i) \/ Lifecycle!Cancel(i) PROVE Goal
  <2>1. /\ Outcome' = Outcome /\ st[i] \in {"queued", "running", "paused"}
        /\ \E x \in {"running", "cancelled"} : st' = [st EXCEPT ![i] = x]
    BY <1>4 DEF Lifecycle!Start, Lifecycle!Cancel, Lifecycle!Active
  <2> HIDE DEF st
  <2> QED
    BY <1>1, <2>1
<1>5. ASSUME NEW i \in Jobs, Lifecycle!Retry(i) PROVE Goal
  <2>1. /\ \A d \in Domains : \/ Outcome'[<<j, d>>] = Outcome[<<j, d>>]
                              \/ /\ j = i /\ Outcome[<<j, d>>] \in {"failed", "too_many"}
                                 /\ Outcome'[<<j, d>>] = "pending"
        /\ st' = IF st[i] = "done" THEN [st EXCEPT ![i] = "running"] ELSE st
    BY <1>1, <1>5 DEF Lifecycle!Retry, Lifecycle!Rows, Lifecycle!Retryable, Rows
  <2> HIDE DEF st
  <2> QED
    BY <1>1, <2>1
<1>6. ASSUME NEW r \in Rows, NEW res \in Results, Lifecycle!Record(r, res) PROVE Goal
  <2>1. /\ Outcome[r] = "pending" /\ r = <<r[1], r[2]>> /\ r[2] \in Domains
        /\ \A d \in Domains : Outcome'[<<j, d>>] = IF <<j, d>> = r THEN res ELSE Outcome[<<j, d>>]
        /\ st'[j] = IF /\ j = r[1] /\ st[j] \in {"queued", "running"}
                       /\ ~\E d \in Domains : Outcome'[<<j, d>>] = "pending"
                    THEN "done" ELSE st[j]
    BY <1>1, <1>6, RowFacts, Zenon DEF Lifecycle!Record, Lifecycle!Settled, Lifecycle!Pending,
       Lifecycle!Active
  <2>2. res # "pending"
    BY DEF Results
  <2> HIDE DEF st
  <2> QED
    BY <1>1, <2>1, <2>2
<1>7. ASSUME NEW S \in SUBSET Jobs, Lifecycle!Complete(S) PROVE Goal
  <2>1. /\ Outcome' = Outcome
        /\ st'[j] = IF /\ j \in S /\ st[j] \in {"queued", "running"}
                       /\ ~\E d \in Domains : Outcome[<<j, d>>] = "pending"
                    THEN "done" ELSE st[j]
    BY <1>7 DEF Lifecycle!Complete, Lifecycle!Settled, Lifecycle!Pending, Lifecycle!Active
  <2> HIDE DEF st
  <2> QED
    BY <1>1, <2>1
<1>8. ASSUME NEW S \in SUBSET Jobs, Lifecycle!Resume(S) PROVE Goal
  <2>1. /\ Outcome' = Outcome
        /\ (st'[j] = "running" /\ st[j] = "paused") \/ st'[j] = st[j]
    BY <1>8, Zenon DEF Lifecycle!Resume
  <2> HIDE DEF st
  <2> QED
    BY <1>1, <2>1
<1>9. ASSUME Lifecycle!Pause PROVE Goal
  <2>1. /\ Outcome' = Outcome
        /\ st'[j] = IF st[j] \in {"queued", "running"} THEN "paused" ELSE st[j]
    BY <1>9 DEF Lifecycle!Pause, Lifecycle!Active
  <2> HIDE DEF st
  <2> QED
    BY <1>1, <2>1
<1>10. Lifecycle!Rows = Rows /\ Lifecycle!Results = Results
  BY DEF Lifecycle!Rows, Lifecycle!Results, Rows, Results
<1> HIDE DEF Goal
<1> QED
  BY <1>2, <1>3, <1>4, <1>5, <1>6, <1>7, <1>8, <1>9, <1>10 DEF Visible, Lifecycle!Next

\* What every step of the queue keeps.
QueueInv == ClaimInv /\ ResultsReady /\ DoneJobsAreFinished

\* A job that a step leaves done has nothing left to do.
LEMMA DoneStep ==
  ASSUME ClaimInv, ClaimInv', Visible, DoneJobsAreFinished
  PROVE  DoneJobsAreFinished'
<1> SUFFICES ASSUME NEW j \in Jobs, jobs'[j].status = "done" PROVE ~Unfinished(rows', j)
  BY DEF DoneJobsAreFinished
<1>1. jobs[j].status = "done" => \A d \in Domains : Outcome[<<j, d>>] # "pending"
  BY ViewFacts DEF DoneJobsAreFinished
<1>2. \A d \in Domains : Outcome'[<<j, d>>] # "pending"
  BY <1>1, LifecycleKeeps
<1>3. rows' \in [Rows -> Row] /\ \A d \in Domains : Outcome'[<<j, d>>] = Shown(rows'[<<j, d>>])
  BY DEF ClaimInv, TypeOK, Outcome, Rows
<1> QED
  BY <1>2, <1>3, PendingFacts, Zenon

\* A row that shows an answer shows it after the step.
LEMMA AnswerStep ==
  ASSUME ClaimInv, ClaimInv', Visible, NEW r \in Rows, rows[r].state = "done",
         rows[r].result \in {"answer", "refused"}
  PROVE  rows'[r].state = "done" /\ rows'[r].result = rows[r].result
<1>1. rows[r] \in Row /\ rows'[r] \in Row
  BY DEF ClaimInv, TypeOK
<1>2. Outcome[r] = Shown(rows[r]) /\ Outcome'[r] = Shown(rows'[r])
  BY DEF Outcome
<1>3. Outcome[r] = rows[r].result
  BY <1>1, <1>2, ShownFacts
<1>4. Outcome'[r] = Outcome[r]
  BY <1>3, LifecycleKeeps, RowFacts
<1>5. rows'[r].state \in {"absent", "queued", "running", "done"}
  BY <1>1 DEF Row
<1> QED
  BY <1>1, <1>2, <1>3, <1>4, <1>5, ShownFacts, Zenon

\* The invariant of the queue, and what a step may never do.
LEMMA QueueStep ==
  QueueInv /\ [Next]_vars
  => /\ QueueInv'
     /\ \A j \in Jobs : jobs[j].status = "cancelled" => jobs'[j].status = "cancelled"
     /\ \A r \in Rows : rows[r].state = "done" /\ rows[r].result \in {"answer", "refused"}
                        => rows'[r].state = "done" /\ rows'[r].result = rows[r].result
<1> SUFFICES ASSUME QueueInv, [Next]_vars
             PROVE  /\ QueueInv'
                    /\ \A j \in Jobs : jobs[j].status = "cancelled"
                                       => jobs'[j].status = "cancelled"
                    /\ \A r \in Rows :
                         rows[r].state = "done" /\ rows[r].result \in {"answer", "refused"}
                         => rows'[r].state = "done" /\ rows'[r].result = rows[r].result
  OBVIOUS
<1>1. ClaimInv /\ ResultsReady /\ DoneJobsAreFinished
  BY DEF QueueInv
<1>2. ClaimInv' /\ ResultsReady'
  BY <1>1, ClaimStep, ReadyStep
<1>3. Visible
  BY <1>1, <1>2, VisibleStep
<1> QED
  BY <1>1, <1>2, <1>3, DoneStep, AnswerStep, LifecycleKeeps DEF QueueInv

\* The invariant of the queue holds.
LEMMA QueueInvariant == Spec => []QueueInv
<1>1. Init => DoneJobsAreFinished
  BY DEF Init, DoneJobsAreFinished
<1> QED
  BY <1>1, ClaimInit, VisibleInit, QueueStep, PTL DEF Spec, QueueInv

\* No done job has a row that is queued or running, for any number of jobs and
\* workers and any order of finishes, retries, resumes, reaps and sweeps, each of
\* them one transaction (finish, complete_if_finished, requeue_failed).
THEOREM DoneMeansNothingLeft == Spec => []DoneJobsAreFinished
<1>1. QueueInv => DoneJobsAreFinished
  BY DEF QueueInv
<1> QED
  BY <1>1, QueueInvariant, PTL

\* Nothing brings a cancelled job back: not a late finish, a sweep, a pause of
\* every job, a resume or a retry that read the status before the cancel.
THEOREM CancelledStaysCancelled == Spec => CancelledIsFinal
<1>1. QueueInv /\ [Next]_vars
      => [\A j \in Jobs : jobs[j].status = "cancelled" => jobs'[j].status = "cancelled"]_vars
  BY QueueStep
<1> QED
  BY <1>1, QueueInvariant, PTL DEF Spec, CancelledIsFinal

\* A finished row with an answer keeps it, whatever retries, reaps, late handlers
\* and shutdowns do.
THEOREM FinishedAnswersAreKept == Spec => AnswersAreKept
<1>1. QueueInv /\ [Next]_vars
      => [\A r \in Rows : rows[r].state = "done" /\ rows[r].result \in {"answer", "refused"}
                          => rows'[r].state = "done" /\ rows'[r].result = rows[r].result]_vars
  BY QueueStep
<1> QED
  BY <1>1, QueueInvariant, PTL DEF Spec, AnswersAreKept

-----------------------------------------------------------------------------
(* Timestamps.                                                             *)

\* The timestamps of one job say what its status says.
Agrees(x) == /\ x.paused_at <=> x.status = "paused"
             /\ x.finished_at <=> x.status \in {"done", "cancelled"}

\* What each update of a job makes of a job whose timestamps agree.
LEMMA AgreeingUpdates ==
  ASSUME NEW x \in Job, Agrees(x), NEW f \in BOOLEAN, NEW e \in BOOLEAN
  PROVE  /\ x.status = "none" =>
              Agrees([x EXCEPT !.status = IF e THEN "done" ELSE "queued", !.fresh = f,
                               !.finished_at = e])
         /\ Agrees([x EXCEPT !.status = "cancelled", !.paused_at = FALSE, !.finished_at = TRUE])
         /\ x.status = "paused" =>
              Agrees([x EXCEPT !.status = "running", !.paused_at = FALSE])
         /\ x.status = "done" =>
              Agrees([x EXCEPT !.status = "running", !.finished_at = FALSE])
         /\ Agrees([x EXCEPT !.status = IF x.status = "queued" THEN "running" ELSE x.status])
         /\ x.status \in ActiveStatuses =>
              /\ Agrees([x EXCEPT !.status = "paused", !.paused_at = TRUE])
              /\ Agrees([x EXCEPT !.status = "done", !.finished_at = TRUE])
BY DEF Job, Agrees

\* Every step keeps the timestamps in agreement.
LEMMA TimestampStep == TypeOK /\ TimestampsAgree /\ [Next]_vars => TimestampsAgree'
<1> SUFFICES ASSUME TypeOK, TimestampsAgree, [Next]_vars PROVE TimestampsAgree'
  OBVIOUS
<1>1. \A j \in Jobs : jobs[j] \in Job /\ Agrees(jobs[j])
  BY DEF TypeOK, TimestampsAgree, Agrees
<1>2. ASSUME \A j \in Jobs : Agrees(jobs'[j]) PROVE TimestampsAgree'
  BY <1>2 DEF TimestampsAgree, Agrees
<1>3. ASSUME jobs' = jobs PROVE TimestampsAgree'
  BY <1>1, <1>2, <1>3
<1>4. ASSUME NEW j \in Jobs, NEW x, Agrees(x), jobs' = [jobs EXCEPT ![j] = x]
      PROVE  TimestampsAgree'
  BY <1>1, <1>2, <1>4 DEF TypeOK
<1>5. ASSUME NEW rs, NEW S, jobs' = MarkDone(jobs, rs, S) PROVE TimestampsAgree'
  BY <1>1, <1>2, <1>5, AgreeingUpdates, Zenon DEF MarkDone, Completable
<1>6. ASSUME NEW S, Resume(S) PROVE TimestampsAgree'
  BY <1>1, <1>2, <1>6, AgreeingUpdates, Zenon DEF Resume
<1>7. CASE ApiStep
  <2>1. ASSUME NEW j \in Jobs, NEW D \in SUBSET Domains, NEW fresh \in BOOLEAN,
               CreateJob(j, D, fresh)
        PROVE  TimestampsAgree'
    <3> DEFINE e == D = {}
               x == [jobs[j] EXCEPT !.status = IF e THEN "done" ELSE "queued",
                                    !.fresh = fresh, !.finished_at = e]
    <3>1. jobs' = [jobs EXCEPT ![j] = x] /\ jobs[j].status = "none" /\ e \in BOOLEAN
      BY <2>1, Zenon DEF CreateJob, TypeOK
    <3> HIDE DEF e
    <3>2. Agrees(x)
      BY <1>1, <3>1, AgreeingUpdates, Zenon
    <3> HIDE DEF x
    <3> QED
      BY <1>4, <3>1, <3>2
  <2>2. ASSUME NEW j \in Jobs, CancelJob(j) PROVE TimestampsAgree'
    <3> DEFINE x == [jobs[j] EXCEPT !.status = "cancelled", !.paused_at = FALSE,
                                    !.finished_at = TRUE]
    <3>1. jobs' = [jobs EXCEPT ![j] = x]
      BY <2>2 DEF CancelJob, TypeOK
    <3>2. Agrees(x)
      BY <1>1, AgreeingUpdates, Zenon
    <3> HIDE DEF x
    <3> QED
      BY <1>4, <3>1, <3>2, Zenon
  <2>3. ASSUME NEW j \in Jobs, RequeueFailed(j) PROVE TimestampsAgree'
    <3> DEFINE x == [jobs[j] EXCEPT !.status = "running", !.finished_at = FALSE]
    <3>1. \/ jobs' = jobs
          \/ jobs' = [jobs EXCEPT ![j] = x] /\ jobs[j].status = "done"
      BY <2>3 DEF RequeueFailed, TypeOK
    <3>2. jobs[j].status = "done" => Agrees(x)
      BY <1>1, AgreeingUpdates, Zenon
    <3> HIDE DEF x
    <3> QED
      BY <1>3, <1>4, <3>1, <3>2
  <2>4. ASSUME NEW j \in Jobs, ResumeJob(j) \/ CompleteResumed(j) PROVE TimestampsAgree'
    BY <1>5, <1>6, <2>4 DEF ResumeJob, CompleteResumed
  <2>5. ASSUME NEW j \in Jobs, ResumeDies(j) \/ RetryCheck(j) PROVE TimestampsAgree'
    BY <1>3, <2>5 DEF ResumeDies, RetryCheck
  <2>6. CASE ResumePaused
    BY <1>6, <2>6 DEF ResumePaused
  <2> QED
    BY <1>7, <2>1, <2>2, <2>3, <2>4, <2>5, <2>6, ChoicesAssumption DEF ApiStep
<1>8. ASSUME NEW w \in Workers, WorkerStep(w) PROVE TimestampsAgree'
  <2>1. ASSUME NEW j \in Jobs, ClaimRow(w, j) PROVE TimestampsAgree'
    <3> DEFINE x == [jobs[j] EXCEPT !.status = IF jobs[j].status = "queued" THEN "running"
                                               ELSE jobs[j].status]
    <3>1. jobs' = [jobs EXCEPT ![j] = x]
      BY <2>1 DEF ClaimRow, TypeOK
    <3>2. Agrees(x)
      BY <1>1, AgreeingUpdates, Zenon
    <3> HIDE DEF x
    <3> QED
      BY <1>4, <3>1, <3>2
  <2>2. ASSUME NEW j \in Jobs, SkipJob(w, j) PROVE TimestampsAgree'
    BY <1>3, <2>2 DEF SkipJob
  <2>3. CASE PickJobs(w) \/ Heartbeat(w) \/ StopWorker(w) \/ ReleaseWorker(w)
    BY <1>3, <2>3, Zenon DEF PickJobs, Heartbeat, StopWorker, ReleaseWorker
  <2> QED
    BY <1>8, <2>1, <2>2, <2>3 DEF WorkerStep, ClaimLoop
<1>9. ASSUME NEW t \in Tokens, HandlerStep(t) PROVE TimestampsAgree'
  <2>1. CASE \/ CheckCache(t) \/ LockDomain(t) \/ RecheckCache(t) \/ FetchDone(t)
             \/ FetchCircuitOpen(t) \/ UnlockDomain(t) \/ RequeueRow(t) \/ FinishLost(t)
             \/ UnlockLost(t) \/ Notify(t)
    BY <1>3, <2>1, Zenon DEF CheckCache, LockDomain, RecheckCache, FetchDone, FetchCircuitOpen,
       UnlockDomain, RequeueRow, FinishLost, UnlockLost, Notify
  <2>2. CASE PauseActiveJobs(t)
    BY <1>1, <1>2, <2>2, AgreeingUpdates, Zenon DEF PauseActiveJobs
  <2>3. CASE FinishOwned(t)
    BY <1>5, <2>3, Zenon DEF FinishOwned
  <2> QED
    BY <1>9, <2>1, <2>2, <2>3 DEF HandlerStep
<1>10. CASE Sweep
  BY <1>5, <1>10 DEF Sweep
<1>11. CASE Reap \/ FaultStep \/ TimeStep \/ UNCHANGED vars
  BY <1>3, <1>11, Zenon DEF Reap, FaultStep, FetchAccountError, HandleFails, Crash, Outage, TimeStep,
     DelayPasses, RowGoesStale, LockLapses, CacheAges, vars
<1> QED
  BY <1>7, <1>8, <1>9, <1>10, <1>11 DEF Next

\* paused_at and finished_at say what the status says, through every order of
\* pauses, resumes, cancels, completions and retries (_transition,
\* pause_active_jobs, _resume_paused_for, requeue_failed).
THEOREM TimestampsAlwaysAgree == Spec => []TimestampsAgree
<1>1. Init => TimestampsAgree
  BY DEF Init, TimestampsAgree
<1> QED
  BY <1>1, TypeCorrect, TimestampStep, PTL DEF Spec

=============================================================================
