------------------------------ MODULE JobQueue ------------------------------
(***************************************************************************)
(* The Postgres job queue (app/queue.py), the worker that drains it        *)
(* (app/worker.py) and the operations of the jobs API that change a job's  *)
(* state (app/main.py, app/jobs.py).                                       *)
(*                                                                         *)
(* One step is one committed transaction, or one change of a process's own *)
(* memory.  A claim's handler is a small program: "phase" says which of    *)
(* its transactions comes next, so anything may happen between two of      *)
(* them.  Wall-clock time is abstracted to what the code compares: a row   *)
(* is available or not, a heartbeat is stale or not, a lock has lapsed or  *)
(* not, a cached result is current for a row or not.                       *)
(***************************************************************************)
EXTENDS Integers, FiniteSets

CONSTANTS
  Jobs,               \* job ids
  Domains,            \* crawl keys; a key is the seq number it has in a job
  Workers,            \* worker ids: one per process incarnation
  Nonces,             \* the random part of a claim token
  NoToken, NoRow,     \* NULL for a token, and for a row
  MaxDomainAttempts,  \* settings.max_domain_attempts
  Concurrency,        \* slots of one worker
  Outcomes,           \* results process_domain may return in this instance
  FreshChoices,       \* values of a new job's "fresh" in this instance
  MaxFaults,          \* bound: crashes, exceptions and account errors
  MaxOutages,         \* bound: heartbeat outages longer than the lease
  MaxRetries          \* bound: calls of POST /jobs/{id}/retry

Rows == Jobs \X Domains
Tokens == Workers \X Nonces

ASSUME DomainsAssumption == Domains \subseteq Nat
ASSUME NullAssumption == NoToken \notin Tokens /\ NoRow \notin Rows
ASSUME AttemptsAssumption == MaxDomainAttempts \in Nat
ASSUME ConcurrencyAssumption == Concurrency \in Nat \ {0}
ASSUME BoundsAssumption == MaxFaults \in Nat /\ MaxOutages \in Nat /\ MaxRetries \in Nat

VARIABLES
  jobs,      \* table jobs
  rows,      \* table job_domains
  doms,      \* table domains: the shared cache and the domain locks
  handlers,  \* the running handler of each claim, by token
  workers,   \* the worker processes
  picked,    \* the candidate jobs of a claim() in progress
  resuming,  \* resumed jobs whose complete_if_finished call is outstanding
  retrying,  \* the retry transaction open on each job
  left       \* what remains of the bounds

vars == <<jobs, rows, doms, handlers, workers, picked, resuming, retrying, left>>

-----------------------------------------------------------------------------
(* Types.                                                                  *)

\* "answer" stands for every status but fetch_failed; "failed" is a
\* fetch_failed with a reason in RETRYABLE_FAILURE_REASONS, "refused" one with
\* another reason, "too_many" the too_many_attempts result.
Results == {"answer", "failed", "refused", "too_many"}
Fetched == Results \ {"too_many"}
Failures == {"failed", "refused", "too_many"}

ASSUME ChoicesAssumption == Outcomes \subseteq Fetched /\ FreshChoices \subseteq BOOLEAN

\* The rows requeue_failed sends back.
Retryable == {"failed", "too_many"}

ActiveStatuses == {"queued", "running"}
JobStatuses == ActiveStatuses \cup {"none", "paused", "done", "cancelled"}

\* The timestamps are kept as "is set"; "none" is a job not created yet.
Job == [status : JobStatuses, fresh : BOOLEAN, paused_at : BOOLEAN,
        finished_at : BOOLEAN]

\* available: available_at <= now().  stale: heartbeat_at < now() - LEASE_S.
\* current: the domain's cached result finished at or after this row's floor,
\* the later of the job's created_at and the row's requeued_at.
Row == [state : {"absent", "queued", "running", "done"}, attempts : Nat,
        claimed_by : Tokens \cup {NoToken}, stale : BOOLEAN, available : BOOLEAN,
        result : Results \cup {"none"}, current : BOOLEAN]

\* lapsed: lock_until < now().  recent: finished_at is within CACHE_DAYS.
Domain == [result : Fetched \cup {"none"}, recent : BOOLEAN,
           lock_owner : Tokens \cup {NoToken}, lapsed : BOOLEAN]

Phases == {"idle", "check", "lock", "recheck", "fetch", "pause", "unlock",
           "requeue", "finish", "lost", "notify"}

\* What follows an unlock: "finish", or a requeue and why.
Nexts == {"none", "finish", "busy", "refund", "retry", "error"}

Handler == [phase : Phases, row : Rows \cup {NoRow}, attempts : Nat,
            result : Results \cup {"none"}, from_cache : BOOLEAN, next : Nexts]

Idle == [phase |-> "idle", row |-> NoRow, attempts |-> 0,
         result |-> "none", from_cache |-> FALSE, next |-> "none"]

\* open: retry_job has read the status and not yet called requeue_failed.
\* newer: the domains cached since that transaction began, hence after its now().
RetryTxn == [open : BOOLEAN, newer : SUBSET Domains]
NoRetry == [open |-> FALSE, newer |-> {}]

TypeOK ==
  /\ jobs \in [Jobs -> Job]
  /\ rows \in [Rows -> Row]
  /\ doms \in [Domains -> Domain]
  /\ handlers \in [Tokens -> Handler]
  /\ workers \in [Workers -> {"up", "draining", "dead"}]
  /\ picked \in [Workers -> SUBSET Jobs]
  /\ resuming \in SUBSET Jobs
  /\ retrying \in [Jobs -> RetryTxn]
  /\ left \in [faults : Nat, outages : Nat, retries : Nat]

Init ==
  /\ jobs = [j \in Jobs |-> [status |-> "none", fresh |-> FALSE,
                             paused_at |-> FALSE, finished_at |-> FALSE]]
  /\ rows = [r \in Rows |-> [state |-> "absent", attempts |-> 0, claimed_by |-> NoToken,
                             stale |-> FALSE, available |-> FALSE, result |-> "none",
                             current |-> FALSE]]
  /\ doms = [d \in Domains |-> [result |-> "none", recent |-> FALSE,
                                lock_owner |-> NoToken, lapsed |-> FALSE]]
  /\ handlers = [t \in Tokens |-> Idle]
  /\ workers = [w \in Workers |-> "up"]
  /\ picked = [w \in Workers |-> {}]
  /\ resuming = {}
  /\ retrying = [j \in Jobs |-> NoRetry]
  /\ left = [faults |-> MaxFaults, outages |-> MaxOutages, retries |-> MaxRetries]

-----------------------------------------------------------------------------
(* Helpers.                                                                *)

MaxClaims == MaxDomainAttempts + 2

WorkerOf(t) == t[1]

\* The claim tokens of one worker: claimed_by LIKE worker || '|%'.
TokensOf(w) == {t \in Tokens : WorkerOf(t) = w}

\* Worker._live: the tokens whose handler is still running.
Live(t) == handlers[t].phase # "idle"

\* A token new_token may return: the random part makes it one that nothing
\* mentions.  (Reusing a forgotten token is a renaming of using a new one.)
NewToken(t) ==
  /\ ~Live(t)
  /\ \A r \in Rows : rows[r].claimed_by # t
  /\ \A d \in Domains : doms[d].lock_owner # t

\* Faulty Owns: the row is running, by whichever claim.
OwnsAnyClaim(t) == rows[handlers[t].row].state = "running"

\* The guard of every write to a claimed row: still running, and by this claim.
Owns(t) ==
  LET r == handlers[t].row
  IN  rows[r].state = "running" /\ rows[r].claimed_by = t

\* Faulty Unfinished: looks only at running rows.
UnfinishedRunning(rs, j) == \E d \in Domains : rs[<<j, d>>].state = "running"

Unfinished(rs, j) == \E d \in Domains : rs[<<j, d>>].state \in {"queued", "running"}

\* Faulty Queued: claimed_by stays.
QueuedStillClaimed(row, attempts, available) ==
  [row EXCEPT !.state = "queued", !.stale = FALSE, !.attempts = attempts,
              !.available = available]

\* A row put back in the queue.
Queued(row, attempts, available) ==
  [row EXCEPT !.state = "queued", !.claimed_by = NoToken, !.stale = FALSE,
              !.attempts = attempts, !.available = available]

\* UPDATE domains SET lock_owner = NULL ... WHERE domain = d AND lock_owner = t
Unlocked(ds, d, t) ==
  IF ds[d].lock_owner = t
  THEN [ds EXCEPT ![d].lock_owner = NoToken, ![d].lapsed = FALSE]
  ELSE ds

\* Faulty Completable: any job that is not done yet.
CompletableAnyStatus(js, rs, j) == js[j].status # "done" /\ ~Unfinished(rs, j)

\* complete_if_finished, and the sweep's version of it, on one job.
Completable(js, rs, j) == js[j].status \in ActiveStatuses /\ ~Unfinished(rs, j)

MarkDone(js, rs, S) ==
  [j \in Jobs |-> IF j \in S /\ Completable(js, rs, j)
                  THEN [js[j] EXCEPT !.status = "done", !.finished_at = TRUE]
                  ELSE js[j]]

\* Faulty CacheUsable: the job's "fresh" is not looked at.
CacheUsableAnyJob(r, cur) ==
  LET c == doms[r[2]]
  IN  c.result # "none" /\ (cur \/ (c.result \notin Failures /\ c.recent))

\* cache_usable, for a claim on row r whose floor the cached result has passed
\* (cur) or not.
CacheUsable(r, cur) ==
  LET c == doms[r[2]]
  IN  /\ c.result # "none"
      /\ \/ cur
         \/ ~jobs[r[1]].fresh /\ c.result \notin Failures /\ c.recent

\* A claim compares with its own not_before.  While it owns the row that is the
\* row's requeued_at; once it lost the row, the row may have been retried since.
Currents(t) == IF Owns(t) THEN {rows[handlers[t].row].current} ELSE BOOLEAN

Go(t, phase) == handlers' = [handlers EXCEPT ![t].phase = phase]

End(t) == handlers' = [handlers EXCEPT ![t] = Idle]

\* Go to finish with this result; to an unlock, and from there to n.
GoFinish(t, result, from_cache) ==
  handlers' = [handlers EXCEPT ![t].phase = "finish", ![t].result = result,
                               ![t].from_cache = from_cache]

GoUnlock(t, n) == handlers' = [handlers EXCEPT ![t].phase = "unlock", ![t].next = n]

Fault == /\ left.faults > 0
         /\ left' = [left EXCEPT !.faults = @ - 1]

\* Bound: the last running worker neither stops nor crashes (in a deployment a
\* process that ends is started again, under a new id).
AnotherUp(w) == \E v \in Workers \ {w} : workers[v] = "up"

-----------------------------------------------------------------------------
(* The jobs API.                                                           *)

\* create_job: every unique domain is queued, cached or not.
CreateJob(j, D, fresh) ==
  /\ jobs[j].status = "none"
  /\ jobs' = [jobs EXCEPT ![j].status = IF D = {} THEN "done" ELSE "queued",
                          ![j].fresh = fresh, ![j].finished_at = (D = {})]
  /\ rows' = [r \in Rows |-> IF r[1] = j /\ r[2] \in D
                             THEN [rows[r] EXCEPT !.state = "queued", !.available = TRUE]
                             ELSE rows[r]]
  /\ UNCHANGED <<doms, handlers, workers, picked, resuming, retrying, left>>

\* Faulty CancelJob: paused_at stays.
CancelStillPaused(j) ==
  /\ jobs[j].status \in ActiveStatuses \cup {"paused"}
  /\ jobs' = [jobs EXCEPT ![j].status = "cancelled", ![j].finished_at = TRUE]
  /\ UNCHANGED <<rows, doms, handlers, workers, picked, resuming, retrying, left>>

\* cancel_job: _transition from any unfinished status.
CancelJob(j) ==
  /\ jobs[j].status \in ActiveStatuses \cup {"paused"}
  /\ jobs' = [jobs EXCEPT ![j].status = "cancelled", ![j].paused_at = FALSE,
                          ![j].finished_at = TRUE]
  /\ UNCHANGED <<rows, doms, handlers, workers, picked, resuming, retrying, left>>

\* The committed update of resume_job (one job) and of _resume_paused_for (all
\* of them, when a good key is saved); complete_if_finished follows.
Resume(S) ==
  /\ S # {}
  /\ \A j \in S : jobs[j].status = "paused"
  /\ jobs' = [j \in Jobs |-> IF j \in S
                             THEN [jobs[j] EXCEPT !.status = "running", !.paused_at = FALSE]
                             ELSE jobs[j]]
  /\ resuming' = resuming \cup S
  /\ UNCHANGED <<rows, doms, handlers, workers, picked, retrying, left>>

ResumeJob(j) == Resume({j})

ResumePaused == Resume({j \in Jobs : jobs[j].status = "paused"})

CompleteResumed(j) ==
  /\ j \in resuming
  /\ jobs' = MarkDone(jobs, rows, {j})
  /\ resuming' = resuming \ {j}
  /\ UNCHANGED <<rows, doms, handlers, workers, picked, retrying, left>>

\* The API process ends between the two transactions of a resume.
ResumeDies(j) ==
  /\ j \in resuming
  /\ resuming' = resuming \ {j}
  /\ UNCHANGED <<jobs, rows, doms, handlers, workers, picked, retrying, left>>

\* retry_job begins its transaction and reads the status.  (Bound: one retry of
\* a job at a time.)
RetryCheck(j) ==
  /\ left.retries > 0
  /\ ~retrying[j].open
  /\ jobs[j].status \notin {"none", "paused", "cancelled"}
  /\ retrying' = [retrying EXCEPT ![j].open = TRUE]
  /\ left' = [left EXCEPT !.retries = @ - 1]
  /\ UNCHANGED <<jobs, rows, doms, handlers, workers, picked, resuming>>

\* Faulty FailedRows: every finished row of the job.
FinishedRows(j) == {r \in Rows : r[1] = j /\ rows[r].state = "done"}

FailedRows(j) ==
  {r \in Rows : r[1] = j /\ rows[r].state = "done" /\ rows[r].result \in Retryable}

\* Faulty RequeueFailed: the job stays done.
RequeueWithoutReopen(j) ==
  /\ retrying[j].open
  /\ retrying' = [retrying EXCEPT ![j] = NoRetry]
  /\ rows' = [r \in Rows |-> IF r \in FailedRows(j) THEN Queued(rows[r], 0, TRUE) ELSE rows[r]]
  /\ UNCHANGED <<jobs, doms, handlers, workers, picked, resuming, left>>

\* requeue_failed, in the same transaction.  requeued_at = now() is the time that
\* transaction began: what was cached before it is no longer current for the row.
RequeueFailed(j) ==
  LET S == FailedRows(j)
  IN  /\ retrying[j].open
      /\ retrying' = [retrying EXCEPT ![j] = NoRetry]
      /\ rows' = [r \in Rows |->
                   IF r \in S
                   THEN [Queued(rows[r], 0, TRUE) EXCEPT !.current = r[2] \in retrying[j].newer]
                   ELSE rows[r]]
      /\ jobs' = IF S # {} /\ jobs[j].status = "done"
                 THEN [jobs EXCEPT ![j].status = "running", ![j].finished_at = FALSE]
                 ELSE jobs
      /\ UNCHANGED <<doms, handlers, workers, picked, resuming, left>>

-----------------------------------------------------------------------------
(* The worker: claiming.                                                   *)

\* Rows of j that _CLAIM_FROM_JOB may take, and the one it takes (lowest seq).
Available(j) == {d \in Domains : rows[<<j, d>>].state = "queued" /\ rows[<<j, d>>].available}

Eligible == {j \in Jobs : jobs[j].status \in ActiveStatuses /\ Available(j) # {}}

PickLimit == 5

\* The loop of Worker.run holds a free slot and reads _PICK_JOBS.  Which jobs
\* come first (the ORDER BY) is left open.
PickJobs(w) ==
  /\ workers[w] = "up"
  /\ picked[w] = {}
  /\ Cardinality({t \in TokensOf(w) : Live(t)}) < Concurrency
  /\ \E S \in SUBSET Eligible :
       /\ S # {}
       /\ S = Eligible \/ Cardinality(S) = PickLimit
       /\ picked' = [picked EXCEPT ![w] = S]
  /\ UNCHANGED <<jobs, rows, doms, handlers, workers, resuming, retrying, left>>

\* _CLAIM_FROM_JOB on a picked job, and the update of the job.  The job's status
\* is not read again.
ClaimRow(w, j) ==
  /\ workers[w] = "up"
  /\ j \in picked[w]
  /\ picked' = [picked EXCEPT ![w] = {}]
  /\ \E d \in Available(j), t \in TokensOf(w) :
       LET r == <<j, d>>
           n == rows[r].attempts + 1
       IN  /\ \A e \in Available(j) : d <= e
           /\ NewToken(t)
           /\ rows' = [rows EXCEPT ![r].state = "running", ![r].claimed_by = t,
                                   ![r].stale = FALSE, ![r].attempts = n]
           /\ handlers' = [handlers EXCEPT ![t] = [Idle EXCEPT !.phase = "check", !.row = r,
                                                              !.attempts = n]]
  /\ jobs' = [jobs EXCEPT ![j].status = IF @ = "queued" THEN "running" ELSE @]
  /\ UNCHANGED <<doms, workers, resuming, retrying, left>>

\* Another worker took the job's last available row: the next candidate.
SkipJob(w, j) ==
  /\ workers[w] = "up"
  /\ j \in picked[w]
  /\ Available(j) = {}
  /\ picked' = [picked EXCEPT ![w] = @ \ {j}]
  /\ UNCHANGED <<jobs, rows, doms, handlers, workers, resuming, retrying, left>>

\* Worker.run, while it has a free slot.
ClaimLoop(w) == PickJobs(w) \/ \E j \in Jobs : ClaimRow(w, j) \/ SkipJob(w, j)

-----------------------------------------------------------------------------
(* The worker: Worker._handle, one transaction at a time.                  *)

\* The first cache check and the attempt limit.
CheckCache(t) ==
  LET h == handlers[t]
  IN  /\ h.phase = "check"
      /\ \E cur \in Currents(t) :
           IF CacheUsable(h.row, cur)
           THEN GoFinish(t, doms[h.row[2]].result, TRUE)
           ELSE IF h.attempts > MaxClaims
                THEN GoFinish(t, "too_many", FALSE)
                ELSE Go(t, "lock")
      /\ UNCHANGED <<jobs, rows, doms, workers, picked, resuming, retrying, left>>

\* Faulty Lockable: no lock at all; a lock that never lapses.
LockableAlways(d) == TRUE
LockableUnowned(d) == doms[d].lock_owner = NoToken

\* The lock is free, or its owner has stopped renewing it.
Lockable(d) == doms[d].lock_owner = NoToken \/ doms[d].lapsed

\* lock_domain; when another claim holds the domain the row goes back.
LockDomain(t) ==
  LET d == handlers[t].row[2]
  IN  /\ handlers[t].phase = "lock"
      /\ \/ /\ Lockable(d)
            /\ doms' = [doms EXCEPT ![d].lock_owner = t, ![d].lapsed = FALSE]
            /\ Go(t, "recheck")
         \/ /\ ~Lockable(d)
            /\ handlers' = [handlers EXCEPT ![t].phase = "requeue", ![t].next = "busy"]
            /\ UNCHANGED doms
      /\ UNCHANGED <<jobs, rows, workers, picked, resuming, retrying, left>>

\* The second cache check, under the lock.
RecheckCache(t) ==
  LET h == handlers[t]
  IN  /\ h.phase = "recheck"
      /\ \E cur \in Currents(t) :
           IF CacheUsable(h.row, cur)
           THEN handlers' = [handlers EXCEPT ![t].phase = "unlock", ![t].next = "finish",
                                             ![t].result = doms[h.row[2]].result,
                                             ![t].from_cache = TRUE]
           ELSE Go(t, "fetch")
      /\ UNCHANGED <<jobs, rows, doms, workers, picked, resuming, retrying, left>>

\* process_domain returns a result.
FetchDone(t) ==
  /\ handlers[t].phase = "fetch"
  /\ \E res \in Outcomes : GoFinish(t, res, FALSE)
  /\ UNCHANGED <<jobs, rows, doms, workers, picked, resuming, retrying, left>>

\* process_domain gives up on an open circuit: a later pass, while attempts last.
FetchCircuitOpen(t) ==
  /\ handlers[t].phase = "fetch"
  /\ IF handlers[t].attempts < MaxDomainAttempts
     THEN GoUnlock(t, "retry")
     ELSE GoFinish(t, "failed", FALSE)
  /\ UNCHANGED <<jobs, rows, doms, workers, picked, resuming, retrying, left>>

\* process_domain raises a PROVIDER_ACCOUNT error.  The keys are read again: with
\* a changed key the domain is simply tried again, else every job is paused.
FetchAccountError(t) ==
  /\ handlers[t].phase = "fetch"
  /\ Fault
  /\ GoUnlock(t, "refund") \/ Go(t, "pause")
  /\ UNCHANGED <<jobs, rows, doms, workers, picked, resuming, retrying>>

\* pause_active_jobs: the key is shared, so every job stops.
PauseActiveJobs(t) ==
  /\ handlers[t].phase = "pause"
  /\ jobs' = [j \in Jobs |-> IF jobs[j].status \in ActiveStatuses
                             THEN [jobs[j] EXCEPT !.status = "paused", !.paused_at = TRUE]
                             ELSE jobs[j]]
  /\ GoUnlock(t, "refund")
  /\ UNCHANGED <<rows, doms, workers, picked, resuming, retrying, left>>

\* unlock_domain, on the way to a finish or a requeue.
UnlockDomain(t) ==
  LET h == handlers[t]
  IN  /\ h.phase = "unlock"
      /\ doms' = Unlocked(doms, h.row[2], t)
      /\ Go(t, IF h.next = "finish" THEN "finish" ELSE "requeue")
      /\ UNCHANGED <<jobs, rows, workers, picked, resuming, retrying, left>>

\* Faulty Refund: gives back more than the claim added.
RefundTwo(n) == IF n \in {"busy", "refund"} THEN 2 ELSE 0

\* The attempts a requeue gives back, and whether it has no delay.
Refund(n) == IF n \in {"busy", "refund"} THEN 1 ELSE 0
NoDelay(n) == n = "refund"

\* requeue.
RequeueRow(t) ==
  LET h == handlers[t]
      row == rows[h.row]
  IN  /\ h.phase = "requeue"
      /\ rows' = IF Owns(t)
                 THEN [rows EXCEPT ![h.row] = Queued(row, row.attempts - Refund(h.next),
                                                     NoDelay(h.next))]
                 ELSE rows
      /\ End(t)
      /\ UNCHANGED <<jobs, doms, workers, picked, resuming, retrying, left>>

\* What finish stores in the shared cache: a fetched result, unless it says
\* nothing about the site.
WritesCache(h) == ~h.from_cache /\ h.result # "too_many"

\* finish, when the claim still owns its row: the row, the cache, the lock and
\* the job in one transaction.
FinishOwned(t) ==
  LET h == handlers[t]
      d == h.row[2]
      cache == IF WritesCache(h)
               THEN [doms EXCEPT ![d].result = h.result, ![d].recent = TRUE]
               ELSE doms
      done(r) == IF r = h.row
                 THEN [rows[r] EXCEPT !.state = "done", !.claimed_by = NoToken,
                                      !.result = h.result]
                 ELSE rows[r]
      dated(r) == rows[r].current \/ (WritesCache(h) /\ r[2] = d /\ rows[r].state # "absent")
  IN  /\ h.phase = "finish"
      /\ Owns(t)
      /\ rows' = [r \in Rows |-> [done(r) EXCEPT !.current = dated(r)]]
      /\ doms' = Unlocked(cache, d, t)
      /\ jobs' = MarkDone(jobs, rows', {h.row[1]})
      /\ retrying' = [j \in Jobs |-> IF retrying[j].open /\ WritesCache(h)
                                     THEN [retrying[j] EXCEPT !.newer = @ \cup {d}]
                                     ELSE retrying[j]]
      /\ Go(t, "notify")
      /\ UNCHANGED <<workers, picked, resuming, left>>

\* finish, when the row was taken away: nothing is written.
FinishLost(t) ==
  /\ handlers[t].phase = "finish"
  /\ ~Owns(t)
  /\ Go(t, "lost")
  /\ UNCHANGED <<jobs, rows, doms, workers, picked, resuming, retrying, left>>

\* ... but the domain lock is given back.
UnlockLost(t) ==
  /\ handlers[t].phase = "lost"
  /\ doms' = Unlocked(doms, handlers[t].row[2], t)
  /\ End(t)
  /\ UNCHANGED <<jobs, rows, workers, picked, resuming, retrying, left>>

\* The webhook events are submitted (this may wait for a free place), and the
\* slot is released.
Notify(t) ==
  /\ handlers[t].phase = "notify"
  /\ End(t)
  /\ UNCHANGED <<jobs, rows, doms, workers, picked, resuming, retrying, left>>

\* An exception anywhere in _handle (a database error, a bug): handle() unlocks
\* and requeues; when that fails too, at once or later, the row is left to the
\* reaper.
HandleFails(t) ==
  /\ Live(t)
  /\ Fault
  /\ \/ handlers[t].next # "error" /\ GoUnlock(t, "error")
     \/ End(t)
  /\ UNCHANGED <<jobs, rows, doms, workers, picked, resuming, retrying>>

HandlerStep(t) ==
  \/ CheckCache(t) \/ LockDomain(t) \/ RecheckCache(t)
  \/ FetchDone(t) \/ FetchCircuitOpen(t)
  \/ PauseActiveJobs(t) \/ UnlockDomain(t) \/ RequeueRow(t)
  \/ FinishOwned(t) \/ FinishLost(t) \/ UnlockLost(t) \/ Notify(t)

-----------------------------------------------------------------------------
(* The worker: its loops, its shutdown and its death.                      *)

\* Faulty Heartbeat: renews all the worker ever claimed.
HeartbeatAll(w) ==
  /\ workers[w] = "up"
  /\ rows' = [r \in Rows |-> IF rows[r].claimed_by \in TokensOf(w)
                             THEN [rows[r] EXCEPT !.stale = FALSE] ELSE rows[r]]
  /\ doms' = [d \in Domains |-> IF doms[d].lock_owner \in TokensOf(w)
                                THEN [doms[d] EXCEPT !.lapsed = FALSE] ELSE doms[d]]
  /\ UNCHANGED <<jobs, handlers, workers, picked, resuming, retrying, left>>

\* heartbeat: renews the rows and the locks of the live claims.
Heartbeat(w) ==
  /\ workers[w] = "up"
  /\ rows' = [r \in Rows |->
               LET t == rows[r].claimed_by
               IN  IF rows[r].state = "running" /\ t \in TokensOf(w) /\ Live(t)
                   THEN [rows[r] EXCEPT !.stale = FALSE] ELSE rows[r]]
  /\ doms' = [d \in Domains |->
               LET t == doms[d].lock_owner
               IN  IF t \in TokensOf(w) /\ Live(t)
                   THEN [doms[d] EXCEPT !.lapsed = FALSE] ELSE doms[d]]
  /\ UNCHANGED <<jobs, handlers, workers, picked, resuming, retrying, left>>

\* reap: the rows whose claim has gone silent return to the queue; the attempt
\* stays counted and the domain lock is left to lapse.
StaleRows == {r \in Rows : rows[r].state = "running" /\ rows[r].stale}

Reap ==
  /\ \E w \in Workers : workers[w] = "up"
  /\ StaleRows # {}
  /\ rows' = [r \in Rows |-> IF r \in StaleRows
                             THEN Queued(rows[r], rows[r].attempts, TRUE) ELSE rows[r]]
  /\ UNCHANGED <<jobs, doms, handlers, workers, picked, resuming, retrying, left>>

\* complete_finished_jobs.
Sweep ==
  /\ \E w \in Workers : workers[w] = "up"
  /\ \E j \in Jobs : Completable(jobs, rows, j)
  /\ jobs' = MarkDone(jobs, rows, Jobs)
  /\ UNCHANGED <<rows, doms, handlers, workers, picked, resuming, retrying, left>>

\* Every handler of w is gone from memory.
DropHandlers(w) ==
  handlers' = [t \in Tokens |-> IF t \in TokensOf(w) THEN Idle ELSE handlers[t]]

\* SIGTERM: the loop ends and _drain cancels the handlers ...
StopWorker(w) ==
  /\ workers[w] = "up"
  /\ AnotherUp(w)
  /\ workers' = [workers EXCEPT ![w] = "draining"]
  /\ picked' = [picked EXCEPT ![w] = {}]
  /\ DropHandlers(w)
  /\ UNCHANGED <<jobs, rows, doms, resuming, retrying, left>>

\* ... and release_worker hands back what the worker held, no attempt used.
ReleaseWorker(w) ==
  /\ workers[w] = "draining"
  /\ workers' = [workers EXCEPT ![w] = "dead"]
  /\ rows' = [r \in Rows |->
               IF rows[r].state = "running" /\ rows[r].claimed_by \in TokensOf(w)
               THEN Queued(rows[r], IF rows[r].attempts > 0 THEN rows[r].attempts - 1 ELSE 0,
                           TRUE)
               ELSE rows[r]]
  /\ doms' = [d \in Domains |->
               IF doms[d].lock_owner \in TokensOf(w)
               THEN [doms[d] EXCEPT !.lock_owner = NoToken, !.lapsed = FALSE] ELSE doms[d]]
  /\ UNCHANGED <<jobs, handlers, picked, resuming, retrying, left>>

\* kill -9, OOM, or a release that failed: nothing is handed back.
Crash(w) ==
  /\ workers[w] \in {"up", "draining"}
  /\ AnotherUp(w)
  /\ Fault
  /\ workers' = [workers EXCEPT ![w] = "dead"]
  /\ picked' = [picked EXCEPT ![w] = {}]
  /\ DropHandlers(w)
  /\ UNCHANGED <<jobs, rows, doms, resuming, retrying>>

-----------------------------------------------------------------------------
(* Time.                                                                   *)

\* available_at is reached.
DelayPasses(r) ==
  /\ rows[r].state = "queued"
  /\ ~rows[r].available
  /\ rows' = [rows EXCEPT ![r].available = TRUE]
  /\ UNCHANGED <<jobs, doms, handlers, workers, picked, resuming, retrying, left>>

\* LEASE_S pass without a heartbeat of a claim that has no handler any more.
RowGoesStale(r) ==
  /\ rows[r].state = "running"
  /\ ~rows[r].stale
  /\ ~Live(rows[r].claimed_by)
  /\ rows' = [rows EXCEPT ![r].stale = TRUE]
  /\ UNCHANGED <<jobs, doms, handlers, workers, picked, resuming, retrying, left>>

\* The same for its domain lock.  A claim locks after it claimed, and a heartbeat
\* renews row and lock together, so a lock never lapses before its row is stale.
LockLapses(d) ==
  LET t == doms[d].lock_owner
  IN  /\ t # NoToken
      /\ ~doms[d].lapsed
      /\ ~Live(t)
      /\ \A r \in Rows : rows[r].state = "running" /\ rows[r].claimed_by = t => rows[r].stale
      /\ doms' = [doms EXCEPT ![d].lapsed = TRUE]
      /\ UNCHANGED <<jobs, rows, handlers, workers, picked, resuming, retrying, left>>

\* The heartbeats of a running worker fail for longer than the lease.
Outage(w) ==
  /\ workers[w] = "up"
  /\ left.outages > 0
  /\ left' = [left EXCEPT !.outages = @ - 1]
  /\ rows' = [r \in Rows |->
               IF rows[r].state = "running" /\ rows[r].claimed_by \in TokensOf(w)
               THEN [rows[r] EXCEPT !.stale = TRUE] ELSE rows[r]]
  /\ doms' = [d \in Domains |->
               IF doms[d].lock_owner \in TokensOf(w)
               THEN [doms[d] EXCEPT !.lapsed = TRUE] ELSE doms[d]]
  /\ UNCHANGED <<jobs, handlers, workers, picked, resuming, retrying>>

\* A cached result grows older than CACHE_DAYS.
CacheAges(d) ==
  /\ doms[d].recent
  /\ doms' = [doms EXCEPT ![d].recent = FALSE]
  /\ UNCHANGED <<jobs, rows, handlers, workers, picked, resuming, retrying, left>>

-----------------------------------------------------------------------------
(* The specification.                                                      *)

ApiStep ==
  \/ \E j \in Jobs : \/ \E D \in SUBSET Domains, fresh \in FreshChoices : CreateJob(j, D, fresh)
                     \/ CancelJob(j)
                     \/ ResumeJob(j) \/ CompleteResumed(j) \/ ResumeDies(j)
                     \/ RetryCheck(j) \/ RequeueFailed(j)
  \/ ResumePaused

WorkerStep(w) ==
  \/ ClaimLoop(w)
  \/ Heartbeat(w) \/ StopWorker(w) \/ ReleaseWorker(w)

FaultStep ==
  \/ \E t \in Tokens : FetchAccountError(t) \/ HandleFails(t)
  \/ \E w \in Workers : Crash(w) \/ Outage(w)

TimeStep ==
  \/ \E r \in Rows : DelayPasses(r) \/ RowGoesStale(r)
  \/ \E d \in Domains : LockLapses(d) \/ CacheAges(d)

Next ==
  \/ ApiStep
  \/ \E w \in Workers : WorkerStep(w)
  \/ \E t \in Tokens : HandlerStep(t)
  \/ Reap \/ Sweep
  \/ FaultStep
  \/ TimeStep

Spec == Init /\ [][Next]_vars

\* What the code keeps doing: a handler's transactions (process_domain has a
\* deadline), the claim loop, the reap loop, the drain; and time passes.
\* Nothing is assumed of the people calling the API.
Fairness ==
  /\ \A t \in Tokens : WF_vars(HandlerStep(t))
  /\ \A w \in Workers : WF_vars(ClaimLoop(w)) /\ WF_vars(ReleaseWorker(w))
  /\ WF_vars(Reap) /\ WF_vars(Sweep)
  /\ \A r \in Rows : WF_vars(DelayPasses(r) \/ RowGoesStale(r))
  /\ \A d \in Domains : WF_vars(LockLapses(d))

FairSpec == Spec /\ Fairness

-----------------------------------------------------------------------------
(* Safety.                                                                 *)

\* A row is running exactly when a claim holds it, no claim holds two rows, and
\* the live handler of a claim that still holds its row works on that row with
\* the attempt number stored in it (claim, requeue, reap, release_worker).
ClaimsConsistent ==
  /\ \A r \in Rows :
       /\ rows[r].state = "running" <=> rows[r].claimed_by # NoToken
       /\ rows[r].state = "running" => rows[r].attempts >= 1
  /\ \A r, q \in Rows : rows[r].claimed_by = rows[q].claimed_by /\ r # q
                         => rows[r].claimed_by = NoToken
  /\ \A t \in Tokens, r \in Rows :
       Live(t) /\ rows[r].claimed_by = t
       => handlers[t].row = r /\ handlers[t].attempts = rows[r].attempts

\* A job is marked done only with nothing left to do, and stays so: whatever
\* finishes, is retried, resumed, reaped or swept between two transactions, no
\* done job has a row that is queued or running (such a row would never be
\* claimed).  CompletionTxn asks the same of transactions that overlap.
DoneJobsAreFinished ==
  \A j \in Jobs : jobs[j].status = "done" => ~Unfinished(rows, j)

\* "so two jobs never fetch it at once" (models.py): until heartbeats fail for
\* longer than the lease, at most one handler is fetching a domain.  Crashes,
\* drains, reaps and failed error paths do not break this.
FetchExclusive ==
  left.outages = MaxOutages =>
    \A t, u \in Tokens :
      /\ handlers[t].phase = "fetch" /\ handlers[u].phase = "fetch"
      /\ handlers[t].row[2] = handlers[u].row[2]
      => t = u

\* paused_at and finished_at say what the status says, through every order of
\* pause, resume, cancel, completion and retry (the portal's active time is
\* computed from them).
TimestampsAgree ==
  \A j \in Jobs : /\ jobs[j].paused_at <=> jobs[j].status = "paused"
                  /\ jobs[j].finished_at <=> jobs[j].status \in {"done", "cancelled"}

\* A claim about to record a cached failure, or any cached result for a job that
\* asked for fresh data, took it from a fetch that ended after the row's floor: a
\* fresh job never records an older result, and no job repeats an old failure
\* (cache_usable).
NoStaleReuse ==
  \A t \in Tokens :
    LET h == handlers[t]
    IN  /\ h.phase = "finish" /\ h.from_cache /\ Owns(t)
        /\ h.result \in Failures \/ jobs[h.row[1]].fresh
        => rows[h.row].current

\* "requeued_at stops the row reading its own old failure back out of the shared
\* cache" (requeue_failed): when no other row has the domain, the failure that is
\* cached is the row's own, and no claim on the row is about to record it again.
NoOwnFailureReadBack ==
  \A t \in Tokens :
    LET h == handlers[t]
    IN  /\ h.phase = "finish" /\ h.from_cache /\ h.result \in Retryable /\ Owns(t)
        => \E q \in Rows \ {h.row} : q[2] = h.row[2] /\ rows[q].state # "absent"

-----------------------------------------------------------------------------
(* Action properties.                                                      *)

\* A row is only ever finished by the claim counted in it: the handler that
\* records the result is on the row's latest attempt.  A handler whose row was
\* reaped and claimed again records nothing (new_token, finish).
RecordedByLatestClaim ==
  [][\A r \in Rows :
       rows[r].state # "done" /\ rows'[r].state = "done"
       => \E t \in Tokens : /\ handlers[t].phase = "finish" /\ handlers[t].row = r
                            /\ handlers[t].attempts = rows[r].attempts
                            /\ handlers[t].result = rows'[r].result]_vars

\* A finished row with an answer keeps it: no retry, reap, late handler, error
\* path or shutdown takes the row or its result back ("Finished rows keep their
\* results", main.py retry_job).
AnswersAreKept ==
  [][\A r \in Rows :
       rows[r].state = "done" /\ rows[r].result \in {"answer", "refused"}
       => rows'[r].state = "done" /\ rows'[r].result = rows[r].result]_vars

\* Nothing brings a cancelled job back (_transition).
CancelledIsFinal ==
  [][\A j \in Jobs : jobs[j].status = "cancelled" => jobs'[j].status = "cancelled"]_vars

\* What a user sees of the jobs: the status of each, and for each domain whether
\* it is pending or which result is shown.
Shown(row) == CASE row.state = "absent" -> "none"
                [] row.state = "done" -> row.result
                [] OTHER -> "pending"

Outcome == [r \in Rows |-> Shown(rows[r])]

Lifecycle == INSTANCE JobLifecycle WITH status <- [j \in Jobs |-> jobs[j].status],
                                        outcome <- Outcome

\* The queue, the workers and the API together implement the life cycle of jobs:
\* claims, locks, caches, reaps, drains and crashes are invisible, and every
\* visible change is one of JobLifecycle's.
Implements == Lifecycle!Spec

-----------------------------------------------------------------------------
(* Liveness, under Fairness.                                               *)

\* An active job is done, paused or cancelled at some point: no row is stuck
\* behind a lock, a dead claim or an exhausted attempt count, and no finished
\* job is overlooked.
JobsComplete ==
  \A j \in Jobs : jobs[j].status \in ActiveStatuses
                  ~> jobs[j].status \notin ActiveStatuses

\* A claim does not keep a row for ever, and a domain can be locked again and
\* again ("the reaper never got them back", heartbeat; "forever, because the
\* heartbeat kept renewing it", finish).
ClaimsEnd ==
  /\ \A r \in Rows, t \in Tokens : rows[r].claimed_by = t ~> rows[r].claimed_by # t
  /\ \A d \in Domains : []<>Lockable(d)

=============================================================================
