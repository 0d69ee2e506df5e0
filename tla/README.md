# Verification of email-extractor

TLA+ models of the job queue, the workers, the API's admission of jobs, the
provider keys, the rate limiting, the crawl of one domain, the webhooks and the
file uploads of email-extractor: model-checked with TLC on small instances and,
where a property matters most, proved with TLAPS for every instance.  All paths below
are relative to the repository.

## The system

| part | code | what it keeps | what changes it |
|---|---|---|---|
| API | `app/main.py`, `app/jobs.py` | nothing in memory but upload slots; everything in Postgres | create, list, cancel, resume, retry a job; save and delete provider keys |
| job queue | `app/queue.py`, `app/models.py` | tables `jobs`, `job_domains`, `domains` | claim, lock, unlock, requeue, finish, complete, retry, pause, heartbeat, sweep, reap, release |
| worker | `app/worker.py` | the live claims, the free slots | claim loop, one handler per claim, heartbeat loop, reap loop, drain |
| provider keys | `app/provider_keys.py` | a table, and a copy in each process | save, clear, periodic and forced refresh |
| webhooks | `app/webhook.py` | a bounded queue in the worker | submit, deliver with retries, close |
| rate limits | `app/ratelimit.py` | token bucket (process or Redis), semaphores, circuit breaker | acquire, release, penalise, check, record |
| pipeline | `app/pipeline/` | nothing between two domains | one domain: DNS, home page, discovery, fetches, extraction, ranking, TypeSafe, status |
| ingest, auth, users, views | the other files of `app/` | keys and users in Postgres | see `PROJECT.json` |

A job has a status (`queued`, `running`, `paused`, `done`, `cancelled`) and one
row per unique domain (`queued`, `running`, `done`).  Workers claim rows; each
claim has a token of its own, and every write to a claimed row or to a domain
lock is guarded by that token.  The `domains` table is shared by all jobs: it
caches the last result of a domain and holds the lock that keeps two jobs from
fetching it together.  A claim whose heartbeat stops for `LEASE_S` is reaped.

What makes this hard, and where the properties aim:

* several workers and the API change the same rows between any two transactions
  of a handler, and a handler may find that its row was taken away;
* a worker may crash, be stopped, lose its database connection for longer than
  the lease, or fail inside its own error path;
* jobs are paused, resumed, cancelled and retried while rows are in flight;
* marking a job done depends on rows other transactions are writing, under
  READ COMMITTED;
* cached results must be new enough for the job, the row and the retry;
* calls pass the circuit breaker concurrently, are cancelled between `check` and
  `record`, and report late;
* a fetch may be cancelled at each of the awaits it takes its slots and tokens at,
  and requests reach the shared bucket out of order;
* requests for jobs overlap, are repeated under one Idempotency-Key, and end at
  every one of the checks on their way;
* each process has its own copy of the provider key, which may be stale,
  undecryptable, or changed while a handler is being refused with the old one;
* the crawl of a domain has a deadline, an open breaker or an exception at any of
  its awaits, and must still give one consistent result.

`PROJECT.json` lists the hazards with the lines where they bite.

## Modules

| module | models |
|---|---|
| `JobQueue` | `queue.py`, `worker.py` and the job operations of `main.py` and `jobs.py` |
| `JobLifecycle` | the abstract specification: what the owner of a job sees |
| `CompletionTxn` | the transactions that mark a job done, one SQL statement at a time |
| `CircuitBreaker` | `ratelimit.CircuitBreaker` and the calls that go through it |
| `FetchGate` | `ratelimit.FetchGate`: the slots every fetch passes through |
| `TokenBucket` | the request budget: the bucket in Redis and the local ones |
| `Pipeline` | `pipeline/run.py`: `process_domain` from DNS to the result |
| `FetchRules` | `pipeline/fetch.py`: what an answer from the network becomes |
| `Discovery`, `SitemapWalk` | `pipeline/discovery/`: choice of pages, reading of sitemaps |
| `Judgment` | extraction order, `filter_rank.py`, `typesafe.py`, `status.py`, `_harvest` |
| `Webhooks` | `webhook.py` and the end of a handler in `worker.py` |
| `ProviderKeys` | `provider_keys.py`, its use in `main.py` and `worker.py` |
| `Admission` | `POST /jobs`: `auth.py`, `_create_job`, `_replay`, `create_job` |
| `JobClock` | the time columns of a job and `_active_seconds` |
| `Ingest` | `ingest.py` and its use in `jobs.py`, `main.py`: preview, job, download |
| `MCJobQueue`, `MCCompletionTxn` | the symmetry sets for TLC |
| `MCPipeline` | the sites, answers and verdicts of the instance |
| `MCServices` | FetchGate, TokenBucket, SitemapWalk, Webhooks, JobClock, Ingest, ProviderKeys and Admission in one run |
| `JobQueueProofs` | proofs about `JobQueue`: types and claims |
| `JobQueueRefinement` | proofs about `JobQueue`: it implements `JobLifecycle`, and what follows |
| `Ordering` | sorting a set and filtering a sequence, by position; no code of its own |
| `JobQueueLocks` | proofs about `JobQueue`: who may fetch, who may record, what may be reused |
| `TransactionProofs` | proofs about `CompletionTxn` and `Admission` |
| `FetchProofs` | proofs about `FetchGate`, `TokenBucket` and `CircuitBreaker` |
| `ServiceProofs` | proofs about `JobClock`, `Webhooks`, `Ingest` and `ProviderKeys` |
| `SelectionProofs` | lemmas about `Ordering`, `Discovery` and `Judgment`: what the sorts, filters, merges and cuts return |
| `CrawlProofs` | proofs about `Pipeline`, `FetchRules` and `SitemapWalk` |

### JobQueue

`jobs`, `rows` and `doms` are the three tables.  A step is one committed
transaction, stamped with its own time, or one change of a process's memory.
`handlers[t]` is the program of the claim with token `t`: its `phase` names the
transaction that comes next (`check`, `lock`, `recheck`, `fetch`, `pause`,
`unlock`, `requeue`, `finish`, `lost`, `notify`), so anything may happen between
two of them.  `workers` are process incarnations: the id in the code has a random
part, so an id is used once.  `picked` is the result of `_PICK_JOBS` between the
two statements of `claim`.  `resuming` holds the jobs between the committed resume
and its `complete_if_finished`.  `retrying` is the transaction of `retry_job`,
open since its first read.

Time is kept as what the code compares: a row is `available`, a heartbeat is
`stale`, a lock has `lapsed`, a cached result is `recent`, and it is `current` for
a row when it finished at or after the row's floor (the later of the job's
`created_at` and the row's `requeued_at`).  `requeued_at = now()` is the time its
transaction began: a result cached while the retry was open stays current.

Results are abstracted to `answer`, `failed` (a fetch_failed a retry sends back),
`refused` (one it does not) and `too_many` (the attempt limit).

Choices worth knowing:

* the ORDER BY of `_PICK_JOBS` is left open: fairness among owners is not checked;
* a token may be used again when nothing mentions it any more, which is a renaming
  of a new one;
* an exception in `claim` is a claim that did not happen; an exception in a handler
  is `HandleFails`, before or after the effect of its transaction, so a commit whose
  answer was lost is covered;
* a claim that lost its row compares with a floor the model no longer knows:
  `Currents` lets it come out either way;
* `Outage(w)` makes the worker's rows stale and its locks lapsed together; a row is
  never fresher than its lock, because a claim locks after it claimed and a
  heartbeat renews both;
* `stage`, `started_at`, counters and token usage are left out; jobs are never
  deleted, so `job is None` in the handler cannot happen.

### JobLifecycle

Status of each job and, for each row, `none`, `pending` or the result.  Actions:
create, start, record (with completion in the same step), complete, pause all,
resume some, cancel, retry.  `JobQueue!Implements` is the refinement: `Outcome`
maps the rows, everything else is hidden.  `CompletionTxn!UnretriedImplements` is a second
one, from single statements, for a job that was not retried.

### CompletionTxn

`JobQueue` takes `finish`, `requeue_failed` and the sweep as atomic.  Here they
are opened up for one job: each transaction has uncommitted writes, a statement
sees what is committed when it starts plus its own writes, `FOR UPDATE` and
`UPDATE` wait for the row lock, and an `UPDATE` that waited tests its own row
again but not its subquery.  Postgres itself is external, modelled from how the
code uses it.

### CircuitBreaker

The breaker lives in one event loop, so `check` and `record` are atomic, but any
number of calls are between the two.  Callers may be cancelled there, and results
of calls made before an opening arrive later.  Time is kept as the rest of the open
window and the time since the last close.  `lost` is a history variable that the
code does not have.

### FetchGate and TokenBucket

`gateTask[t]` is where fetch `t` stands in `__aenter__`: waiting for the breaker,
for a slot of the process, for a slot of its domain, for a token, or fetching.
`asyncio.Semaphore` is external: a counter and a queue, a release hands the slot to
the first waiter.  `gateDict` is the dictionary `_per_domain`, which maps a domain to a
semaphore object; a slot is given back by name, to whichever object the dictionary
holds at that time, and `release_domain` drops an object whose slots are all free.
`Cancel(t)` is a cancellation at an await of `__aenter__`; one during the fetch itself is
`Leave`, because `__aexit__` does the same however the fetch ended.

`TokenBucket` has the bucket in Redis and one in each process.  A process reads its
clock (`Ask`) and Redis runs the script later (`RunScript`), so stamps arrive late and
out of order; Redis may fail before or after it ran the script (`RedisFails`), and then
the local bucket decides.  Tokens and time are integers; the code's are floats.

### Pipeline, FetchRules, Discovery, SitemapWalk, Judgment

`phase` is where an attempt of `process_domain` is: `dns`, `wave1` (homepage, robots and
sitemap together), `discover`, `contact`, `rest`, `extract`, `judge`; then `wait` for
another attempt, `done`, `raised` (the account error that reaches the worker) or `crashed`
(another exception that does).  The fetches of a wave are separate, so their answers come
in any order.  Every request gets any of `Answers`: a record of what `FetchRules` tells
apart.  `cause` in an answer and `got`, `paid`, `account`, `blamed` are history used only by
properties: the pages that came with content, the fetches that came with a usage, where an
account error was met, and whose trouble was held against the provider.  `Deadline`,
`CircuitOpen` and `InternalError` are the three ways an attempt is cut short; `scratch` is
what survives the first of them.  Its pages are put together in the handler of the
`TimeoutError`, where an exception is caught by nobody: then the crawl is `crashed`, and the
worker's error path (`HandleFails` in `JobQueue`) takes over.

A page may be empty although Jina sent one (only scripts, say): it is not listed, but its
tokens are counted.  So `tokens` in the scratchpad is the sequence of the fetches whose
usage was added, not a number, and the properties can tell which are in it, and how often.

A link is a record of what the scoring of its path and anchor yields, an address a
record of its traits: tables of words and regular expressions stay outside, every
decision and every order (which of two equal candidates is kept, which page's score
counts, what comes first in a sort) is inside.  `Discovery!GoodChoice` is the reference
definition `select` is checked against.  Sorts and filters are those of `Ordering`, where the
k-th element is defined by how many come before it: TLC evaluates them, and facts about
them need no induction.  `SitemapWalk` is the loop of
`collect_sitemap_urls` over documents that may list each other; in `Pipeline` the walk's
outcome is any prefix of the site's mapped pages.

### Webhooks

One job with a webhook: handlers finish rows, read the counts, submit `domain.done` and
perhaps `job.done` to the bounded queue, and senders deliver with retries.  `Stop` is
`_drain` (handlers cancelled where they are, rows back), `Close` the end of the process
with what is still queued lost.  `age` and `counted` number the owner's retries, so that
completions are told apart.

### ProviderKeys

`keyRow` is the table, `keyMem` the copy of each process (`Unreadable` without the master
key), `keyFresh` whether it is younger than `REFRESH_S`, `keyReport` what it wrote to
`process_status`.  An admin's change is its steps (check, save, forced reload, resume),
a handler's too (crawl, refused, forced reload, pause), so a save may come between a
reload and a pause.  The model covers one minute of changes: `KEY_CHANGES_PER_MINUTE`,
which saves, refused keys and deletions share, bounds them.

### Admission

`admReq[r].st` is the next check on the way of request `r`: key and rate limit, the
person acting, upload slot, body, advisory lock, replay, webhook URL, job limit,
creation.  Every answer gives back the lock (end of the transaction) and the slot.
`JobMoves` is what the queue and other requests do to jobs meanwhile, `Revoke` an
operator removing a person.

### JobClock and Ingest

`JobClock` follows `started_at`, `finished_at`, `paused_at` and `paused_seconds` of one job
through all statements that write them; `clkRan` is history: the time it was running.  A
retry books the time up to the start of its transaction (`now()`) and takes effect when it
commits; `clkLate`, bounded by `MAX_LATE`, is how long these transactions took, which the code
reports as active time.
`Ingest` takes one file from its preview to the download.  A cell is the values in it and
its text as a column name; scoring and choosing columns, deriving domains from addresses
and the limits are as in the code.

## Runs

| run | instance | shows |
|---|---|---|
| `jobqueue_sharing` | 2 jobs, 1 domain, 2 workers, 1 fault, 1 outage, fresh jobs | `TypeOK`, `ClaimsConsistent`, `FetchExclusive`, `NoStaleReuse`, `RecordedByLatestClaim` |
| `jobqueue_retry` | 1 job, 2 domains, 1 worker with 2 slots, 1 fault, 1 retry | `DoneJobsAreFinished`, `TimestampsAgree`, `AnswersAreKept`, `CancelledIsFinal`, `Implements` |
| `jobqueue_liveness` | 1 job, 1 domain, 2 workers, 2 nonces, 1 fault, 1 outage | `JobsComplete`, `ClaimsEnd` |
| `completion` | 3 domains, 2 aborts, 2 retries, 2 pauses | `NoLostCompletion`, `CancelledStays`, `UnretriedImplements` |
| `breaker` | 3 callers, window of 3, 2 probes | `ProbesBounded`, `Recovers` |
| `pipeline` | 5 sites of a homepage and 6 pages, 4 addresses, 9 answers, both backends, 2 attempts | `AccountErrorStops`, `ResultSound`, `RejectedNeverBest`, `ResultAccountsForPages`, `RulesPickTheBest`, `ChoiceRight`, `SiteNeverBlamed`, `ProcessEnds` |
| `services` | one of eight components at a time, see below | `SlotsConserved`, `FetchesEnd`; `RateKept`; `WalkBounded`; `JobDoneEvents`, `EventsHandled`; `ActiveTimeRight`; `PreviewAgrees`; `PauseSeesTheKey`, `KeysSettle`; `ReplaysAgree`, `ActiveLimit`, `RequestsAnswered` |
| `jobqueue_readback` | 1 job, 1 domain, 1 retry | a disagreement, below |
| `completion_retry` | 2 domains, 1 retry | a disagreement, below |
| `breaker_half_open`, `breaker_escalation` | as `breaker` | disagreements, below |
| `pipeline_account` | as `pipeline` | a disagreement, below |

Bounds.  Two jobs with one common domain and two workers are the smallest system in
which a lock is contended, a dead owner's lock is taken over and a reaped row is
claimed by another process; the outage makes the first handler finish late.  Two
domains are needed to complete a job in two steps and to retry one of them.  One
fault is enough for a crash in any phase, an error path that fails, or an account
error that pauses.  `MaxDomainAttempts` is 0 in the liveness run (the setting is a
plain integer), so that the attempt limit `MaxDomainAttempts + 2` is reached with
few faults.  Two nonces are needed there so that a token is free while an abandoned
row waits for the reaper.  `MaxFaults`, `MaxOutages` and `MaxRetries` bound the
environment, not the code; the proofs do not fix them.

`services` puts components that share no state side by side: in each behaviour one runs
(`part`) and the others keep their initial state, so no product of their states is built.
The instances:

* gate: three fetches, two of one host, two slots in the process and one per domain, so
  that both queues fill and a domain is dropped while others wait;
* bucket: two processes, a clock of two ticks, a rate whose penalty changes the refill;
* walk: eleven documents and pages with cycles, a foreign one, a preferred and an excluded one, and
  budgets below what they offer;
* hooks: two domains, two handlers, two senders, room for one event, one retry by the
  owner and one stop;
* clock: six time units, of which retries' transactions take one; the steps between two
  ticks are not bounded;
* ingest: 2,816 files with and without header, with every kind of cell, up to and
  past the limits;
* keys: an API and a worker with and without the master key, two new keys, one admin and
  one handler, one restart, two changes;
* admission: three requests of one person, or of a person and the admin key, repeated and changed content under one
  key, an admin at the limit, one upload slot, two moves of jobs or revocations.

The sites of `pipeline` are a shop whose links repeat a page under two spellings and two
tiers and redirect to one page, a site that needs its sitemap and the fixed paths, one
that moved to another domain, and two parked ones.  Two attempts, one retry of a
fetch and one of a judgment let every loop repeat and run out.

Symmetry is used where only safety is checked.  `CHECK_DEADLOCK FALSE` is used for
`CompletionTxn`, `pipeline`, `pipeline_account` and `services`, because a finished job, crawl,
walk, upload or request stops.

Fairness (`jobqueue_liveness`).  Weak fairness of each handler's next transaction
(`process_domain` has a deadline, the webhook clients have timeouts), of the claim
loop, of reap and sweep (they run every 30 s in each worker), of `release_worker`
after a stop, and of time passing.  Nothing is assumed of the users.  The last
worker neither stops nor crashes: a deployment restarts it, under a new id.  In
`breaker`: time passes, a refused caller asks again, and a call ends somehow.

In `pipeline`: some step is taken while one is possible; every wait of the code has a
timeout, and the attempt one as a whole.  In `services`: a fetch in the gate, a handler
and a sender go on (requests have timeouts, naps and backoffs end); a request for a job
taken up goes on; `REFRESH_S` passes; and, strongly fair, a refresh that succeeds: the
loops run for ever and a database failure is not permanent.

## Disagreements between code and documentation

1. `completion_retry`: `requeue_failed` requeues rows and then reopens the job only
   if it is `done` in its snapshot.  If the last `finish` commits in between,
   neither sees the other: the job ends `done` with queued rows that no claim picks.
   `queue.py:261`: "Mark the job done once no row is queued or running."
2. `jobqueue_readback`: `requeued_at` is the start of the retry's transaction; a row
   that fails between the first read of `retry_job` and the update reads its own
   failure back.  `queue.py:302`: "requeued_at stops the row reading its own old
   failure back out of the shared cache".
3. `breaker_half_open`: a probe cancelled before it reports keeps the breaker
   half-open with no probe left to admit.  `ratelimit.py:187`: "then admits `probes`
   calls and closes if `probes_needed` of them succeed".
4. `breaker_escalation`: `_open` measures the time since the last close even if the
   breaker opened again since, so a long outage resets its own escalation.
   `ratelimit.py:199`: "The escalation resets only after the breaker has held closed".
5. `pipeline_account`: a page after the homepage that is refused with a 402 is taken for an
   empty page (`fetch_page` in `run.py` catches every `FetchError`), and a deadline may
   strike while the homepage's account error waits for robots.txt or the sitemap.  The
   domain is finished with a result, and no job is paused until another domain's homepage
   is refused.  `README.md:116`: "**Jina out of credit** (402) pauses every active job and
   fails no domain."  What does hold is `AccountErrorStops`: a homepage's account error ends
   the crawl of its domain.

## Proofs

`JobQueueProofs` proves, for any sets of jobs, domains, workers and nonces and any
bounds, from the assumptions named in `JobQueue`:

* `TypeCorrect`: `Spec => []TypeOK`;
* `ClaimsAreConsistent`: `Spec => []ClaimsConsistent`.

The inductive invariant is `ClaimInv`: `TypeOK`, `ClaimsConsistent`, every live
handler has a row (`HandlersHaveRows`), and a job that is not created has no rows
(`UncreatedEmpty`).  Each needs the others: a requeue gives an attempt back, so
`attempts` stays a natural number only because a running row has used one; the
handler that requeues writes the row it claimed; and `create_job` may set rows to
queued only because no claim can hold one of them.  Most steps satisfy `ClaimsStay`:
they start no handler, and leave each row with its claim or take it away for good.
`CreateJob` and `ClaimRow` are proved by themselves.

`JobQueueRefinement` proves, from the same assumptions:

* `QueueImplementsLifecycle`: `Spec => Implements`;
* `DoneMeansNothingLeft`: `Spec => []DoneJobsAreFinished`;
* `CancelledStaysCancelled`: `Spec => CancelledIsFinal`;
* `FinishedAnswersAreKept`: `Spec => AnswersAreKept`;
* `TimestampsAlwaysAgree`: `Spec => []TimestampsAgree`.

The refinement needs `ClaimInv` (the row a handler finishes is running, hence shown
as pending) and `ResultsReady` (a handler on its way to `finish` carries a result).
`VisibleStep` goes through the actions: nine of them are steps of the life cycle, at
least in some states, and the others are invisible, because they leave both tables
alone or because a row they touch shows the same before and after.
`LifecycleKeeps` then settles done and cancelled jobs and answers once, over the
eight steps of the life cycle instead of the thirty-odd of the queue; `Create` needs
`UncreatedEmpty` there.  `DoneMeansNothingLeft` is about transactions taken whole, as
`JobQueue` takes them; the `completion_retry` run shows what happens when they overlap.

`JobQueueLocks` proves, from the same assumptions:

* `FetchIsExclusive`: `Spec => []FetchExclusive`;
* `RecordedByTheLatestClaim`: `Spec => RecordedByLatestClaim`;
* `NothingStaleIsReused`: `Spec => []NoStaleReuse`.

The first needs `LockInv`: a worker that is not up has no handlers (`DownIdle`), and until
an outage every handler between its lock and the end of its fetch owns the lock, not
lapsed.  `DownIdle` is what makes `release_worker` harmless, the other half what keeps
`lock_domain` from taking a lock that is in use.  Most steps satisfy `LocksStay`.  The
second needs no invariant but `ClaimInv`: `NoneFinishes` holds of every step but
`FinishOwned`, and there the token in the row leads to the handler, its row and its
attempt.  The third needs `ReuseInv`, which says the same from the moment the cached
result was taken: a handler that found it under the lock has an `unlock` before its
`finish`.  It holds because a row stays current as long as one claim owns it
(`NoneClaimed`; only a retry takes `current` away, and only from rows that are done), and
because a job's `fresh` is set before any of its rows can be claimed (`FreshStays`).

`TransactionProofs` proves, for any number of domains and any bounds, from
`NamesAssumption`, `BoundsAssumption` and `StartedAssumption` (a started job has a domain: one
without is done when it is created):

* `CompletionTypes`: `Spec => []TypeOK`;
* `NoCompletionIsLost`: `Spec => []NoLostCompletion`;
* `UnretriedCompletionIsRight`: `Spec => []UnretriedDoneMeansFinished`;
* `UnretriedJobImplementsLifecycle`: `Spec => UnretriedImplements`;
* `CancelledIsNeverOverwritten`: `Spec => CancelledStays`.

`CompletionInv` ties each transaction's step to what it has written (`WritesOK`) and to the
lock of the job (`LockOK`), and says that a decision made under the lock is still right
when it is committed (`DecisionOK`).  No completion is lost because a `finish` takes the lock
before it looks at the other rows, so that of the last ones to commit one sees all.
The refinement joins the two levels: what is committed, with `Outcome` hiding the
difference between a queued and a running row, takes only steps of `JobLifecycle` until the
first retry.  A commit of `finish` is `Record`, because the status it decided on under the
lock is the one `Record` computes from the rows it commits (`CommitDecision`); those of the
resume and of the sweep are `Complete`; every other statement is invisible or a status
change.  This is what entitles `JobQueue` to take these transactions as one step each.
After a retry it fails, as the `completion_retry` run shows.

It also proves `ReplaysAlwaysAgree` and `ActiveLimitIsKept` for any requests of any people, from
`AdmissionAssumption`.  `AdmissionInv` says what each place of a request guarantees
(`Placed`): it holds its person's lock from the replay on, no job has its key after the
replay, and the count is below the limit when it creates.  The others cannot invalidate
this, because only the holder of the lock adds a job of that person, and what jobs do
meanwhile never adds one that counts.

`FetchProofs` proves

* `SlotsAreConserved` (`GateSpec => []SlotsConserved`), for any fetches, hosts and limits, from
  `GateAssumption`.  `GateInv` says of each semaphore that free places and holders add up
  to its limit, that its queue is the fetches waiting for it, each once, and that nobody
  waits while a place is free (which `SlotsConserved` says of the fetches: no wake-up is
  lost); and that a domain with somebody at its semaphore keeps its object,
  so that a slot is given back to the semaphore it was taken from.
* `RateIsKept` (`BucketSpec => []RateKept`), for any rates, costs, capacity and number of
  processes, from `BucketAssumption` (a penalty is no faster).  The invariant is a budget for
  each bucket: what was taken and what is left is at most the capacity and the rate up to
  the bucket's own timestamp, and that is never ahead of the clock.  A late stamp refills
  nothing, which is the whole point of the comparison in the script.
* `ProbesAreBounded` and `BreakerWithinBounds`: calls in flight and lost ones are at most those
  admitted, which are at most `Probes`, and the counters and times stay within their
  bounds (`BreakerInv`), from `ParametersAssumption`.  Conversely an admitted probe is in
  flight, lost or among the results (`Accounted`), and there are fewer results than `Probes`
  in a half-open period: so its places are used up only while a probe is in flight or
  after one was cancelled.  This is the safety half of `Recovers`; `breaker_half_open` shows
  the cancelled one.

`ServiceProofs` proves

* `ActiveTimeIsRight` for a clock of any length and any delay of the retries: the time since
  the first claim is booked as paused, was spent running, or is part of `clkLate` (`Accounts`), and which columns are set follows
  from the status (`Columns`).  A claim stamped later than a cancel is the one exception:
  nothing was run, and the maximum with 0 reports 0.
* `OneEventPerCompletion` (`HookSpec => []JobDoneEvents`), for any domains, handlers and
  retries, from `JobDomainsAssumption` (finitely many domains).  `HookInv` follows a
  completion from the transaction that made it to the handler that announces it: no two
  handlers, and no handler and an event already sent, have one completion.
* `DownloadIsAsPreviewed` (`IngestSpec => []PreviewAgrees`), for any files of finitely many rows and
  cells (`UploadsAssumption`): preview and job parse the file under the column both choose.
* `PausesSeeTheKey` (`KeySpec => []PauseSeesTheKey`), for any admins, handlers, changes and
  restarts, from `KeysAssumption` (a saved key is neither of the two marks for no key).

`CrawlProofs` proves, for any site, any answers of the network and of TypeSafe and any
limits:

* `AccountErrorStopsTheCrawl` (`CrawlSpec => []AccountErrorStops`), by following the error from the
  answer (`AccountErrorIsFinal`: it is not retried, by either backend) through the ladder to
  `raised`, or to the `domain_timeout` of a deadline that strikes first (`AccountInv`);
* `OnlyTheProviderIsBlamed`, an analysis of every answer the two fetchers may get;
* `ResultsAreSound`, `RejectedIsNeverBest`, `PagesAreAccountedFor`, `RulesPickBest` and
  `ChoiceIsRight`, from `CrawlInv`: a page that arrived was fetched in this attempt, the pages
  being fetched are discovery's choice, each once and none of them the homepage; the
  scratchpad's tokens are of fetches of this attempt that were paid for, each once, and
  whatever was paid is in them or of a fetch that is due to enter them (`BillInv`); every page in it is paid for in them and came
  with content (`ScratchInv`); what was extracted belongs to exactly these pages; and a
  result, by whichever of the ways to end, is `GoodResult`;
* `CrawlNeverGoesBack` (`CrawlSpec => NeverBack`): each step leads to a later stage, or brings one
  fetch, rung of the ladder or request to TypeSafe closer to its end and leaves the others alone;
  only a new attempt, one of `MAX_ATTEMPTS`, starts over, and nothing follows the end.  This is
  the safety half of `ProcessEnds`, from `ForwardInv`: which fetches may run in which stage.
  No run lists it: `ProcessEnds` is what the `pipeline` run asks about termination;
* `SitemapWalkIsBounded` (`WalkSpec => []WalkBounded`), from `WalkAssumption`: what was read is in
  `walkSeen` and adds up with the budget (`WalkInv`).

They rest on `SelectionProofs`.  `SortedIsRight` and its relatives say that a finite set sorted by a
strict total order is a sequence of its elements, each once and in order; the proof is
by the least counterexample, over the number of elements that come before one.  From it
follow that `select` makes a `GoodChoice`, that merging keeps every address with the pages it is
on, and that the first address of the ranking is of the best class.

The assumptions say what a site is.  `SitesAssumption`: links and finds have the right
shape; two links to one page have one tier and depth, because both are read from the
path; and a page shows fewer than 10,000 addresses.  The code does not enforce the last
one: `merge_pages` numbers the k-th address of page i with 10000 i + k, so the
numbers of two pages overlap beyond it, and the sort falls back to the order of
appearance, which the model does not have.  `BoundsAssumption`: limits are numbers, those on candidates
not 0.  `AnswersAssumption` says when an answer is the provider's doing, `AddressAssumption`
that "none" is no address.  TLC evaluates all of them on the instances.

Only model-checked: liveness (`JobsComplete`, `ClaimsEnd`, `Recovers`, `ProcessEnds`, `FetchesEnd`,
`EventsHandled`, `KeysSettle`, `RequestsAnswered`), because fairness and ENABLED are out of the
prover's reach.  Every safety property of a passing run is proved.

## Not modelled

* Text: HTML, e-mail and phone patterns, Cloudflare decoding, JSON-LD, URL and XML parsing,
  file formats, the word lists behind scores and classes.  One page in, some finds out; the
  models start from the finds.
* Floating-point time and tokens: integers here.
* The order in which `_PICK_JOBS` offers jobs, and Postgres's own deadlock detection (an
  aborted transaction is a failed one).
* Users with a key of their own, the making of keys and their hashes: lookups without
  concurrent state.  The worker's health report, the provider status cache, estimates and
  the other views decide nothing.
* Settings, schemas, error texts, logging, start-up, the upload page, migrations and
  `scripts/eval.py`.

The notes of the components in `PROJECT.json` say the same part by part.
