--------------------------- MODULE JobQueueProofs ---------------------------
(***************************************************************************)
(* Proofs about JobQueue, for every number of jobs, domains, workers,      *)
(* attempts and faults.                                                    *)
(***************************************************************************)
EXTENDS JobQueue, TLAPS

\* A live handler has a row to work on.
HandlersHaveRows == \A t \in Tokens : Live(t) => handlers[t].row \in Rows

\* A job that is not created yet has no rows.
UncreatedEmpty == \A r \in Rows : jobs[r[1]].status = "none" => rows[r].state = "absent"

\* TypeOK alone is not inductive: a requeue gives an attempt back, so attempts
\* stays a natural number only because a running row has used at least one.
ClaimInv == TypeOK /\ HandlersHaveRows /\ UncreatedEmpty /\ ClaimsConsistent

-----------------------------------------------------------------------------
(* Facts about rows and tokens.                                            *)

\* A row is the pair of its job and its domain.
LEMMA RowFacts ==
  ASSUME NEW r \in Rows
  PROVE  r[1] \in Jobs /\ r[2] \in Domains /\ r = <<r[1], r[2]>>
BY DEF Rows

\* A worker's tokens are tokens.
LEMMA TokenFacts ==
  ASSUME NEW w \in Workers, NEW t \in TokensOf(w)
  PROVE  t \in Tokens /\ t # NoToken
BY NullAssumption DEF TokensOf

-----------------------------------------------------------------------------
(* Types and claims.                                                       *)

USE DEF JobStatuses, ActiveStatuses

\* The empty queue satisfies the invariant.
LEMMA ClaimInit == Init => ClaimInv
BY BoundsAssumption, RowFacts DEF Init, ClaimInv, TypeOK, HandlersHaveRows, UncreatedEmpty,
   ClaimsConsistent, Job, Row, Domain, Handler, Idle, RetryTxn, NoRetry, Results, Fetched,
   Phases, Nexts, Live

\* What a step keeps of the jobs, the handlers and the rows, unless it creates a
\* job or claims a row: no job is uncreated, no handler starts or changes its
\* claim, and a row stays with its claim or leaves it for good.
JobsStay == \A j \in Jobs : jobs'[j].status = "none" => jobs[j].status = "none"

HandlersStay ==
  \A t \in Tokens : Live(t)' => /\ Live(t)
                                /\ handlers'[t].row = handlers[t].row
                                /\ handlers'[t].attempts = handlers[t].attempts

RowsStay ==
  \A r \in Rows :
    \/ /\ rows'[r].state = rows[r].state
       /\ rows'[r].claimed_by = rows[r].claimed_by
       /\ rows'[r].attempts = rows[r].attempts
    \/ /\ rows'[r].state \in {"queued", "done"}
       /\ rows'[r].claimed_by = NoToken
       /\ rows[r].state # "absent"

\* Such a step preserves the invariant.
LEMMA ClaimsStay ==
  ASSUME ClaimInv, TypeOK', JobsStay, HandlersStay, RowsStay
  PROVE  ClaimInv'
<1>1. HandlersHaveRows'
  BY DEF ClaimInv, HandlersHaveRows, HandlersStay, Live
<1>2. UncreatedEmpty'
  BY RowFacts DEF ClaimInv, UncreatedEmpty, JobsStay, RowsStay
<1>3. ClaimsConsistent'
  <2>1. \A r \in Rows : /\ rows'[r].state = "running" <=> rows'[r].claimed_by # NoToken
                        /\ rows'[r].state = "running" => rows'[r].attempts >= 1
    BY DEF ClaimInv, ClaimsConsistent, RowsStay
  <2>2. \A r, q \in Rows : rows'[r].claimed_by = rows'[q].claimed_by /\ r # q
                            => rows'[r].claimed_by = NoToken
    BY DEF ClaimInv, ClaimsConsistent, RowsStay
  <2>3. ASSUME NEW t \in Tokens, NEW r \in Rows, Live(t)', rows'[r].claimed_by = t
        PROVE  handlers'[t].row = r /\ handlers'[t].attempts = rows'[r].attempts
    <3>1. t # NoToken
      BY NullAssumption
    <3> QED
      BY <2>3, <3>1 DEF ClaimInv, ClaimsConsistent, RowsStay, HandlersStay
  <2> QED
    BY <2>1, <2>2, <2>3 DEF ClaimsConsistent, Live
<1> QED
  BY <1>1, <1>2, <1>3 DEF ClaimInv

\* The helpers keep the types.
LEMMA QueuedFacts ==
  ASSUME NEW row \in Row, NEW n \in Nat, NEW b \in BOOLEAN
  PROVE  /\ Queued(row, n, b) \in Row
         /\ Queued(row, n, b).state = "queued"
         /\ Queued(row, n, b).claimed_by = NoToken
         /\ Queued(row, n, b).result = row.result
BY Zenon DEF Row, Queued

\* Unlocking a domain keeps the table well-typed.
LEMMA UnlockedFacts ==
  ASSUME NEW ds \in [Domains -> Domain], NEW d \in Domains, NEW t \in Tokens
  PROVE  Unlocked(ds, d, t) \in [Domains -> Domain]
BY DEF Unlocked, Domain

\* Marking jobs done keeps the table well-typed and creates no job.
LEMMA MarkDoneFacts ==
  ASSUME jobs \in [Jobs -> Job], NEW rs, NEW S
  PROVE  /\ MarkDone(jobs, rs, S) \in [Jobs -> Job]
         /\ \A j \in Jobs : /\ MarkDone(jobs, rs, S)[j].status
                                = IF j \in S /\ Completable(jobs, rs, j) THEN "done"
                                                                       ELSE jobs[j].status
                            /\ MarkDone(jobs, rs, S)[j].paused_at = jobs[j].paused_at
                            /\ MarkDone(jobs, rs, S)[j].finished_at
                                = IF j \in S /\ Completable(jobs, rs, j) THEN TRUE
                                                                       ELSE jobs[j].finished_at
BY Zenon DEF MarkDone, Job

\* What marking jobs done changes: at most the status and finished_at.
LEMMA MarkDoneStays ==
  ASSUME TypeOK, NEW rs, NEW S, jobs' = MarkDone(jobs, rs, S)
  PROVE  jobs' \in [Jobs -> Job] /\ JobsStay
<1>1. jobs \in [Jobs -> Job]
  BY DEF TypeOK
<1>2. jobs' \in [Jobs -> Job]
  BY <1>1, MarkDoneFacts, Zenon
<1>3. ASSUME NEW j \in Jobs
      PROVE  jobs'[j].status = "done" \/ jobs'[j].status = jobs[j].status
  <2>1. \/ jobs'[j] = jobs[j]
        \/ jobs'[j] = [jobs[j] EXCEPT !.status = "done", !.finished_at = TRUE]
    BY Zenon DEF MarkDone
  <2> QED
    BY <1>1, <2>1 DEF Job
<1> QED
  BY <1>2, <1>3 DEF JobsStay

\* A change of one job that leaves it created.
LEMMA ChangedJob ==
  ASSUME TypeOK, NEW j \in Jobs, NEW x \in Job, x.status # "none",
         jobs' = [jobs EXCEPT ![j] = x]
  PROVE  jobs' \in [Jobs -> Job] /\ JobsStay
BY DEF TypeOK, JobsStay

\* Heartbeats, leases and delays leave every row with its claim.
LEMMA TouchedRows ==
  ASSUME TypeOK, rows' = [r \in Rows |-> rows'[r]],
         \A r \in Rows : \/ rows'[r] = rows[r]
                         \/ \E b \in BOOLEAN : \/ rows'[r] = [rows[r] EXCEPT !.stale = b]
                                               \/ rows'[r] = [rows[r] EXCEPT !.available = b]
  PROVE  rows' \in [Rows -> Row] /\ RowsStay
<1>1. ASSUME NEW r \in Rows
      PROVE  /\ rows'[r] \in Row
             /\ rows'[r].state = rows[r].state
             /\ rows'[r].claimed_by = rows[r].claimed_by
             /\ rows'[r].attempts = rows[r].attempts
  <2>1. rows[r] \in Row
    BY DEF TypeOK
  <2>2. ASSUME NEW b \in BOOLEAN, NEW x, x = [rows[r] EXCEPT !.stale = b]
        PROVE  /\ x \in Row /\ x.state = rows[r].state
               /\ x.claimed_by = rows[r].claimed_by /\ x.attempts = rows[r].attempts
    BY <2>1, <2>2 DEF Row
  <2>3. ASSUME NEW b \in BOOLEAN, NEW x, x = [rows[r] EXCEPT !.available = b]
        PROVE  /\ x \in Row /\ x.state = rows[r].state
               /\ x.claimed_by = rows[r].claimed_by /\ x.attempts = rows[r].attempts
    BY <2>1, <2>3 DEF Row
  <2> QED
    BY <2>1, <2>2, <2>3
<1> QED
  BY <1>1 DEF RowsStay

\* Time changes no more than whether a lock has lapsed and a result is recent.
LEMMA TouchedDomains ==
  ASSUME TypeOK, doms' = [d \in Domains |-> doms'[d]],
         \A d \in Domains : \/ doms'[d] = doms[d]
                            \/ \E b \in BOOLEAN : \/ doms'[d] = [doms[d] EXCEPT !.lapsed = b]
                                                  \/ doms'[d] = [doms[d] EXCEPT !.recent = b]
  PROVE  doms' \in [Domains -> Domain]
<1>1. ASSUME NEW d \in Domains PROVE doms'[d] \in Domain
  <2>1. doms[d] \in Domain
    BY DEF TypeOK
  <2>2. ASSUME NEW b \in BOOLEAN PROVE [doms[d] EXCEPT !.lapsed = b] \in Domain
    BY <2>1 DEF Domain
  <2>3. ASSUME NEW b \in BOOLEAN PROVE [doms[d] EXCEPT !.recent = b] \in Domain
    BY <2>1 DEF Domain
  <2> QED
    BY <2>1, <2>2, <2>3
<1> QED
  BY <1>1

\* A change of a live handler that keeps its claim.
LEMMA ChangedHandler ==
  ASSUME TypeOK, NEW t \in Tokens, Live(t), NEW h \in Handler, h.row = handlers[t].row,
         h.attempts = handlers[t].attempts, handlers' = [handlers EXCEPT ![t] = h]
  PROVE  handlers' \in [Tokens -> Handler] /\ HandlersStay
BY DEF TypeOK, HandlersStay, Live

\* The moves of a live handler keep its claim.
LEMMA GoFacts ==
  ASSUME TypeOK, NEW t \in Tokens, Live(t), NEW p \in Phases, Go(t, p)
  PROVE  handlers' \in [Tokens -> Handler] /\ HandlersStay
BY SMTT(30) DEF TypeOK, Go, Handler, HandlersStay, Live

\* A handler that turns to finish keeps its claim.
LEMMA GoFinishFacts ==
  ASSUME TypeOK, NEW t \in Tokens, Live(t), NEW res \in Results \cup {"none"},
         NEW c \in BOOLEAN, GoFinish(t, res, c)
  PROVE  handlers' \in [Tokens -> Handler] /\ HandlersStay
<1> DEFINE h == [handlers[t] EXCEPT !.phase = "finish", !.result = res, !.from_cache = c]
<1>1. handlers' = [handlers EXCEPT ![t] = h]
  BY Zenon DEF GoFinish, TypeOK
<1>2. handlers[t] \in Handler /\ "finish" \in Phases
  BY DEF TypeOK, Phases
<1>3. h \in Handler /\ h.row = handlers[t].row /\ h.attempts = handlers[t].attempts
  BY <1>2, Zenon DEF Handler
<1> HIDE DEF h
<1> QED
  BY <1>1, <1>3, ChangedHandler, Zenon

\* A handler that turns to an unlock keeps its claim.
LEMMA GoUnlockFacts ==
  ASSUME TypeOK, NEW t \in Tokens, Live(t), NEW n \in Nexts, GoUnlock(t, n)
  PROVE  handlers' \in [Tokens -> Handler] /\ HandlersStay
<1> DEFINE h == [handlers[t] EXCEPT !.phase = "unlock", !.next = n]
<1>1. handlers' = [handlers EXCEPT ![t] = h]
  BY Zenon DEF GoUnlock, TypeOK
<1>2. handlers[t] \in Handler /\ "unlock" \in Phases
  BY DEF TypeOK, Phases
<1>3. h \in Handler /\ h.row = handlers[t].row /\ h.attempts = handlers[t].attempts
  BY <1>2 DEF Handler
<1> HIDE DEF h
<1> QED
  BY <1>1, <1>3, ChangedHandler, Zenon

\* The idle handler is a handler.
LEMMA IdleFacts == Idle \in Handler /\ Idle.phase = "idle"
BY DEF Idle, Handler, Phases, Results, Nexts

\* A handler that ends leaves the others alone.
LEMMA EndFacts ==
  ASSUME TypeOK, NEW t \in Tokens, End(t)
  PROVE  handlers' \in [Tokens -> Handler] /\ HandlersStay
BY IdleFacts DEF TypeOK, End, HandlersStay, Live

\* A worker that goes takes its handlers along and leaves the others alone.
LEMMA DropHandlersFacts ==
  ASSUME TypeOK, NEW w \in Workers, DropHandlers(w)
  PROVE  handlers' \in [Tokens -> Handler] /\ HandlersStay
BY IdleFacts DEF TypeOK, DropHandlers, HandlersStay, Live

\* A live handler's row is a row, with a job and a domain.
LEMMA LiveRow ==
  ASSUME ClaimInv, NEW t \in Tokens, Live(t)
  PROVE  /\ handlers[t] \in Handler /\ handlers[t].row \in Rows
         /\ handlers[t].row[1] \in Jobs /\ handlers[t].row[2] \in Domains
         /\ rows[handlers[t].row] \in Row /\ doms[handlers[t].row[2]] \in Domain
BY RowFacts DEF ClaimInv, HandlersHaveRows, TypeOK

\* create_job fills rows that were absent.
LEMMA CreateJobClaims ==
  ASSUME ClaimInv, NEW j \in Jobs, NEW D \in SUBSET Domains, NEW fresh \in BOOLEAN,
         CreateJob(j, D, fresh)
  PROVE  ClaimInv'
<1>1. TypeOK'
  <2> DEFINE empty == D = {}
             s == IF empty THEN "done" ELSE "queued"
             new == [jobs[j] EXCEPT !.status = s, !.fresh = fresh, !.finished_at = empty]
  <2>1. jobs' = [jobs EXCEPT ![j] = new]
    BY Zenon DEF ClaimInv, TypeOK, CreateJob
  <2>2. empty \in BOOLEAN /\ s \in JobStatuses /\ jobs[j] \in Job
    BY DEF ClaimInv, TypeOK
  <2> HIDE DEF empty, s
  <2>3. new \in Job
    BY <2>2, Zenon DEF Job
  <2> HIDE DEF new
  <2>4. jobs' \in [Jobs -> Job]
    BY <2>1, <2>3 DEF ClaimInv, TypeOK
  <2>5. rows' \in [Rows -> Row]
    <3>1. ASSUME NEW r \in Rows PROVE rows'[r] \in Row
      <4>1. \/ rows'[r] = rows[r]
            \/ rows'[r] = [rows[r] EXCEPT !.state = "queued", !.available = TRUE]
        BY Zenon DEF CreateJob
      <4>2. rows[r] \in Row
        BY DEF ClaimInv, TypeOK
      <4> QED
        BY <4>1, <4>2, Zenon DEF Row
    <3>2. rows' = [r \in Rows |-> rows'[r]]
      BY Zenon DEF CreateJob
    <3> QED
      BY <3>1, <3>2
  <2> QED
    BY <2>4, <2>5, Zenon DEF ClaimInv, TypeOK, CreateJob
<1>2. \A r \in Rows : /\ rows'[r].claimed_by = rows[r].claimed_by
                      /\ rows'[r].attempts = rows[r].attempts
                      /\ rows'[r].state # rows[r].state => /\ rows[r].state = "absent"
                                                           /\ rows'[r].state = "queued"
  <2> SUFFICES ASSUME NEW r \in Rows
               PROVE  /\ rows'[r].claimed_by = rows[r].claimed_by
                      /\ rows'[r].attempts = rows[r].attempts
                      /\ rows'[r].state # rows[r].state => /\ rows[r].state = "absent"
                                                           /\ rows'[r].state = "queued"
    OBVIOUS
  <2>1. \/ rows'[r] = rows[r]
        \/ /\ rows'[r] = [rows[r] EXCEPT !.state = "queued", !.available = TRUE]
           /\ jobs[r[1]].status = "none"
    BY Zenon DEF CreateJob
  <2>2. rows[r] \in Row /\ (jobs[r[1]].status = "none" => rows[r].state = "absent")
    BY DEF ClaimInv, TypeOK, UncreatedEmpty
  <2> QED
    BY <2>1, <2>2 DEF Row
<1>3. UncreatedEmpty'
  <2> SUFFICES ASSUME NEW r \in Rows, jobs'[r[1]].status = "none"
               PROVE  rows'[r].state = "absent"
    BY DEF UncreatedEmpty
  <2>1. r[1] \in Jobs /\ jobs[j] \in Job
    BY RowFacts DEF ClaimInv, TypeOK
  <2>2. r[1] # j
    BY <2>1, Zenon DEF CreateJob, ClaimInv, TypeOK, Job
  <2>3. rows'[r] = rows[r] /\ jobs'[r[1]] = jobs[r[1]]
    BY <2>1, <2>2, Zenon DEF CreateJob, ClaimInv, TypeOK
  <2> QED
    BY <2>3 DEF ClaimInv, UncreatedEmpty
<1>4. HandlersHaveRows'
  BY Zenon DEF ClaimInv, CreateJob, HandlersHaveRows, Live
<1>5. ClaimsConsistent'
  <2>1. \A r \in Rows : rows'[r].state = "running" <=> rows[r].state = "running"
    BY <1>2
  <2>2. handlers' = handlers
    BY Zenon DEF CreateJob
  <2> QED
    BY <1>2, <2>1, <2>2 DEF ClaimInv, ClaimsConsistent, Live
<1> QED
  BY <1>1, <1>3, <1>4, <1>5 DEF ClaimInv

\* claim hands a queued row to a token that nothing mentions.
LEMMA ClaimRowClaims ==
  ASSUME ClaimInv, NEW w \in Workers, NEW j \in Jobs, ClaimRow(w, j)
  PROVE  ClaimInv'
<1>1. PICK d \in Available(j), t \in TokensOf(w) :
        /\ NewToken(t)
        /\ rows' = [rows EXCEPT ![<<j, d>>].state = "running", ![<<j, d>>].claimed_by = t,
                                ![<<j, d>>].stale = FALSE,
                                ![<<j, d>>].attempts = rows[<<j, d>>].attempts + 1]
        /\ handlers' = [handlers EXCEPT ![t] = [Idle EXCEPT !.phase = "check",
                                                            !.row = <<j, d>>,
                                                !.attempts = rows[<<j, d>>].attempts + 1]]
  BY Zenon DEF ClaimRow
<1>2. /\ <<j, d>> \in Rows /\ rows[<<j, d>>].state = "queued"
      /\ t \in Tokens /\ t # NoToken
  BY TokenFacts DEF Available, Rows
<1>3. handlers'[t] = [phase |-> "check", row |-> <<j, d>>,
                      attempts |-> rows[<<j, d>>].attempts + 1,
                      result |-> "none", from_cache |-> FALSE, next |-> "none"]
  BY <1>1, <1>2, Zenon DEF ClaimInv, TypeOK, Idle
<1>4. TypeOK'
  <2>1. jobs' \in [Jobs -> Job]
    <3> DEFINE s == IF jobs[j].status = "queued" THEN "running" ELSE jobs[j].status
    <3>1. jobs' = [jobs EXCEPT ![j].status = s]
      BY DEF ClaimRow
    <3>2. s \in JobStatuses
      BY DEF ClaimInv, TypeOK, Job
    <3> HIDE DEF s
    <3> QED
      BY <3>1, <3>2 DEF ClaimInv, TypeOK, Job
  <2>2. rows' \in [Rows -> Row]
    <3> DEFINE q == <<j, d>>
               n == rows[q].attempts + 1
               x == [rows[q] EXCEPT !.state = "running", !.claimed_by = t, !.stale = FALSE,
                                    !.attempts = n]
    <3>1. rows' = [rows EXCEPT ![q] = x]
      BY <1>1, <1>2, Zenon DEF ClaimInv, TypeOK
    <3>2. rows[q] \in Row /\ n \in Nat
      BY <1>2 DEF ClaimInv, TypeOK, Row
    <3> HIDE DEF q, n
    <3>3. x \in Row
      BY <1>2, <3>2, Zenon DEF Row
    <3> HIDE DEF x
    <3> QED
      BY <3>1, <3>3, Zenon DEF ClaimInv, TypeOK
  <2>3. handlers' \in [Tokens -> Handler]
    <3>1. rows[<<j, d>>].attempts + 1 \in Nat
      BY <1>2 DEF ClaimInv, TypeOK, Row
    <3>2. handlers'[t] \in Handler
      BY <1>2, <1>3, <3>1 DEF Handler, Phases, Results, Nexts
    <3> QED
      BY <1>1, <1>2, <3>2 DEF ClaimInv, TypeOK
  <2> QED
    BY <2>1, <2>2, <2>3 DEF ClaimRow, ClaimInv, TypeOK
<1>5. /\ \A r \in Rows \ {<<j, d>>} : rows'[r] = rows[r]
      /\ rows'[<<j, d>>].state = "running" /\ rows'[<<j, d>>].claimed_by = t
      /\ rows'[<<j, d>>].attempts = rows[<<j, d>>].attempts + 1
      /\ rows[<<j, d>>].attempts \in Nat
      /\ \A u \in Tokens \ {t} : handlers'[u] = handlers[u]
  BY <1>1, <1>2 DEF ClaimInv, TypeOK, Row
<1>6. HandlersHaveRows'
  BY <1>2, <1>3, <1>5 DEF ClaimInv, HandlersHaveRows, Live
<1>7. UncreatedEmpty'
  <2>1. \A i \in Jobs : jobs'[i].status = "none" <=> jobs[i].status = "none"
    BY DEF ClaimRow, ClaimInv, TypeOK, Job
  <2> QED
    BY <1>2, <1>5, <2>1, RowFacts DEF ClaimInv, UncreatedEmpty, Rows
<1>8. ClaimsConsistent'
  <2>1. \A r \in Rows : rows[r].claimed_by # t
    BY <1>1 DEF NewToken
  <2> QED
    BY <1>2, <1>3, <1>5, <2>1 DEF ClaimInv, ClaimsConsistent, Live
<1> QED
  BY <1>4, <1>6, <1>7, <1>8 DEF ClaimInv

\* cancel_job.
LEMMA CancelJobClaims ==
  ASSUME ClaimInv, NEW j \in Jobs, CancelJob(j)
  PROVE  ClaimInv'
<1>1. jobs' \in [Jobs -> Job] /\ JobsStay
  <2> DEFINE x == [jobs[j] EXCEPT !.status = "cancelled", !.paused_at = FALSE,
                                  !.finished_at = TRUE]
  <2>1. jobs' = [jobs EXCEPT ![j] = x]
    BY DEF CancelJob, ClaimInv, TypeOK
  <2>2. jobs[j] \in Job
    BY DEF ClaimInv, TypeOK
  <2>3. x \in Job /\ x.status = "cancelled"
    BY <2>2, Zenon DEF Job
  <2> HIDE DEF x
  <2> QED
    BY <2>1, <2>3, ChangedJob, Zenon DEF ClaimInv
<1>2. TypeOK'
  BY <1>1 DEF ClaimInv, TypeOK, CancelJob
<1>3. JobsStay /\ HandlersStay /\ RowsStay
  BY <1>1 DEF CancelJob, JobsStay, HandlersStay, RowsStay, Live
<1> QED
  BY <1>2, <1>3, ClaimsStay

\* resume_job and _resume_paused_for.
LEMMA ResumeClaims ==
  ASSUME ClaimInv, NEW S \in SUBSET Jobs, Resume(S)
  PROVE  ClaimInv'
<1>1. jobs' \in [Jobs -> Job] /\ JobsStay
  <2>1. ASSUME NEW j \in Jobs
        PROVE  jobs'[j] \in Job /\ (jobs'[j].status = "none" => jobs[j].status = "none")
    <3>1. \/ jobs'[j] = jobs[j]
          \/ jobs'[j] = [jobs[j] EXCEPT !.status = "running", !.paused_at = FALSE]
      BY Zenon DEF Resume
    <3>2. jobs[j] \in Job
      BY DEF ClaimInv, TypeOK
    <3> QED
      BY <3>1, <3>2, Zenon DEF Job
  <2>2. jobs' = [j \in Jobs |-> jobs'[j]]
    BY Zenon DEF Resume
  <2> QED
    BY <2>1, <2>2 DEF JobsStay
<1>2. TypeOK'
  BY <1>1, Zenon DEF ClaimInv, TypeOK, Resume
<1>3. JobsStay /\ HandlersStay /\ RowsStay
  BY <1>1, Zenon DEF Resume, JobsStay, HandlersStay, RowsStay, Live
<1> QED
  BY <1>2, <1>3, ClaimsStay

\* complete_if_finished after a resume.
LEMMA CompleteResumedClaims ==
  ASSUME ClaimInv, NEW j \in Jobs, CompleteResumed(j)
  PROVE  ClaimInv'
<1>1. jobs' \in [Jobs -> Job] /\ JobsStay
  BY MarkDoneStays DEF ClaimInv, CompleteResumed
<1>2. TypeOK'
  BY <1>1, Zenon DEF ClaimInv, TypeOK, CompleteResumed
<1>3. JobsStay /\ HandlersStay /\ RowsStay
  BY <1>1 DEF CompleteResumed, JobsStay, HandlersStay, RowsStay, Live
<1> QED
  BY <1>2, <1>3, ClaimsStay

\* complete_finished_jobs.
LEMMA SweepClaims ==
  ASSUME ClaimInv, Sweep
  PROVE  ClaimInv'
<1>1. jobs' \in [Jobs -> Job] /\ JobsStay
  BY MarkDoneStays DEF ClaimInv, Sweep
<1>2. TypeOK'
  BY <1>1 DEF ClaimInv, TypeOK, Sweep
<1>3. JobsStay /\ HandlersStay /\ RowsStay
  BY <1>1 DEF Sweep, JobsStay, HandlersStay, RowsStay, Live
<1> QED
  BY <1>2, <1>3, ClaimsStay

\* An interrupted resume.
LEMMA ResumeDiesClaims ==
  ASSUME ClaimInv, NEW j \in Jobs, ResumeDies(j)
  PROVE  ClaimInv'
<1>1. TypeOK'
  BY DEF ClaimInv, TypeOK, ResumeDies
<1>2. JobsStay /\ HandlersStay /\ RowsStay
  BY DEF ResumeDies, JobsStay, HandlersStay, RowsStay, Live
<1> QED
  BY <1>1, <1>2, ClaimsStay

\* retry_job reads the status.
LEMMA RetryCheckClaims ==
  ASSUME ClaimInv, NEW j \in Jobs, RetryCheck(j)
  PROVE  ClaimInv'
<1>1. retrying' \in [Jobs -> RetryTxn]
  BY Zenon DEF ClaimInv, TypeOK, RetryCheck, RetryTxn
<1>2. left' \in [faults : Nat, outages : Nat, retries : Nat]
  BY DEF ClaimInv, TypeOK, RetryCheck
<1>3. TypeOK'
  BY <1>1, <1>2 DEF ClaimInv, TypeOK, RetryCheck
<1>4. JobsStay /\ HandlersStay /\ RowsStay
  BY <1>1, <1>2 DEF RetryCheck, JobsStay, HandlersStay, RowsStay, Live
<1> QED
  BY <1>3, <1>4, ClaimsStay

\* requeue_failed: the rows it takes are done.
LEMMA RequeueFailedClaims ==
  ASSUME ClaimInv, NEW j \in Jobs, RequeueFailed(j)
  PROVE  ClaimInv'
<1>1. jobs' \in [Jobs -> Job] /\ JobsStay
  <2> DEFINE x == [jobs[j] EXCEPT !.status = "running", !.finished_at = FALSE]
  <2>1. jobs' = jobs \/ jobs' = [jobs EXCEPT ![j] = x]
    BY Zenon DEF RequeueFailed, ClaimInv, TypeOK
  <2>2. jobs[j] \in Job
    BY DEF ClaimInv, TypeOK
  <2>3. x \in Job /\ x.status = "running"
    BY <2>2, Zenon DEF Job
  <2> HIDE DEF x
  <2>4. CASE jobs' = jobs
    BY <2>4 DEF ClaimInv, TypeOK, JobsStay
  <2> QED
    BY <2>1, <2>3, <2>4, ChangedJob DEF ClaimInv
<1>2. retrying' \in [Jobs -> RetryTxn]
  BY DEF ClaimInv, TypeOK, RequeueFailed, RetryTxn, NoRetry
<1>3. ASSUME NEW r \in Rows, r \in FailedRows(j)
      PROVE  /\ rows'[r] \in Row /\ rows'[r].state = "queued"
             /\ rows'[r].claimed_by = NoToken /\ rows[r].state # "absent"
  <2> DEFINE q == Queued(rows[r], 0, TRUE)
             c == r[2] \in retrying[j].newer
  <2>1. q \in Row /\ q.state = "queued" /\ q.claimed_by = NoToken
    BY QueuedFacts, Zenon DEF ClaimInv, TypeOK
  <2>2. rows'[r] = [q EXCEPT !.current = c]
    BY <1>3 DEF RequeueFailed
  <2>3. c \in BOOLEAN
    OBVIOUS
  <2> HIDE DEF q, c
  <2> QED
    BY <1>3, <2>1, <2>2, <2>3 DEF Row, FailedRows
<1>4. ASSUME NEW r \in Rows, r \notin FailedRows(j) PROVE rows'[r] = rows[r]
  BY <1>4 DEF RequeueFailed
<1>5. rows' \in [Rows -> Row]
  BY <1>3, <1>4, Zenon DEF ClaimInv, TypeOK, RequeueFailed
<1>6. TypeOK'
  BY <1>1, <1>2, <1>3, <1>4, <1>5, Zenon DEF ClaimInv, TypeOK, RequeueFailed
<1>7. JobsStay /\ HandlersStay /\ RowsStay
  BY <1>1, <1>2, <1>3, <1>4, <1>5 DEF RequeueFailed, JobsStay, HandlersStay, RowsStay, Live
<1> QED
  BY <1>6, <1>7, ClaimsStay

\* _PICK_JOBS.
LEMMA PickJobsClaims ==
  ASSUME ClaimInv, NEW w \in Workers, PickJobs(w)
  PROVE  ClaimInv'
<1>1. picked' \in [Workers -> SUBSET Jobs]
  BY DEF ClaimInv, TypeOK, PickJobs, Eligible
<1>2. TypeOK'
  BY <1>1 DEF ClaimInv, TypeOK, PickJobs
<1>3. JobsStay /\ HandlersStay /\ RowsStay
  BY <1>1 DEF PickJobs, JobsStay, HandlersStay, RowsStay, Live
<1> QED
  BY <1>2, <1>3, ClaimsStay

\* A candidate without a free row.
LEMMA SkipJobClaims ==
  ASSUME ClaimInv, NEW w \in Workers, NEW j \in Jobs, SkipJob(w, j)
  PROVE  ClaimInv'
<1>1. picked' \in [Workers -> SUBSET Jobs]
  BY DEF ClaimInv, TypeOK, SkipJob
<1>2. TypeOK'
  BY <1>1 DEF ClaimInv, TypeOK, SkipJob
<1>3. JobsStay /\ HandlersStay /\ RowsStay
  BY <1>1 DEF SkipJob, JobsStay, HandlersStay, RowsStay, Live
<1> QED
  BY <1>2, <1>3, ClaimsStay

\* The first cache check.
LEMMA CheckCacheClaims ==
  ASSUME ClaimInv, NEW t \in Tokens, CheckCache(t)
  PROVE  ClaimInv'
<1>1. Live(t)
  BY DEF CheckCache, Live
<1>2. /\ doms[handlers[t].row[2]].result \in Results \cup {"none"}
      /\ "too_many" \in Results /\ "lock" \in Phases
  BY <1>1, LiveRow DEF Domain, Results, Fetched, Phases
<1>3. handlers' \in [Tokens -> Handler] /\ HandlersStay
  BY <1>1, <1>2, GoFacts, GoFinishFacts DEF CheckCache, ClaimInv
<1>4. TypeOK'
  BY <1>1, <1>2, <1>3 DEF ClaimInv, TypeOK, CheckCache
<1>5. JobsStay /\ HandlersStay /\ RowsStay
  BY <1>1, <1>2, <1>3 DEF CheckCache, JobsStay, HandlersStay, RowsStay, Live
<1> QED
  BY <1>4, <1>5, ClaimsStay

\* lock_domain.
LEMMA LockDomainClaims ==
  ASSUME ClaimInv, NEW t \in Tokens, LockDomain(t)
  PROVE  ClaimInv'
<1>1. Live(t)
  BY DEF LockDomain, Live
<1>2. handlers' \in [Tokens -> Handler] /\ HandlersStay
  <2> DEFINE h == [handlers[t] EXCEPT !.phase = "requeue", !.next = "busy"]
  <2>1. h \in Handler /\ h.row = handlers[t].row /\ h.attempts = handlers[t].attempts
    BY <1>1, LiveRow, Zenon DEF Handler, Phases, Nexts
  <2>2. Go(t, "recheck") \/ handlers' = [handlers EXCEPT ![t] = h]
    BY Zenon DEF LockDomain, ClaimInv, TypeOK
  <2>3. "recheck" \in Phases
    BY DEF Phases
  <2> HIDE DEF h
  <2> QED
    BY <1>1, <2>1, <2>2, <2>3, GoFacts DEF ClaimInv, TypeOK, HandlersStay, Live
<1>3. doms' \in [Domains -> Domain]
  <2> DEFINE d == handlers[t].row[2]
             l == [doms[d] EXCEPT !.lock_owner = t, !.lapsed = FALSE]
  <2>1. doms' = doms \/ doms' = [doms EXCEPT ![d] = l]
    BY Zenon DEF LockDomain, ClaimInv, TypeOK
  <2>2. d \in Domains /\ l \in Domain
    BY <1>1, LiveRow, Zenon DEF Domain
  <2> HIDE DEF d, l
  <2> QED
    BY <2>1, <2>2 DEF ClaimInv, TypeOK
<1>4. TypeOK'
  BY <1>1, <1>2, <1>3 DEF ClaimInv, TypeOK, LockDomain
<1>5. JobsStay /\ HandlersStay /\ RowsStay
  BY <1>1, <1>2, <1>3 DEF LockDomain, JobsStay, HandlersStay, RowsStay, Live
<1> QED
  BY <1>4, <1>5, ClaimsStay

\* The second cache check.
LEMMA RecheckCacheClaims ==
  ASSUME ClaimInv, NEW t \in Tokens, RecheckCache(t)
  PROVE  ClaimInv'
<1>1. Live(t)
  BY DEF RecheckCache, Live
<1>2. handlers' \in [Tokens -> Handler] /\ HandlersStay
  <2> DEFINE res == doms[handlers[t].row[2]].result
             h == [handlers[t] EXCEPT !.phase = "unlock", !.next = "finish",
                                      !.result = res, !.from_cache = TRUE]
  <2>1. res \in Results \cup {"none"}
    BY <1>1, LiveRow DEF Domain, Results, Fetched
  <2>2. Go(t, "fetch") \/ handlers' = [handlers EXCEPT ![t] = h]
    BY Zenon DEF RecheckCache, ClaimInv, TypeOK
  <2> HIDE DEF res
  <2>3. h \in Handler /\ h.row = handlers[t].row /\ h.attempts = handlers[t].attempts
    BY <1>1, <2>1, LiveRow DEF Handler, Phases, Nexts
  <2>4. "fetch" \in Phases
    BY DEF Phases
  <2> HIDE DEF h
  <2> QED
    BY <1>1, <2>2, <2>3, <2>4, GoFacts DEF ClaimInv, TypeOK, HandlersStay, Live
<1>3. TypeOK'
  BY <1>1, <1>2 DEF ClaimInv, TypeOK, RecheckCache
<1>4. JobsStay /\ HandlersStay /\ RowsStay
  BY <1>1, <1>2 DEF RecheckCache, JobsStay, HandlersStay, RowsStay, Live
<1> QED
  BY <1>3, <1>4, ClaimsStay

\* process_domain returns.
LEMMA FetchDoneClaims ==
  ASSUME ClaimInv, NEW t \in Tokens, FetchDone(t)
  PROVE  ClaimInv'
<1>1. Live(t)
  BY DEF FetchDone, Live
<1>2. handlers' \in [Tokens -> Handler] /\ HandlersStay
  BY <1>1, GoFinishFacts, ChoicesAssumption, Zenon DEF FetchDone, ClaimInv, Fetched
<1>3. TypeOK'
  BY <1>1, <1>2 DEF ClaimInv, TypeOK, FetchDone
<1>4. JobsStay /\ HandlersStay /\ RowsStay
  BY <1>1, <1>2 DEF FetchDone, JobsStay, HandlersStay, RowsStay, Live
<1> QED
  BY <1>3, <1>4, ClaimsStay

\* process_domain gives up on an open circuit.
LEMMA FetchCircuitOpenClaims ==
  ASSUME ClaimInv, NEW t \in Tokens, FetchCircuitOpen(t)
  PROVE  ClaimInv'
<1>1. Live(t)
  BY DEF FetchCircuitOpen, Live
<1>2. "failed" \in Results /\ "retry" \in Nexts
  BY DEF Results, Nexts
<1>3. handlers' \in [Tokens -> Handler] /\ HandlersStay
  BY <1>1, <1>2, GoFinishFacts, GoUnlockFacts DEF FetchCircuitOpen, ClaimInv
<1>4. TypeOK'
  BY <1>1, <1>2, <1>3 DEF ClaimInv, TypeOK, FetchCircuitOpen
<1>5. JobsStay /\ HandlersStay /\ RowsStay
  BY <1>1, <1>2, <1>3 DEF FetchCircuitOpen, JobsStay, HandlersStay, RowsStay, Live
<1> QED
  BY <1>4, <1>5, ClaimsStay

\* process_domain raises an account error.
LEMMA FetchAccountErrorClaims ==
  ASSUME ClaimInv, NEW t \in Tokens, FetchAccountError(t)
  PROVE  ClaimInv'
<1>1. Live(t)
  BY DEF FetchAccountError, Live
<1>2. "refund" \in Nexts /\ "pause" \in Phases
  BY DEF Phases, Nexts
<1>3. handlers' \in [Tokens -> Handler] /\ HandlersStay
  BY <1>1, <1>2, GoFacts, GoUnlockFacts DEF FetchAccountError, ClaimInv
<1>4. left' \in [faults : Nat, outages : Nat, retries : Nat]
  BY DEF ClaimInv, TypeOK, FetchAccountError, Fault
<1>5. TypeOK'
  BY <1>1, <1>2, <1>3, <1>4 DEF ClaimInv, TypeOK, FetchAccountError
<1>6. JobsStay /\ HandlersStay /\ RowsStay
  BY <1>1, <1>2, <1>3, <1>4 DEF FetchAccountError, JobsStay, HandlersStay, RowsStay, Live
<1> QED
  BY <1>5, <1>6, ClaimsStay

\* pause_active_jobs.
LEMMA PauseActiveJobsClaims ==
  ASSUME ClaimInv, NEW t \in Tokens, PauseActiveJobs(t)
  PROVE  ClaimInv'
<1>1. Live(t)
  BY Zenon DEF PauseActiveJobs, Live
<1>2. "refund" \in Nexts
  BY DEF Nexts
<1>3. handlers' \in [Tokens -> Handler] /\ HandlersStay
  BY <1>1, <1>2, GoUnlockFacts, Zenon DEF PauseActiveJobs, ClaimInv
<1>4. jobs' \in [Jobs -> Job] /\ JobsStay
  BY Zenon DEF ClaimInv, TypeOK, PauseActiveJobs, JobsStay, Job
<1>5. TypeOK'
  BY <1>1, <1>2, <1>3, <1>4, Zenon DEF ClaimInv, TypeOK, PauseActiveJobs
<1>6. JobsStay /\ HandlersStay /\ RowsStay
  BY <1>1, <1>2, <1>3, <1>4, Zenon DEF PauseActiveJobs, JobsStay, HandlersStay, RowsStay, Live
<1> QED
  BY <1>5, <1>6, ClaimsStay

\* unlock_domain.
LEMMA UnlockDomainClaims ==
  ASSUME ClaimInv, NEW t \in Tokens, UnlockDomain(t)
  PROVE  ClaimInv'
<1>1. Live(t)
  BY DEF UnlockDomain, Live
<1>2. "finish" \in Phases /\ "requeue" \in Phases
  BY DEF Phases
<1>3. handlers' \in [Tokens -> Handler] /\ HandlersStay
  BY <1>1, <1>2, GoFacts DEF UnlockDomain, ClaimInv
<1>4. doms' \in [Domains -> Domain]
  BY <1>1, LiveRow, UnlockedFacts, SMTT(30) DEF ClaimInv, TypeOK, UnlockDomain
<1>5. TypeOK'
  BY <1>1, <1>2, <1>3, <1>4 DEF ClaimInv, TypeOK, UnlockDomain
<1>6. JobsStay /\ HandlersStay /\ RowsStay
  BY <1>1, <1>2, <1>3, <1>4 DEF UnlockDomain, JobsStay, HandlersStay, RowsStay, Live
<1> QED
  BY <1>5, <1>6, ClaimsStay

\* requeue: a running row has used an attempt that can be given back.
LEMMA RequeueRowClaims ==
  ASSUME ClaimInv, NEW t \in Tokens, RequeueRow(t)
  PROVE  ClaimInv'
<1>1. Live(t)
  BY DEF RequeueRow, Live
<1>2. handlers' \in [Tokens -> Handler] /\ HandlersStay
  BY EndFacts DEF RequeueRow, ClaimInv
<1>3. rows' \in [Rows -> Row] /\ RowsStay
  <2> DEFINE r == handlers[t].row
             n == rows[r].attempts - Refund(handlers[t].next)
             b == NoDelay(handlers[t].next)
             q == Queued(rows[r], n, b)
  <2>1. CASE Owns(t)
    <3>1. r \in Rows /\ rows[r] \in Row /\ rows[r].state = "running" /\ rows[r].attempts >= 1
      BY <1>1, <2>1, LiveRow DEF Owns, ClaimInv, ClaimsConsistent
    <3>2. n \in Nat /\ b \in BOOLEAN
      BY <3>1 DEF Row, Refund, NoDelay
    <3>3. q \in Row /\ q.state = "queued" /\ q.claimed_by = NoToken
      BY <3>1, <3>2, QueuedFacts
    <3>4. rows' = [rows EXCEPT ![r] = q]
      BY <2>1 DEF RequeueRow
    <3> HIDE DEF q, r
    <3> QED
      BY <3>1, <3>3, <3>4 DEF ClaimInv, TypeOK, RowsStay
  <2>2. CASE ~Owns(t)
    BY <2>2 DEF RequeueRow, ClaimInv, TypeOK, RowsStay
  <2> QED
    BY <2>1, <2>2
<1>4. TypeOK'
  BY <1>1, <1>2, <1>3 DEF ClaimInv, TypeOK, RequeueRow
<1>5. JobsStay /\ HandlersStay /\ RowsStay
  BY <1>1, <1>2, <1>3, Zenon DEF RequeueRow, JobsStay, HandlersStay, RowsStay, Live
<1> QED
  BY <1>4, <1>5, ClaimsStay

\* finish, by the claim that owns the row.
LEMMA FinishOwnedClaims ==
  ASSUME ClaimInv, NEW t \in Tokens, FinishOwned(t)
  PROVE  ClaimInv'
<1>1. Live(t)
  BY Zenon DEF FinishOwned, Live
<1>2. "notify" \in Phases
  BY DEF Phases
<1>3. handlers' \in [Tokens -> Handler] /\ HandlersStay
  BY <1>1, <1>2, GoFacts, Zenon DEF FinishOwned, ClaimInv
<1>4. jobs' \in [Jobs -> Job] /\ JobsStay
  BY MarkDoneStays, Zenon DEF ClaimInv, FinishOwned
<1>5. doms' \in [Domains -> Domain]
  <2> DEFINE d == handlers[t].row[2]
             cache == IF WritesCache(handlers[t])
                      THEN [doms EXCEPT ![d].result = handlers[t].result, ![d].recent = TRUE]
                      ELSE doms
  <2>1. cache \in [Domains -> Domain]
    <3>1. WritesCache(handlers[t]) => handlers[t].result \in Fetched \cup {"none"}
      BY <1>1, LiveRow DEF WritesCache, Handler, Fetched
    <3>2. doms \in [Domains -> Domain] /\ d \in Domains /\ doms[d] \in Domain
      BY <1>1, LiveRow, SMTT(30) DEF ClaimInv, TypeOK
    <3> DEFINE c == [doms[d] EXCEPT !.result = handlers[t].result, !.recent = TRUE]
    <3>3. WritesCache(handlers[t]) => c \in Domain /\ cache = [doms EXCEPT ![d] = c]
      BY <3>1, <3>2 DEF Domain
    <3>4. ~WritesCache(handlers[t]) => cache = doms
      OBVIOUS
    <3> HIDE DEF c, cache
    <3> QED
      BY <3>2, <3>3, <3>4
  <2>2. doms' = Unlocked(cache, d, t)
    BY Zenon DEF FinishOwned
  <2> HIDE DEF cache
  <2> QED
    BY <1>1, <2>1, <2>2, LiveRow, UnlockedFacts
<1>6. rows' \in [Rows -> Row] /\ RowsStay
  <2>1. /\ handlers[t].row \in Rows /\ rows[handlers[t].row].state = "running"
        /\ handlers[t].result \in Results \cup {"none"}
    BY <1>1, LiveRow, Zenon DEF FinishOwned, Owns, Handler
  <2>2. ASSUME NEW r \in Rows
        PROVE  /\ rows'[r] \in Row
               /\ r = handlers[t].row => rows'[r].state = "done" /\ rows'[r].claimed_by = NoToken
               /\ r # handlers[t].row => /\ rows'[r].state = rows[r].state
                                         /\ rows'[r].claimed_by = rows[r].claimed_by
                                         /\ rows'[r].attempts = rows[r].attempts
    <3> DEFINE x == IF r = handlers[t].row
                    THEN [rows[r] EXCEPT !.state = "done", !.claimed_by = NoToken,
                                         !.result = handlers[t].result]
                    ELSE rows[r]
               c == rows[r].current \/ (/\ WritesCache(handlers[t])
                                        /\ r[2] = handlers[t].row[2]
                                        /\ rows[r].state # "absent")
    <3>1. rows'[r] = [x EXCEPT !.current = c]
      BY Zenon DEF FinishOwned
    <3>2. rows[r] \in Row /\ c \in BOOLEAN
      BY DEF ClaimInv, TypeOK, Row
    <3>3. /\ x \in Row
          /\ r = handlers[t].row => x.state = "done" /\ x.claimed_by = NoToken
          /\ r # handlers[t].row => x = rows[r]
      BY <2>1, <3>2 DEF Row
    <3> HIDE DEF x, c
    <3> QED
      BY <3>1, <3>2, <3>3 DEF Row
  <2>3. rows' \in [Rows -> Row]
    BY <2>2, Zenon DEF FinishOwned
  <2>4. RowsStay
    BY <2>1, <2>2 DEF RowsStay
  <2> QED
    BY <2>3, <2>4
<1>7. retrying' \in [Jobs -> RetryTxn]
  <2> DEFINE n(j) == retrying[j].newer \cup {handlers[t].row[2]}
  <2>1. \A j \in Jobs : retrying[j] \in RetryTxn /\ n(j) \in SUBSET Domains
    BY <1>1, LiveRow DEF ClaimInv, TypeOK, RetryTxn
  <2>2. \A j \in Jobs : \/ retrying'[j] = retrying[j]
                        \/ retrying'[j] = [retrying[j] EXCEPT !.newer = n(j)]
    BY Zenon DEF FinishOwned
  <2>3. retrying' = [j \in Jobs |-> retrying'[j]]
    BY Zenon DEF FinishOwned
  <2> HIDE DEF n
  <2>4. \A j \in Jobs : retrying'[j] \in RetryTxn
    BY <2>1, <2>2 DEF RetryTxn
  <2> QED
    BY <2>3, <2>4
<1>8. TypeOK'
  BY <1>1, <1>2, <1>3, <1>4, <1>5, <1>6, <1>7, Zenon DEF ClaimInv, TypeOK, FinishOwned
<1>9. JobsStay /\ HandlersStay /\ RowsStay
  BY <1>1, <1>2, <1>3, <1>4, <1>5, <1>6, <1>7, Zenon DEF FinishOwned, JobsStay, HandlersStay, RowsStay, Live
<1> QED
  BY <1>8, <1>9, ClaimsStay

\* finish, by a claim that lost the row.
LEMMA FinishLostClaims ==
  ASSUME ClaimInv, NEW t \in Tokens, FinishLost(t)
  PROVE  ClaimInv'
<1>1. Live(t)
  BY DEF FinishLost, Live
<1>2. "lost" \in Phases
  BY DEF Phases
<1>3. handlers' \in [Tokens -> Handler] /\ HandlersStay
  BY <1>1, <1>2, GoFacts DEF FinishLost, ClaimInv
<1>4. TypeOK'
  BY <1>1, <1>2, <1>3 DEF ClaimInv, TypeOK, FinishLost
<1>5. JobsStay /\ HandlersStay /\ RowsStay
  BY <1>1, <1>2, <1>3 DEF FinishLost, JobsStay, HandlersStay, RowsStay, Live
<1> QED
  BY <1>4, <1>5, ClaimsStay

\* The lock a lost claim gives back.
LEMMA UnlockLostClaims ==
  ASSUME ClaimInv, NEW t \in Tokens, UnlockLost(t)
  PROVE  ClaimInv'
<1>1. Live(t)
  BY DEF UnlockLost, Live
<1>2. handlers' \in [Tokens -> Handler] /\ HandlersStay
  BY EndFacts DEF UnlockLost, ClaimInv
<1>3. doms' \in [Domains -> Domain]
  BY <1>1, LiveRow, UnlockedFacts, SMTT(30) DEF ClaimInv, TypeOK, UnlockLost
<1>4. TypeOK'
  BY <1>1, <1>2, <1>3 DEF ClaimInv, TypeOK, UnlockLost
<1>5. JobsStay /\ HandlersStay /\ RowsStay
  BY <1>1, <1>2, <1>3 DEF UnlockLost, JobsStay, HandlersStay, RowsStay, Live
<1> QED
  BY <1>4, <1>5, ClaimsStay

\* The end of a handler.
LEMMA NotifyClaims ==
  ASSUME ClaimInv, NEW t \in Tokens, Notify(t)
  PROVE  ClaimInv'
<1>1. handlers' \in [Tokens -> Handler] /\ HandlersStay
  BY EndFacts DEF Notify, ClaimInv
<1>2. TypeOK'
  BY <1>1 DEF ClaimInv, TypeOK, Notify
<1>3. JobsStay /\ HandlersStay /\ RowsStay
  BY <1>1 DEF Notify, JobsStay, HandlersStay, RowsStay, Live
<1> QED
  BY <1>2, <1>3, ClaimsStay

\* The error path of handle.
LEMMA HandleFailsClaims ==
  ASSUME ClaimInv, NEW t \in Tokens, HandleFails(t)
  PROVE  ClaimInv'
<1>1. "error" \in Nexts
  BY DEF Nexts
<1>2. handlers' \in [Tokens -> Handler] /\ HandlersStay
  BY <1>1, EndFacts, GoUnlockFacts DEF HandleFails, ClaimInv
<1>3. left' \in [faults : Nat, outages : Nat, retries : Nat]
  BY DEF ClaimInv, TypeOK, HandleFails, Fault
<1>4. TypeOK'
  BY <1>1, <1>2, <1>3 DEF ClaimInv, TypeOK, HandleFails
<1>5. JobsStay /\ HandlersStay /\ RowsStay
  BY <1>1, <1>2, <1>3 DEF HandleFails, JobsStay, HandlersStay, RowsStay, Live
<1> QED
  BY <1>4, <1>5, ClaimsStay

\* heartbeat.
LEMMA HeartbeatClaims ==
  ASSUME ClaimInv, NEW w \in Workers, Heartbeat(w)
  PROVE  ClaimInv'
<1>1. rows' \in [Rows -> Row] /\ RowsStay
  <2>1. /\ rows' = [r \in Rows |-> rows'[r]]
        /\ \A r \in Rows : rows'[r] = rows[r] \/ rows'[r] = [rows[r] EXCEPT !.stale = FALSE]
    BY DEF Heartbeat
  <2> QED
    BY <2>1, TouchedRows, Zenon DEF ClaimInv
<1>2. doms' \in [Domains -> Domain]
  <2>1. /\ doms' = [d \in Domains |-> doms'[d]]
        /\ \A d \in Domains : doms'[d] = doms[d] \/ doms'[d] = [doms[d] EXCEPT !.lapsed = FALSE]
    BY DEF Heartbeat
  <2> QED
    BY <2>1, TouchedDomains DEF ClaimInv
<1>3. TypeOK'
  BY <1>1, <1>2 DEF ClaimInv, TypeOK, Heartbeat
<1>4. JobsStay /\ HandlersStay /\ RowsStay
  BY <1>1, <1>2 DEF Heartbeat, JobsStay, HandlersStay, RowsStay, Live
<1> QED
  BY <1>3, <1>4, ClaimsStay

\* Heartbeats fail.
LEMMA OutageClaims ==
  ASSUME ClaimInv, NEW w \in Workers, Outage(w)
  PROVE  ClaimInv'
<1>1. rows' \in [Rows -> Row] /\ RowsStay
  <2>1. /\ rows' = [r \in Rows |-> rows'[r]]
        /\ \A r \in Rows : rows'[r] = rows[r] \/ rows'[r] = [rows[r] EXCEPT !.stale = TRUE]
    BY DEF Outage
  <2> QED
    BY <2>1, TouchedRows, Zenon DEF ClaimInv
<1>2. doms' \in [Domains -> Domain]
  <2>1. /\ doms' = [d \in Domains |-> doms'[d]]
        /\ \A d \in Domains : doms'[d] = doms[d] \/ doms'[d] = [doms[d] EXCEPT !.lapsed = TRUE]
    BY DEF Outage
  <2> QED
    BY <2>1, TouchedDomains DEF ClaimInv
<1>3. left' \in [faults : Nat, outages : Nat, retries : Nat]
  BY DEF ClaimInv, TypeOK, Outage
<1>4. TypeOK'
  BY <1>1, <1>2, <1>3 DEF ClaimInv, TypeOK, Outage
<1>5. JobsStay /\ HandlersStay /\ RowsStay
  BY <1>1, <1>2, <1>3 DEF Outage, JobsStay, HandlersStay, RowsStay, Live
<1> QED
  BY <1>4, <1>5, ClaimsStay

\* reap.
LEMMA ReapClaims ==
  ASSUME ClaimInv, Reap
  PROVE  ClaimInv'
<1>1. \A r \in Rows : rows[r] \in Row /\ rows[r].attempts \in Nat
  BY DEF ClaimInv, TypeOK, Row
<1>2. rows' \in [Rows -> Row] /\ RowsStay
  <2>1. \A r \in Rows :
          /\ r \in StaleRows => rows'[r] = Queued(rows[r], rows[r].attempts, TRUE)
          /\ r \notin StaleRows => rows'[r] = rows[r]
    BY Zenon DEF Reap
  <2>2. rows' = [r \in Rows |-> rows'[r]]
    BY DEF Reap
  <2>3. \A r \in StaleRows : r \in Rows /\ rows[r].state = "running"
    BY DEF StaleRows
  <2>4. \A r \in Rows : rows'[r] \in Row
    BY <1>1, <2>1, QueuedFacts, Zenon
  <2>5. RowsStay
    <3>1. ASSUME NEW r \in StaleRows
          PROVE  rows'[r].state = "queued" /\ rows'[r].claimed_by = NoToken
      <4>1. r \in Rows /\ rows[r] \in Row /\ rows[r].attempts \in Nat
        BY <1>1, <2>3
      <4>2. rows'[r] = Queued(rows[r], rows[r].attempts, TRUE)
        BY <2>1, <4>1, Zenon
      <4> QED
        BY <4>1, <4>2 DEF Queued, Row
    <3> QED
      BY <2>1, <2>3, <3>1, Zenon DEF RowsStay
  <2> QED
    BY <2>2, <2>4, <2>5
<1>3. TypeOK'
  BY <1>1, <1>2, Zenon DEF ClaimInv, TypeOK, Reap
<1>4. JobsStay /\ HandlersStay /\ RowsStay
  BY <1>1, <1>2, Zenon DEF Reap, JobsStay, HandlersStay, RowsStay, Live
<1> QED
  BY <1>3, <1>4, ClaimsStay

\* The drain drops the handlers.
LEMMA StopWorkerClaims ==
  ASSUME ClaimInv, NEW w \in Workers, StopWorker(w)
  PROVE  ClaimInv'
<1>1. handlers' \in [Tokens -> Handler] /\ HandlersStay
  BY DropHandlersFacts DEF StopWorker, ClaimInv
<1>2. TypeOK'
  BY <1>1 DEF ClaimInv, TypeOK, StopWorker
<1>3. JobsStay /\ HandlersStay /\ RowsStay
  BY <1>1 DEF StopWorker, JobsStay, HandlersStay, RowsStay, Live
<1> QED
  BY <1>2, <1>3, ClaimsStay

\* A crash drops the handlers too.
LEMMA CrashClaims ==
  ASSUME ClaimInv, NEW w \in Workers, Crash(w)
  PROVE  ClaimInv'
<1>1. handlers' \in [Tokens -> Handler] /\ HandlersStay
  BY DropHandlersFacts DEF Crash, ClaimInv
<1>2. left' \in [faults : Nat, outages : Nat, retries : Nat]
  BY DEF ClaimInv, TypeOK, Crash, Fault
<1>3. TypeOK'
  BY <1>1, <1>2 DEF ClaimInv, TypeOK, Crash
<1>4. JobsStay /\ HandlersStay /\ RowsStay
  BY <1>1, <1>2 DEF Crash, JobsStay, HandlersStay, RowsStay, Live
<1> QED
  BY <1>3, <1>4, ClaimsStay

\* release_worker.
LEMMA ReleaseWorkerClaims ==
  ASSUME ClaimInv, NEW w \in Workers, ReleaseWorker(w)
  PROVE  ClaimInv'
<1>1. \A r \in Rows : /\ rows[r] \in Row
                      /\ (IF rows[r].attempts > 0 THEN rows[r].attempts - 1 ELSE 0) \in Nat
  BY DEF ClaimInv, TypeOK, Row
<1>2. rows' \in [Rows -> Row] /\ RowsStay
  BY <1>1, QueuedFacts, Zenon DEF ClaimInv, TypeOK, ReleaseWorker, RowsStay
<1>3. doms' \in [Domains -> Domain]
  <2>1. \A d \in Domains : doms'[d] = doms[d] \/ doms'[d] = [doms[d] EXCEPT !.lock_owner = NoToken, !.lapsed = FALSE]
    BY Zenon DEF ReleaseWorker
  <2>2. doms' = [d \in Domains |-> doms'[d]]
    BY Zenon DEF ReleaseWorker
  <2>3. ASSUME NEW d \in Domains PROVE doms'[d] \in Domain
    <3>1. doms[d] \in Domain /\ NoToken \in Tokens \cup {NoToken}
      BY DEF ClaimInv, TypeOK
    <3>2. CASE doms'[d] = doms[d]
      BY <3>1, <3>2
    <3>3. CASE doms'[d] = [doms[d] EXCEPT !.lock_owner = NoToken, !.lapsed = FALSE]
      BY <3>1, <3>3 DEF Domain
    <3> QED
      BY <2>1, <3>2, <3>3, Zenon
  <2> QED
    BY <2>2, <2>3
<1>4. TypeOK'
  BY <1>1, <1>2, <1>3, Zenon DEF ClaimInv, TypeOK, ReleaseWorker
<1>5. JobsStay /\ HandlersStay /\ RowsStay
  BY <1>1, <1>2, <1>3, Zenon DEF ReleaseWorker, JobsStay, HandlersStay, RowsStay, Live
<1> QED
  BY <1>4, <1>5, ClaimsStay

\* A delay runs out.
LEMMA DelayPassesClaims ==
  ASSUME ClaimInv, NEW r \in Rows, DelayPasses(r)
  PROVE  ClaimInv'
<1>1. rows' \in [Rows -> Row] /\ RowsStay
  <2>1. /\ rows' = [q \in Rows |-> rows'[q]]
        /\ \A q \in Rows : rows'[q] = rows[q] \/ rows'[q] = [rows[q] EXCEPT !.available = TRUE]
    BY DEF DelayPasses, ClaimInv, TypeOK
  <2> QED
    BY <2>1, TouchedRows, Zenon DEF ClaimInv
<1>2. TypeOK'
  BY <1>1 DEF ClaimInv, TypeOK, DelayPasses
<1>3. JobsStay /\ HandlersStay /\ RowsStay
  BY <1>1 DEF DelayPasses, JobsStay, HandlersStay, RowsStay, Live
<1> QED
  BY <1>2, <1>3, ClaimsStay

\* A heartbeat grows old.
LEMMA RowGoesStaleClaims ==
  ASSUME ClaimInv, NEW r \in Rows, RowGoesStale(r)
  PROVE  ClaimInv'
<1>1. rows' \in [Rows -> Row] /\ RowsStay
  <2>1. /\ rows' = [q \in Rows |-> rows'[q]]
        /\ \A q \in Rows : rows'[q] = rows[q] \/ rows'[q] = [rows[q] EXCEPT !.stale = TRUE]
    BY DEF RowGoesStale, ClaimInv, TypeOK
  <2> QED
    BY <2>1, TouchedRows, Zenon DEF ClaimInv
<1>2. TypeOK'
  BY <1>1 DEF ClaimInv, TypeOK, RowGoesStale
<1>3. JobsStay /\ HandlersStay /\ RowsStay
  BY <1>1 DEF RowGoesStale, JobsStay, HandlersStay, RowsStay, Live
<1> QED
  BY <1>2, <1>3, ClaimsStay

\* A lock lapses.
LEMMA LockLapsesClaims ==
  ASSUME ClaimInv, NEW d \in Domains, LockLapses(d)
  PROVE  ClaimInv'
<1>1. doms' \in [Domains -> Domain]
  <2>1. /\ doms' = [e \in Domains |-> doms'[e]]
        /\ \A e \in Domains : doms'[e] = doms[e] \/ doms'[e] = [doms[e] EXCEPT !.lapsed = TRUE]
    BY DEF LockLapses, ClaimInv, TypeOK
  <2> QED
    BY <2>1, TouchedDomains, Zenon DEF ClaimInv
<1>2. TypeOK'
  BY <1>1 DEF ClaimInv, TypeOK, LockLapses
<1>3. JobsStay /\ HandlersStay /\ RowsStay
  BY <1>1 DEF LockLapses, JobsStay, HandlersStay, RowsStay, Live
<1> QED
  BY <1>2, <1>3, ClaimsStay

\* A cached result ages.
LEMMA CacheAgesClaims ==
  ASSUME ClaimInv, NEW d \in Domains, CacheAges(d)
  PROVE  ClaimInv'
<1>1. doms' \in [Domains -> Domain]
  <2>1. /\ doms' = [e \in Domains |-> doms'[e]]
        /\ \A e \in Domains : doms'[e] = doms[e] \/ doms'[e] = [doms[e] EXCEPT !.recent = FALSE]
    BY DEF CacheAges, ClaimInv, TypeOK
  <2> QED
    BY <2>1, TouchedDomains, Zenon DEF ClaimInv
<1>2. TypeOK'
  BY <1>1 DEF ClaimInv, TypeOK, CacheAges
<1>3. JobsStay /\ HandlersStay /\ RowsStay
  BY <1>1 DEF CacheAges, JobsStay, HandlersStay, RowsStay, Live
<1> QED
  BY <1>2, <1>3, ClaimsStay

\* Every step preserves the invariant.
LEMMA ClaimStep == ClaimInv /\ [Next]_vars => ClaimInv'
<1> SUFFICES ASSUME ClaimInv, [Next]_vars PROVE ClaimInv'
  OBVIOUS
<1>1. CASE ApiStep
  <2>1. ASSUME NEW j \in Jobs, ResumeJob(j) PROVE ClaimInv'
    BY <2>1, ResumeClaims DEF ResumeJob
  <2>2. CASE ResumePaused
    <3>1. {j \in Jobs : jobs[j].status = "paused"} \in SUBSET Jobs
      OBVIOUS
    <3> QED
      BY <2>2, <3>1, ResumeClaims DEF ResumePaused
  <2> QED
    BY <1>1, <2>1, <2>2, ChoicesAssumption, CreateJobClaims, CancelJobClaims,
       CompleteResumedClaims, ResumeDiesClaims, RetryCheckClaims, RequeueFailedClaims
    DEF ApiStep
<1>2. ASSUME NEW w \in Workers, WorkerStep(w) PROVE ClaimInv'
  BY <1>2, PickJobsClaims, ClaimRowClaims, SkipJobClaims, HeartbeatClaims, StopWorkerClaims,
     ReleaseWorkerClaims
  DEF WorkerStep, ClaimLoop
<1>3. ASSUME NEW t \in Tokens, HandlerStep(t) PROVE ClaimInv'
  BY <1>3, CheckCacheClaims, LockDomainClaims, RecheckCacheClaims, FetchDoneClaims,
     FetchCircuitOpenClaims, PauseActiveJobsClaims, UnlockDomainClaims, RequeueRowClaims,
     FinishOwnedClaims, FinishLostClaims, UnlockLostClaims, NotifyClaims
  DEF HandlerStep
<1>4. CASE FaultStep
  BY <1>4, FetchAccountErrorClaims, HandleFailsClaims, CrashClaims, OutageClaims DEF FaultStep
<1>5. CASE TimeStep
  BY <1>5, DelayPassesClaims, RowGoesStaleClaims, LockLapsesClaims, CacheAgesClaims, SMTT(30) DEF TimeStep
<1>6. CASE UNCHANGED vars
  BY <1>6 DEF vars, ClaimInv, TypeOK, HandlersHaveRows, UncreatedEmpty, ClaimsConsistent, Live
<1> QED
  BY <1>1, <1>2, <1>3, <1>4, <1>5, <1>6, ReapClaims, SweepClaims DEF Next

\* The queue keeps its types and its claims.
THEOREM ClaimInvariant == Spec => []ClaimInv
BY ClaimInit, ClaimStep, PTL DEF Spec

\* Every value the tables, the handlers and the processes take has its type; in
\* particular no sequence of claims, refunds and releases makes the attempts of a
\* row negative.
THEOREM TypeCorrect == Spec => []TypeOK
<1>1. ClaimInv => TypeOK
  BY DEF ClaimInv
<1> QED
  BY <1>1, ClaimInvariant, PTL

\* Rows and claims agree: a row is running exactly when one claim holds it, and
\* the live handler of that claim works on it (claim, requeue, finish, reap,
\* release_worker).
THEOREM ClaimsAreConsistent == Spec => []ClaimsConsistent
<1>1. ClaimInv => ClaimsConsistent
  BY DEF ClaimInv
<1> QED
  BY <1>1, ClaimInvariant, PTL

=============================================================================
