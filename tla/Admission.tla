------------------------------ MODULE Admission ------------------------------
(***************************************************************************)
(* POST /jobs: concurrent requests from the API key's check to the created *)
(* job.  A request is [person, admin, key, print, file]: for whom, whether *)
(* with the admin role, its Idempotency-Key (or NoIdem), the fingerprint   *)
(* of its content and whether it uploads a file.  Jobs run on meanwhile.   *)
(***************************************************************************)
EXTENDS Integers, Sequences, FiniteSets

CONSTANTS Requests,
          Scenarios,                  \* what the requests may be
          MAX_ACTIVE_JOBS_PER_USER, MAX_CONCURRENT_UPLOADS, RATE_LIMIT_PER_MINUTE,
          MAX_JOB_STEPS               \* bound on what happens to jobs meanwhile

NoIdem == "no_key"
NoPrint == "no_fingerprint"
Prints == STRING \ {NoPrint}
NoJob == 0
ACTIVE_STATUSES == {"queued", "running", "paused"}

VARIABLES admWant,      \* the requests
          admUser,      \* the row of each person: "none", "active" or "revoked"
          admCount,     \* requests of each person in this minute
          admSlots,     \* free upload slots
          admLock,      \* who holds the advisory lock of a person
          admReq,       \* where each request is, its answer and its job
          admJobs,      \* the jobs, in the order of creation
          admSteps

admVars == <<admWant, admUser, admCount, admSlots, admLock, admReq, admJobs, admSteps>>

People == UNION {{w[r].person : r \in Requests} : w \in Scenarios}
Nobody == "nobody"

ASSUME AdmissionAssumption ==
  /\ \A w \in Scenarios :
       w \in [Requests -> [person : STRING, admin : BOOLEAN, key : STRING, print : Prints,
                          file : BOOLEAN]]
  /\ MAX_ACTIVE_JOBS_PER_USER \in Nat
  /\ Nobody \notin Requests

\* The holder of the admin key is no person: no row, and no rate limit.
KeyHolder == "admin"

AdmissionInit ==
  /\ admWant \in Scenarios
  /\ admUser = [p \in People |-> "none"]
  /\ admCount = [p \in People |-> 0]
  /\ admSlots = MAX_CONCURRENT_UPLOADS
  /\ admLock = [p \in People |-> Nobody]
  /\ admReq = [r \in Requests |-> [st |-> "auth", answer |-> "none", job |-> NoJob]]
  /\ admJobs = <<>> /\ admSteps = 0

Person(r) == admWant[r].person
Stands(r, st) == admReq[r].st = st
Go(r, st) == admReq' = [admReq EXCEPT ![r].st = st]

\* Every way out gives the lock (end of transaction) and the slot back.
Answer(r, a, job) ==
  /\ admReq' = [admReq EXCEPT ![r] = [st |-> "over", answer |-> a, job |-> job]]
  /\ admLock' = [p \in People |-> IF admLock[p] = r THEN Nobody ELSE admLock[p]]
  /\ admSlots' = IF admWant[r].file /\ admReq[r].st \notin {"auth", "insert", "slot"}
                 THEN admSlots + 1 ELSE admSlots

Keep == UNCHANGED <<admLock, admSlots>>

AfterAuth(r) == IF admWant[r].file THEN "slot" ELSE "parse"

AdminKey(r) ==
  /\ Stands(r, "auth") /\ Person(r) = KeyHolder
  /\ Go(r, AfterAuth(r)) /\ Keep
  /\ UNCHANGED <<admWant, admUser, admCount, admJobs, admSteps>>

\* _rate_limit: a limit of 0 is none.  When Redis cannot be reached nothing is counted
\* and the request passes.
rate_limit(counted, n) == counted /\ RATE_LIMIT_PER_MINUTE # 0 /\ n > RATE_LIMIT_PER_MINUTE

\* require_api_key, for a person the service key names.
Authenticate(r, counted) ==
  LET n == admCount[Person(r)] + 1
  IN  /\ Stands(r, "auth")
      /\ admUser[Person(r)] = "active"
      /\ admCount' = IF counted THEN [admCount EXCEPT ![Person(r)] = n] ELSE admCount
      /\ IF rate_limit(counted, n) THEN Answer(r, "rate_limited", NoJob)
         ELSE Go(r, AfterAuth(r)) /\ Keep
      /\ UNCHANGED <<admWant, admUser, admJobs, admSteps>>

\* _acting_principal: a person seen for the first time, or one removed.
ActingPerson(r) ==
  /\ Stands(r, "auth") /\ Person(r) # KeyHolder
  /\ CASE admUser[Person(r)] = "none" -> Go(r, "insert") /\ Keep
       [] admUser[Person(r)] = "revoked" -> Answer(r, "acting_user_revoked", NoJob)
       [] OTHER -> FALSE
  /\ UNCHANGED <<admWant, admUser, admCount, admJobs, admSteps>>

\* ON CONFLICT DO NOTHING, then the row is read again.
InsertPerson(r) ==
  /\ Stands(r, "insert")
  /\ admUser' = [admUser EXCEPT ![Person(r)] = IF @ = "none" THEN "active" ELSE @]
  /\ Go(r, "auth") /\ Keep
  /\ UNCHANGED <<admWant, admCount, admJobs, admSteps>>

UploadSlot(r) ==
  /\ Stands(r, "slot") /\ admSlots > 0
  /\ admSlots' = admSlots - 1
  /\ Go(r, "parse")
  /\ UNCHANGED <<admWant, admUser, admCount, admLock, admJobs, admSteps>>

UploadBusy(r) ==
  /\ Stands(r, "slot") /\ admSlots = 0
  /\ Answer(r, "busy", NoJob)
  /\ UNCHANGED <<admWant, admUser, admCount, admJobs, admSteps>>

\* Reading and checking the body, before the database is involved.
Parse(r, good) ==
  /\ Stands(r, "parse")
  /\ IF good THEN Go(r, "lock") /\ Keep ELSE Answer(r, "invalid", NoJob)
  /\ UNCHANGED <<admWant, admUser, admCount, admJobs, admSteps>>

\* Mutated: creation is not serialised.
AdvisoryLockFree(r) ==
  /\ Stands(r, "lock")
  /\ Go(r, "replay")
  /\ UNCHANGED <<admWant, admUser, admCount, admSlots, admLock, admJobs, admSteps>>

AdvisoryLock(r) ==
  /\ Stands(r, "lock") /\ admLock[Person(r)] = Nobody
  /\ admLock' = [admLock EXCEPT ![Person(r)] = r]
  /\ Go(r, "replay")
  /\ UNCHANGED <<admWant, admUser, admCount, admSlots, admJobs, admSteps>>

\* The jobs this person made with the key of r.
WithKey(r) == {j \in DOMAIN admJobs : admJobs[j].owner = Person(r)
                                      /\ admJobs[j].key = admWant[r].key}

\* Mutated: the answer of a replay leaves the transaction open.
ReplayKeepsLock(r) ==
  /\ Stands(r, "replay")
  /\ IF admWant[r].key = NoIdem \/ WithKey(r) = {} THEN Go(r, "webhook") /\ Keep
     ELSE LET j == CHOOSE i \in WithKey(r) : TRUE
          IN  /\ admReq' = [admReq EXCEPT ![r] = [st |-> "over", answer |-> "replayed", job |-> j]]
              /\ Keep
  /\ UNCHANGED <<admWant, admUser, admCount, admJobs, admSteps>>

\* _replay: a job without a fingerprint would stand for any content, but create_job
\* stores one with every key.
Replay(r) ==
  /\ Stands(r, "replay")
  /\ IF admWant[r].key = NoIdem \/ WithKey(r) = {} THEN Go(r, "webhook") /\ Keep
     ELSE LET j == CHOOSE i \in WithKey(r) : TRUE
          IN  IF admJobs[j].print \in {NoPrint, admWant[r].print} THEN Answer(r, "replayed", j)
              ELSE Answer(r, "idempotency_conflict", NoJob)
  /\ UNCHANGED <<admWant, admUser, admCount, admJobs, admSteps>>

\* validate_webhook_url resolves the host.
ValidateWebhook(r, good) ==
  /\ Stands(r, "webhook")
  /\ IF good THEN Go(r, "count") /\ Keep ELSE Answer(r, "invalid_webhook_url", NoJob)
  /\ UNCHANGED <<admWant, admUser, admCount, admJobs, admSteps>>

\* Mutated: a paused job does not count.
UnfinishedNotPaused(p) ==
  {j \in DOMAIN admJobs : admJobs[j].owner = p /\ admJobs[j].status \in {"queued", "running"}}

UnfinishedJobs(p) ==
  {j \in DOMAIN admJobs : admJobs[j].owner = p /\ admJobs[j].status \in ACTIVE_STATUSES}

CountJobs(r) ==
  /\ Stands(r, "count")
  /\ IF ~admWant[r].admin /\ Cardinality(UnfinishedJobs(Person(r))) >= MAX_ACTIVE_JOBS_PER_USER
     THEN Answer(r, "job_limit_reached", NoJob)
     ELSE Go(r, "create") /\ Keep
  /\ UNCHANGED <<admWant, admUser, admCount, admJobs, admSteps>>

\* create_job: the index on owner and key refuses a second row; a job without
\* a valid domain is done at once.
CreateJob(r, status) ==
  /\ Stands(r, "create")
  /\ IF admWant[r].key # NoIdem /\ WithKey(r) # {}
     THEN Answer(r, "server_error", NoJob) /\ UNCHANGED admJobs
     ELSE /\ Answer(r, "created", Len(admJobs) + 1)
          /\ admJobs' = Append(admJobs,
               [owner |-> Person(r), key |-> admWant[r].key, print |-> admWant[r].print,
                byAdmin |-> admWant[r].admin, status |-> status, retried |-> FALSE])
  /\ UNCHANGED <<admWant, admUser, admCount, admSteps>>

-----------------------------------------------------------------------------
(* Meanwhile                                                               *)

JobStep(j, from, to) ==
  /\ admSteps < MAX_JOB_STEPS
  /\ admJobs[j].status \in from
  /\ admSteps' = admSteps + 1
  /\ admJobs' = [admJobs EXCEPT ![j].status = to, ![j].retried = @ \/ "done" \in from]
  /\ UNCHANGED <<admWant, admUser, admCount, admSlots, admLock, admReq>>

\* Claimed, finished, paused, resumed, cancelled, or retried when done.
JobMoves(j) ==
  \/ JobStep(j, {"queued"}, "running")
  \/ JobStep(j, {"queued", "running"}, "paused")
  \/ JobStep(j, {"queued", "running"}, "done")
  \/ JobStep(j, {"paused"}, "running")
  \/ JobStep(j, ACTIVE_STATUSES, "cancelled")
  \/ JobStep(j, {"done"}, "running")

\* An operator removes a person.
Revoke(p) ==
  /\ admUser[p] = "active" /\ admSteps < MAX_JOB_STEPS
  /\ admUser' = [admUser EXCEPT ![p] = "revoked"]
  /\ admSteps' = admSteps + 1
  /\ UNCHANGED <<admWant, admCount, admSlots, admLock, admReq, admJobs>>

RequestStep(r) ==
  \/ AdminKey(r) \/ ActingPerson(r) \/ InsertPerson(r) \/ UploadSlot(r) \/ UploadBusy(r)
  \/ AdvisoryLock(r) \/ Replay(r) \/ CountJobs(r)
  \/ \E b \in BOOLEAN : Authenticate(r, b) \/ Parse(r, b) \/ ValidateWebhook(r, b)
  \/ \E s \in {"queued", "done"} : CreateJob(r, s)

AdmissionNext ==
  \/ \E r \in Requests : RequestStep(r)
  \/ \E j \in DOMAIN admJobs : JobMoves(j)
  \/ \E p \in People : Revoke(p)

AdmissionSpec == AdmissionInit /\ [][AdmissionNext]_admVars

-----------------------------------------------------------------------------
\* A key stands for one job: requests of a person with the same key that get a
\* job get the same one, made for the same content, however they overlap, and
\* none of them runs into the unique index (_replay, the advisory lock).
ReplaysAgree ==
  \A r, q \in Requests :
    /\ admReq[r].answer # "server_error"
    /\ /\ admReq[r].job # NoJob /\ admReq[q].job # NoJob
       /\ admWant[r].key # NoIdem
       /\ admWant[r].key = admWant[q].key /\ Person(r) = Person(q)
       => admReq[r].job = admReq[q].job /\ admWant[r].print = admWant[q].print

Counted(p) == {j \in UnfinishedJobs(p) : ~admJobs[j].byAdmin /\ ~admJobs[j].retried}

\* A person's requests together never leave more unfinished jobs than the limit,
\* whatever else happens to their jobs meanwhile; only the admin role and the
\* retry of a done job go past it (_create_job, "two simultaneous POSTs cannot
\* both pass the job limit").
ActiveLimit == \A p \in People : Cardinality(Counted(p)) <= MAX_ACTIVE_JOBS_PER_USER

\* Every request taken up is answered: nobody waits for ever for a slot or for the lock
\* of another request, refused ones included.
RequestsAnswered ==
  []<>(\A r \in Requests : admReq[r].st \in {"auth", "over"})

=============================================================================
