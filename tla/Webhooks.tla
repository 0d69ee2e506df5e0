------------------------------ MODULE Webhooks ------------------------------
(***************************************************************************)
(* The events of one job with a webhook: what a handler does after its     *)
(* result is committed, the bounded queue it submits to, and the senders   *)
(* that deliver.  The worker may be stopped at any time and start again;   *)
(* the owner may retry failed domains.                                     *)
(***************************************************************************)
EXTENDS Integers, Sequences, FiniteSets

CONSTANTS JobDomains, Slots, Senders,   \* Slots: handlers of the worker
          MAX_PENDING,        \* size of the queue
          BACKOFFS,           \* len(BACKOFF_S)
          MAX_RETRIES, MAX_STOPS   \* bounds on retries by the owner and stops

ASSUME JobDomainsAssumption == IsFiniteSet(JobDomains)

VARIABLES hookRow,        \* "queued", "running" or "done"
          hookJob,        \* "running" or "done"
          hookTask,       \* where each handler is, and its domain
          hookQueue,      \* events waiting: "domain.done", "job.done"
          hookSender,     \* tries of each sender's delivery so far, or Free
          hookWorker,     \* "up" or "draining"
          hookRetries, hookStops,
          hookJobDone     \* history: the job.done events submitted

hookVars == <<hookRow, hookJob, hookTask, hookQueue, hookSender, hookWorker, hookRetries,
              hookStops, hookJobDone>>

Free == -1
Dead == -2
NoHandler == [st |-> "off", dom |-> "", last |-> FALSE, age |-> 0, counts |-> 0, counted |-> 0]

HookInit ==
  /\ hookRow = [d \in JobDomains |-> "queued"] /\ hookJob = "running"
  /\ hookTask = [t \in Slots |-> NoHandler]
  /\ hookQueue = <<>> /\ hookSender = [s \in Senders |-> Free]
  /\ hookWorker = "up" /\ hookRetries = 0 /\ hookStops = 0 /\ hookJobDone = <<>>

Handling(t, st) == [hookTask EXCEPT ![t].st = st]

ClaimRow(t, d) ==
  /\ hookWorker = "up" /\ hookJob = "running"
  /\ hookRow[d] = "queued" /\ hookTask[t].st = "off"
  /\ hookRow' = [hookRow EXCEPT ![d] = "running"]
  /\ hookTask' = [hookTask EXCEPT ![t].st = "work", ![t].dom = d]
  /\ UNCHANGED <<hookJob, hookQueue, hookSender, hookWorker, hookRetries, hookStops, hookJobDone>>

\* Mutated: rows other handlers are working on do not keep the job open.
JobFinishedEarly(rows) == hookJob = "running" /\ \A d \in JobDomains : rows[d] # "queued"

\* complete_if_finished.
JobFinished(rows) == hookJob = "running" /\ \A d \in JobDomains : rows[d] = "done"

\* queue.finish: the result is recorded, and perhaps the job is done.
FinishRow(t) ==
  LET rows == [hookRow EXCEPT ![hookTask[t].dom] = "done"]
  IN  /\ hookTask[t].st = "work"
      /\ hookRow' = rows
      /\ hookJob' = IF JobFinished(rows) THEN "done" ELSE hookJob
      /\ hookTask' = [hookTask EXCEPT ![t] =
           [@ EXCEPT !.st = "recorded", !.last = JobFinished(rows), !.age = hookRetries]]
      /\ UNCHANGED <<hookQueue, hookSender, hookWorker, hookRetries, hookStops, hookJobDone>>

\* job_counts, for the handler that finished the job; then the connection is
\* given back.
ReadCounts(t) ==
  /\ hookTask[t].st = "recorded"
  /\ hookTask' = IF hookTask[t].last
       THEN [hookTask EXCEPT ![t].st = "submit", ![t].counted = hookRetries,
               ![t].counts = Cardinality({d \in JobDomains : hookRow[d] = "done"})]
       ELSE Handling(t, "submit")
  /\ UNCHANGED <<hookRow, hookJob, hookQueue, hookSender, hookWorker, hookRetries, hookStops,
                 hookJobDone>>

\* submit waits while the queue is full.
SubmitDomain(t) ==
  /\ hookTask[t].st = "submit" /\ Len(hookQueue) < MAX_PENDING
  /\ hookQueue' = Append(hookQueue, "domain.done")
  /\ hookTask' = IF hookTask[t].last THEN Handling(t, "submit_job")
                 ELSE [hookTask EXCEPT ![t] = NoHandler]
  /\ UNCHANGED <<hookRow, hookJob, hookSender, hookWorker, hookRetries, hookStops, hookJobDone>>

SubmitJob(t) ==
  /\ hookTask[t].st = "submit_job" /\ Len(hookQueue) < MAX_PENDING
  /\ hookQueue' = Append(hookQueue, "job.done")
  /\ hookJobDone' = Append(hookJobDone, hookTask[t])
  /\ hookTask' = [hookTask EXCEPT ![t] = NoHandler]
  /\ UNCHANGED <<hookRow, hookJob, hookSender, hookWorker, hookRetries, hookStops>>

\* The owner retries the failed ones among the done domains.
RetryFailed(D) ==
  /\ hookRetries < MAX_RETRIES /\ D # {} /\ \A d \in D : hookRow[d] = "done"
  /\ hookRow' = [d \in JobDomains |-> IF d \in D THEN "queued" ELSE hookRow[d]]
  /\ hookJob' = "running" /\ hookRetries' = hookRetries + 1
  /\ UNCHANGED <<hookTask, hookQueue, hookSender, hookWorker, hookStops, hookJobDone>>

-----------------------------------------------------------------------------
(* The senders                                                             *)

SenderGets(s) ==
  /\ hookSender[s] = Free /\ hookQueue # <<>>
  /\ hookQueue' = Tail(hookQueue)
  /\ hookSender' = [hookSender EXCEPT ![s] = 0]
  /\ UNCHANGED <<hookRow, hookJob, hookTask, hookWorker, hookRetries, hookStops, hookJobDone>>

\* Mutated: an unexpected exception ends the sender.
AfterPostDies(tries, outcome) ==
  CASE outcome = "crashed" -> Dead
    [] outcome = "failed" /\ tries < BACKOFFS -> tries + 1
    [] OTHER -> Free

\* Accepted, the URL no longer allowed, or an unexpected exception: the sender
\* is free again.  Otherwise it tries again, while backoffs are left.
AfterPost(tries, outcome) ==
  IF outcome = "failed" /\ tries < BACKOFFS THEN tries + 1 ELSE Free

deliver(s, outcome) ==
  /\ hookSender[s] >= 0
  /\ hookSender' = [hookSender EXCEPT ![s] = AfterPost(@, outcome)]
  /\ UNCHANGED <<hookRow, hookJob, hookTask, hookQueue, hookWorker, hookRetries, hookStops,
                 hookJobDone>>

-----------------------------------------------------------------------------
(* Shutdown                                                                *)

\* _drain: handlers are cancelled where they are, rows go back.
Stop ==
  /\ hookWorker = "up" /\ hookStops < MAX_STOPS
  /\ hookWorker' = "draining" /\ hookStops' = hookStops + 1
  /\ hookTask' = [t \in Slots |-> NoHandler]
  /\ hookRow' = [d \in JobDomains |-> IF hookRow[d] = "running" THEN "queued" ELSE hookRow[d]]
  /\ UNCHANGED <<hookJob, hookQueue, hookSender, hookRetries, hookJobDone>>

\* close: the queue is empty and all deliveries are over, or time is up.  The
\* process starts again with nothing queued.
Close ==
  /\ hookWorker = "draining"
  /\ hookWorker' = "up"
  /\ hookQueue' = <<>> /\ hookSender' = [s \in Senders |-> Free]
  /\ UNCHANGED <<hookRow, hookJob, hookTask, hookRetries, hookStops, hookJobDone>>

Outcomes == {"accepted", "failed", "rejected", "crashed"}

HandlerStep(t) == FinishRow(t) \/ ReadCounts(t) \/ SubmitDomain(t) \/ SubmitJob(t)
SenderStep(s) == SenderGets(s) \/ \E o \in Outcomes : deliver(s, o)

HookNext ==
  \/ \E t \in Slots : HandlerStep(t) \/ \E d \in JobDomains : ClaimRow(t, d)
  \/ \E s \in Senders : SenderStep(s)
  \/ \E D \in SUBSET JobDomains : RetryFailed(D)
  \/ Stop \/ Close

HookSpec == HookInit /\ [][HookNext]_hookVars

-----------------------------------------------------------------------------
\* A completion of the job is announced at most once, and the counts announced
\* are those of a finished job, unless the owner had already retried it
\* (_finish, complete_if_finished, job_counts).
JobDoneEvents ==
  \A i \in DOMAIN hookJobDone :
    LET e == hookJobDone[i]
    IN  /\ \A k \in DOMAIN hookJobDone : hookJobDone[k].age = e.age => i = k
        /\ e.counts = Cardinality(JobDomains) \/ e.counted > e.age

\* A receiver that fails, refuses or breaks never holds up the work: a handler
\* gets past the queue, and the queue empties (submit, _run, deliver).
EventsHandled ==
  []<>(hookQueue = <<>> /\ \A t \in Slots : hookTask[t].st = "off")

=============================================================================
