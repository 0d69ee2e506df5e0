---------------------------- MODULE CompletionTxn ----------------------------
(***************************************************************************)
(* How a job is marked done, one SQL statement at a time (app/queue.py:    *)
(* finish, complete_if_finished, complete_finished_jobs, requeue_failed).  *)
(*                                                                         *)
(* JobQueue takes each of these transactions as one step.  Here Postgres'  *)
(* READ COMMITTED is spelled out for one job that has started: a statement *)
(* sees what is committed when it begins and its own transaction's writes, *)
(* an UPDATE waits for the row lock and then tests the row again, but a    *)
(* subquery on another table is not read again.                            *)
(***************************************************************************)
EXTENDS Naturals

CONSTANTS
  Domains,     \* the domains of the job
  ResumeTxn, SweepTxn, RetryTxn, NoTxn,  \* names of transactions, and of none
  MaxAborts,   \* bound: transactions rolled back
  MaxRetries,  \* bound: calls of POST /jobs/{id}/retry
  MaxPauses    \* bound: calls of pause_active_jobs

ASSUME NamesAssumption ==
  /\ Domains \cap {ResumeTxn, SweepTxn, RetryTxn, NoTxn} = {}
  /\ \A x \in {ResumeTxn, SweepTxn, RetryTxn} : x # NoTxn
  /\ ResumeTxn # SweepTxn /\ ResumeTxn # RetryTxn /\ SweepTxn # RetryTxn
ASSUME StartedAssumption == Domains # {}  \* a job starts when one of its rows is claimed
ASSUME BoundsAssumption == MaxAborts \in Nat /\ MaxRetries \in Nat /\ MaxPauses \in Nat

\* The transactions: finish of each domain (named by it), the completion after a
\* resume, the sweep of the reap loop, and a retry.
Txns == Domains \cup {ResumeTxn, SweepTxn, RetryTxn}

VARIABLES
  status,  \* jobs.status, committed
  row,     \* job_domains, committed: the state, and the result of a done row
  holder,  \* the transaction that has locked the job's row, or NoTxn
  txn,     \* the open transactions
  left     \* what remains of the bounds

vars == <<status, row, holder, txn, left>>

Active == {"queued", "running"}
RowStates == {"queued", "running", "answer", "failed"}
Pending == {"queued", "running"}

\* step: the statement that comes next.  writes: the uncommitted rows, as a
\* partial copy of row ("same" where nothing is written).  job: the uncommitted
\* status.
Txn == [step : {"closed", "lock", "update", "rows", "reopen", "wait", "commit"},
        writes : [Domains -> RowStates \cup {"same"}],
        job : {"same", "done", "running"}]

Closed == [step |-> "closed", writes |-> [d \in Domains |-> "same"], job |-> "same"]

TypeOK ==
  /\ status \in {"running", "paused", "done", "cancelled"}
  /\ row \in [Domains -> RowStates]
  /\ holder \in Txns \cup {NoTxn}
  /\ txn \in [Txns -> Txn]
  /\ left \in [aborts : Nat, retries : Nat, pauses : Nat]

Init ==
  /\ status = "running"
  /\ row \in [Domains -> {"queued", "running"}]
  /\ holder = NoTxn
  /\ txn = [x \in Txns |-> Closed]
  /\ left = [aborts |-> MaxAborts, retries |-> MaxRetries, pauses |-> MaxPauses]

-----------------------------------------------------------------------------
\* The rows as a statement of transaction x sees them.
View(x) == [d \in Domains |-> IF txn[x].writes[d] = "same" THEN row[d] ELSE txn[x].writes[d]]

\* Faulty Unfinished: looks only at running rows.
UnfinishedRunning(rs) == \E d \in Domains : rs[d] = "running"

\* EXISTS (SELECT 1 FROM job_domains WHERE state IN ('queued', 'running'))
Unfinished(rs) == \E d \in Domains : rs[d] \in Pending

\* The row lock of the job can be had.
LockFree == holder = NoTxn

Step(x, s) == txn' = [txn EXCEPT ![x].step = s]

-----------------------------------------------------------------------------
(* finish and complete_if_finished.                                        *)

\* Faulty FinishRow: the state without the result.
FinishRowNoResult(d, res) ==
  /\ txn[d].step = "closed"
  /\ row[d] = "running"
  /\ txn' = [txn EXCEPT ![d].step = "lock", ![d].writes[d] = "done"]
  /\ UNCHANGED <<status, row, holder, left>>

\* UPDATE job_domains SET state = 'done' ... WHERE state = 'running'
FinishRow(d, res) ==
  /\ txn[d].step = "closed"
  /\ row[d] = "running"
  /\ txn' = [txn EXCEPT ![d].step = "lock", ![d].writes[d] = res]
  /\ UNCHANGED <<status, row, holder, left>>

\* Faulty LockJob: no FOR UPDATE.
SelectJob(x) ==
  /\ txn[x].step = "lock"
  /\ Step(x, "update")
  /\ UNCHANGED <<status, row, holder, left>>

\* SELECT id FROM jobs ... FOR UPDATE
LockJob(x) ==
  /\ txn[x].step = "lock"
  /\ LockFree
  /\ holder' = x
  /\ Step(x, "update")
  /\ UNCHANGED <<status, row, left>>

\* UPDATE jobs SET status = 'done' ... AND NOT EXISTS (...)
CompleteJob(x) ==
  /\ txn[x].step = "update"
  /\ txn' = [txn EXCEPT ![x].step = "commit",
                        ![x].job = IF status \in Active /\ ~Unfinished(View(x))
                                   THEN "done" ELSE "same"]
  /\ UNCHANGED <<status, row, holder, left>>

\* The locks of x are released.
Release(x) == holder' = IF holder = x THEN NoTxn ELSE holder

Commit(x) ==
  /\ txn[x].step = "commit"
  /\ row' = View(x)
  /\ status' = IF txn[x].job = "same" THEN status ELSE txn[x].job
  /\ Release(x)
  /\ txn' = [txn EXCEPT ![x] = Closed]
  /\ UNCHANGED left

\* The process dies or the connection is lost before the commit.  (A resume that
\* dies is JobQueue's ResumeDies: the sweep completes its job.)
Abort(x) ==
  /\ x # ResumeTxn
  /\ txn[x].step # "closed"
  /\ left.aborts > 0
  /\ left' = [left EXCEPT !.aborts = @ - 1]
  /\ Release(x)
  /\ txn' = [txn EXCEPT ![x] = Closed]
  /\ UNCHANGED <<status, row>>

-----------------------------------------------------------------------------
(* The sweep: one UPDATE, in two halves.  It selects under its snapshot,   *)
(* waits for the row lock, and tests the job's own columns again.          *)

SweepSelect ==
  /\ txn[SweepTxn].step = "closed"
  /\ status \in Active
  /\ ~Unfinished(row)
  /\ Step(SweepTxn, "wait")
  /\ UNCHANGED <<status, row, holder, left>>

\* Faulty SweepRecheck: an update that names the jobs it selected.
SweepBlind == TRUE

\* The second test of j.status IN ('queued', 'running').
SweepRecheck == status \in Active

SweepUpdate ==
  /\ txn[SweepTxn].step = "wait"
  /\ LockFree
  /\ \/ /\ SweepRecheck
        /\ holder' = SweepTxn
        /\ txn' = [txn EXCEPT ![SweepTxn].step = "commit", ![SweepTxn].job = "done"]
     \/ /\ ~SweepRecheck
        /\ Step(SweepTxn, "closed")
        /\ UNCHANGED holder
  /\ UNCHANGED <<status, row, left>>

-----------------------------------------------------------------------------
(* requeue_failed.                                                         *)

\* retry_job finds the status retryable.
RetryCheck ==
  /\ txn[RetryTxn].step = "closed"
  /\ left.retries > 0
  /\ status \notin {"paused", "cancelled"}
  /\ left' = [left EXCEPT !.retries = @ - 1]
  /\ Step(RetryTxn, "rows")
  /\ UNCHANGED <<status, row, holder>>

\* The failed rows go back; without any, the transaction ends here.
RetryRows ==
  LET S == {d \in Domains : row[d] = "failed"}
  IN  /\ txn[RetryTxn].step = "rows"
      /\ txn' = [txn EXCEPT ![RetryTxn].step = IF S = {} THEN "commit" ELSE "reopen",
                            ![RetryTxn].writes = [d \in Domains |->
                                                   IF d \in S THEN "queued" ELSE "same"]]
      /\ UNCHANGED <<status, row, holder, left>>

\* UPDATE jobs SET status = 'running' ... WHERE status = 'done': only a job that is
\* done in the snapshot makes it wait for, and take, the job's row.
RetrySelect ==
  /\ txn[RetryTxn].step = "reopen"
  /\ Step(RetryTxn, IF status = "done" THEN "wait" ELSE "commit")
  /\ UNCHANGED <<status, row, holder, left>>

RetryUpdate ==
  /\ txn[RetryTxn].step = "wait"
  /\ LockFree
  /\ \/ /\ status = "done"
        /\ holder' = RetryTxn
        /\ txn' = [txn EXCEPT ![RetryTxn].step = "commit", ![RetryTxn].job = "running"]
     \/ /\ status # "done"
        /\ Step(RetryTxn, "commit")
        /\ UNCHANGED holder
  /\ UNCHANGED <<status, row, left>>

-----------------------------------------------------------------------------
(* What else moves the rows and the status; one statement each.            *)

\* No open transaction has written row d.
RowFree(d) == \A x \in Txns : txn[x].writes[d] = "same"

\* claim (the job must be active when it is picked) and requeue, reap, release.
ClaimRow(d) ==
  /\ status \in Active
  /\ row[d] = "queued" /\ RowFree(d)
  /\ row' = [row EXCEPT ![d] = "running"]
  /\ UNCHANGED <<status, holder, txn, left>>

RequeueRow(d) ==
  /\ row[d] = "running" /\ RowFree(d)
  /\ row' = [row EXCEPT ![d] = "queued"]
  /\ UNCHANGED <<status, holder, txn, left>>

PauseJob ==
  /\ status \in Active /\ LockFree
  /\ left.pauses > 0
  /\ left' = [left EXCEPT !.pauses = @ - 1]
  /\ status' = "paused"
  /\ UNCHANGED <<row, holder, txn>>

CancelJob ==
  /\ status \in Active \cup {"paused"} /\ LockFree
  /\ status' = "cancelled"
  /\ UNCHANGED <<row, holder, txn, left>>

\* resume_job; complete_if_finished is a transaction of its own.
ResumeJob ==
  /\ status = "paused" /\ LockFree
  /\ txn[ResumeTxn].step = "closed"
  /\ status' = "running"
  /\ Step(ResumeTxn, "lock")
  /\ UNCHANGED <<row, holder, left>>

Next ==
  \/ \E d \in Domains : \/ \E res \in {"answer", "failed"} : FinishRow(d, res)
                        \/ ClaimRow(d) \/ RequeueRow(d)
  \/ \E x \in Txns : LockJob(x) \/ CompleteJob(x) \/ Commit(x) \/ Abort(x)
  \/ SweepSelect \/ SweepUpdate
  \/ RetryCheck \/ RetryRows \/ RetrySelect \/ RetryUpdate
  \/ PauseJob \/ CancelJob \/ ResumeJob

Spec == Init /\ [][Next]_vars

-----------------------------------------------------------------------------
(* Properties.                                                             *)

\* No completion is lost: when every transaction is closed, an active job has
\* work left.  In whatever order the last domains finish, pause and resume, one
\* transaction sees them all done, without the sweep's help ("both declined and
\* the job stayed running forever", complete_if_finished).
NoLostCompletion ==
  (\A x \in Txns \ {SweepTxn} : txn[x].step = "closed") /\ status \in Active
  => Unfinished(row)

\* "Mark the job done once no row is queued or running" (complete_if_finished),
\* as the owner of the job would read it: a done job has no such row.
DoneMeansFinished == status = "done" => ~Unfinished(row)

\* What the owner sees of the job: its status, and a result for each finished domain.
Outcome == [r \in {"job"} \X Domains |-> IF row[r[2]] \in Pending THEN "pending" ELSE row[r[2]]]
Lifecycle == INSTANCE JobLifecycle
  WITH Jobs <- {"job"}, status <- [j \in {"job"} |-> status], outcome <- Outcome

\* Until its first retry the job lives as JobLifecycle says, whose steps are whole
\* transactions: a result and the completion it calls for appear together, and a job
\* is completed in a step at which it is active and nothing is pending.  The
\* statements in between, and the ones rolled back, are not seen.
UnretriedImplements ==
  [][left'.retries = MaxRetries => [Lifecycle!Next]_(Lifecycle!view)]_vars

\* The same for a job that was not retried.
UnretriedDoneMeansFinished == left.retries = MaxRetries => DoneMeansFinished

\* "let a cancel overwrite a job just marked done" (_transition), and the other
\* way round: no late completion or retry brings a cancelled job back.
CancelledStays == [][status = "cancelled" => status' = "cancelled"]_vars

=============================================================================
