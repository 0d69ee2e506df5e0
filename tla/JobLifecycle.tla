---------------------------- MODULE JobLifecycle ----------------------------
(***************************************************************************)
(* The life of a job as its owner sees it: a status, and for each of its   *)
(* domains "pending" or a result.  How the domains get their results is    *)
(* not said here; JobQueue implements this specification.                  *)
(***************************************************************************)
CONSTANTS Jobs, Domains

VARIABLES status, outcome

view == <<status, outcome>>

Rows == Jobs \X Domains
Active == {"queued", "running"}
Results == {"answer", "failed", "refused", "too_many"}

\* The failures POST /jobs/{id}/retry tries again.
Retryable == {"failed", "too_many"}

Pending(o, j) == \E d \in Domains : o[<<j, d>>] = "pending"

\* The statuses once the jobs of S with nothing pending are marked done.
Settled(o, S) ==
  [j \in Jobs |-> IF j \in S /\ status[j] \in Active /\ ~Pending(o, j)
                  THEN "done" ELSE status[j]]

Init ==
  /\ status = [j \in Jobs |-> "none"]
  /\ outcome = [r \in Rows |-> "none"]

\* A job without domains is done at once.
Create(j, D) ==
  /\ status[j] = "none"
  /\ status' = [status EXCEPT ![j] = IF D = {} THEN "done" ELSE "queued"]
  /\ outcome' = [r \in Rows |-> IF r[1] = j /\ r[2] \in D THEN "pending" ELSE outcome[r]]

Start(j) ==
  /\ status[j] = "queued"
  /\ status' = [status EXCEPT ![j] = "running"]
  /\ UNCHANGED outcome

\* A pending domain gets its result, whatever the job's status; the last one
\* completes an active job in the same step.
Record(r, res) ==
  /\ outcome[r] = "pending"
  /\ outcome' = [outcome EXCEPT ![r] = res]
  /\ status' = Settled(outcome', {r[1]})

\* Jobs whose last result came while they were paused.
Complete(S) ==
  /\ status' = Settled(outcome, S)
  /\ UNCHANGED outcome

\* The provider account is shared: every active job is paused together.
Pause ==
  /\ status' = [j \in Jobs |-> IF status[j] \in Active THEN "paused" ELSE status[j]]
  /\ UNCHANGED outcome

Resume(S) ==
  /\ \A j \in S : status[j] = "paused"
  /\ status' = [j \in Jobs |-> IF j \in S THEN "running" ELSE status[j]]
  /\ UNCHANGED outcome

Cancel(j) ==
  /\ status[j] \in Active \cup {"paused"}
  /\ status' = [status EXCEPT ![j] = "cancelled"]
  /\ UNCHANGED outcome

\* All retryable failures of the job become pending again, and only those; a
\* done job runs again.
Retry(j) ==
  LET F == {r \in Rows : r[1] = j /\ outcome[r] \in Retryable}
  IN  /\ F # {}
      /\ outcome' = [r \in Rows |-> IF r \in F THEN "pending" ELSE outcome[r]]
      /\ status' = IF status[j] = "done" THEN [status EXCEPT ![j] = "running"] ELSE status

Next ==
  \/ \E j \in Jobs : \/ \E D \in SUBSET Domains : Create(j, D)
                     \/ Start(j) \/ Cancel(j) \/ Retry(j)
  \/ \E r \in Rows, res \in Results : Record(r, res)
  \/ \E S \in SUBSET Jobs : Complete(S) \/ Resume(S)
  \/ Pause

Spec == Init /\ [][Next]_view

=============================================================================
