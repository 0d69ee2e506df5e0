------------------------------ MODULE JobClock ------------------------------
(***************************************************************************)
(* How long a job has been able to run.  The row of the job keeps four     *)
(* columns that claims, pauses, resumes, completion, cancellation and      *)
(* retries update; the API computes active_seconds from them.  The rows of *)
(* the job's domains are in JobQueue and left out here, so completion and  *)
(* a retry's failures are free choices.                                    *)
(***************************************************************************)
EXTENDS Integers

CONSTANTS MAX_TIME,                   \* bound on the clock
          MAX_LATE                    \* bound on how long retries' transactions take together

ASSUME MaxTimeAssumption == MAX_TIME \in Nat /\ MAX_LATE \in Nat

Null == -1

VARIABLES clkStatus, clkStarted, clkFinished, clkPausedAt, clkPausedSeconds,
          clkNow,
          clkRan,                     \* history: time spent running since the first claim
          clkLate                     \* history: time from the begin of retries to their update

clkVars == <<clkStatus, clkStarted, clkFinished, clkPausedAt, clkPausedSeconds, clkNow, clkRan,
             clkLate>>

Greatest(a, b) == IF a >= b THEN a ELSE b

ClockInit ==
  /\ clkStatus = "queued"
  /\ clkStarted = Null /\ clkFinished = Null /\ clkPausedAt = Null
  /\ clkPausedSeconds = 0
  /\ clkNow = 0 /\ clkRan = 0 /\ clkLate = 0

ClockTick ==
  /\ clkNow < MAX_TIME
  /\ clkNow' = clkNow + 1
  /\ clkRan' = IF clkStatus = "running" /\ clkStarted # Null THEN clkRan + 1 ELSE clkRan
  /\ UNCHANGED <<clkStatus, clkStarted, clkFinished, clkPausedAt, clkPausedSeconds, clkLate>>

\* claim chooses the job first and updates it afterwards: a pause or a cancel
\* may come in between.
ClaimMarks ==
  /\ clkStatus = "queued" \/ clkStarted = Null
  /\ clkStatus' = IF clkStatus = "queued" THEN "running" ELSE clkStatus
  /\ clkStarted' = IF clkStarted = Null THEN clkNow ELSE clkStarted
  /\ UNCHANGED <<clkFinished, clkPausedAt, clkPausedSeconds, clkNow, clkRan, clkLate>>

\* complete_if_finished: no domain is left, so one was claimed.
CompleteMarks ==
  /\ clkStatus \in {"queued", "running"} /\ clkStarted # Null
  /\ clkStatus' = "done" /\ clkFinished' = clkNow
  /\ UNCHANGED <<clkStarted, clkPausedAt, clkPausedSeconds, clkNow, clkRan, clkLate>>

\* pause_active_jobs.
PauseMarks ==
  /\ clkStatus \in {"queued", "running"}
  /\ clkStatus' = "paused" /\ clkPausedAt' = clkNow
  /\ UNCHANGED <<clkStarted, clkFinished, clkPausedSeconds, clkNow, clkRan, clkLate>>

\* Mutated: the whole pause is booked, also the part before the first claim.
PauseTimeWhole ==
  IF clkStarted # Null /\ clkPausedAt # Null THEN clkNow - clkPausedAt ELSE 0

\* The pause that ends now, as far as it came after the first claim.
PauseTime ==
  IF clkStarted # Null /\ clkPausedAt # Null
  THEN clkNow - Greatest(clkPausedAt, clkStarted) ELSE 0

\* _transition, for resume and for cancel; a new provider key resumes too.
Transition(allowed, new) ==
  /\ clkStatus \in allowed
  /\ clkStatus' = new
  /\ clkPausedSeconds' = clkPausedSeconds + PauseTime
  /\ clkPausedAt' = Null
  /\ clkFinished' = IF new = "cancelled" /\ clkFinished = Null THEN clkNow ELSE clkFinished
  /\ UNCHANGED <<clkStarted, clkNow, clkRan, clkLate>>

ResumeMarks == Transition({"paused"}, "running")
CancelMarks == Transition({"queued", "running", "paused"}, "cancelled")

\* requeue_failed found failures: the time a done job sat there counts as paused, up
\* to now(), which is when the transaction of the retry began, perhaps before the job
\* finished.
RetryMarks(began) ==
  /\ clkStatus = "done" /\ clkLate + (clkNow - began) <= MAX_LATE
  /\ clkStatus' = "running"
  /\ clkPausedSeconds' = clkPausedSeconds + (IF clkFinished = Null THEN 0 ELSE began - clkFinished)
  /\ clkFinished' = Null
  /\ clkLate' = clkLate + (clkNow - began)
  /\ UNCHANGED <<clkStarted, clkPausedAt, clkNow, clkRan>>

ClockNext ==
  \/ ClockTick \/ ClaimMarks \/ CompleteMarks \/ PauseMarks
  \/ ResumeMarks \/ CancelMarks
  \/ \E began \in 0..clkNow : RetryMarks(began)

ClockSpec == ClockInit /\ [][ClockNext]_clkVars

\* What the API reports once the job has started.
active_seconds ==
  Greatest(0, (IF clkFinished # Null THEN clkFinished ELSE clkNow) - clkStarted
              - clkPausedSeconds
              - (IF clkPausedAt # Null /\ clkFinished = Null
                 THEN clkNow - Greatest(clkPausedAt, clkStarted) ELSE 0))

-----------------------------------------------------------------------------
\* The active seconds the API reports are the time the job spent running since
\* its first claim: nothing of it is missing, and no pause, nothing before the first
\* claim and no time between finishing and a retry is in it, but for what the retries
\* took from their begin to their update (_active_seconds: "a night spent paused is not
\* counted").
ActiveTimeRight == clkStarted # Null => active_seconds \in clkRan..(clkRan + clkLate)

=============================================================================
