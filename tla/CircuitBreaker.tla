--------------------------- MODULE CircuitBreaker ---------------------------
(***************************************************************************)
(* The per-provider circuit breaker of app/ratelimit.py and the calls that *)
(* go through it (FetchGate, _attempt_with_retries, TypeSafe._post).       *)
(*                                                                         *)
(* All of it runs in one event loop, so check() and record() are one step  *)
(* each; any number of calls are between the two.  A call that is          *)
(* cancelled there (domain_timeout, shutdown) records nothing.  Time is    *)
(* kept as what the code computes from it: how much of the open window is  *)
(* left, and how long ago the breaker last closed.                         *)
(***************************************************************************)
EXTENDS Integers, Sequences, FiniteSets

CONSTANTS
  Callers,               \* concurrent callers
  Window, MinSamples,    \* outcomes kept; outcomes needed to open
  ThresholdNum, ThresholdDen,   \* threshold, as a fraction
  OpenSeconds, MaxOpenSeconds,  \* the first and the longest open window
  Probes, ProbesNeeded,  \* half-open: calls admitted, successes to close
  Recovery               \* recovery_multiple * open_seconds

ASSUME ParametersAssumption ==
  /\ Window \in Nat \ {0} /\ MinSamples \in Nat \ {0}
  /\ ThresholdNum \in Nat /\ ThresholdDen \in Nat \ {0}
  /\ OpenSeconds \in Nat \ {0} /\ MaxOpenSeconds \in Nat /\ OpenSeconds <= MaxOpenSeconds
  /\ Probes \in Nat \ {0} /\ ProbesNeeded \in 0..Probes
  /\ Recovery \in Nat

VARIABLES
  stored,    \* _state; "open" turns into "half_open" when it is next read
  outcomes,  \* _outcomes
  results,   \* _probe_results, as the numbers of successes and of all
  admitted,  \* _probes_admitted
  lost,      \* history: how many of those were cancelled and will not report
  openLeft,  \* _opened_at + _open_for - now
  openFor,   \* _open_for
  opens,     \* _consecutive_opens, counted up to where the window stops growing
  closedAge, \* now - _closed_at, up to Recovery + 1; -1 before the first close
  caller,    \* "idle", or in flight: "call", or "probe" of this half-open period
  healthy    \* the provider: from some moment on it may answer every call

vars == <<stored, outcomes, results, admitted, lost, openLeft, openFor, opens, closedAge,
          caller, healthy>>

NoResults == [ok |-> 0, all |-> 0]

\* The open window after n consecutive opens, and the n at which it is longest.
WindowAfter(n) == IF OpenSeconds * 2^n <= MaxOpenSeconds THEN OpenSeconds * 2^n
                                                         ELSE MaxOpenSeconds
MaxOpens == CHOOSE n \in 0..MaxOpenSeconds :
              /\ OpenSeconds * 2^n >= MaxOpenSeconds
              /\ \A m \in 0..MaxOpenSeconds : OpenSeconds * 2^m >= MaxOpenSeconds => n <= m

TypeOK ==
  /\ stored \in {"closed", "open", "half_open"}
  /\ outcomes \in Seq(BOOLEAN) /\ Len(outcomes) <= Window
  /\ results \in [ok : 0..Probes, all : 0..Probes]
  /\ admitted \in 0..Probes /\ lost \in 0..Probes
  /\ openLeft \in 0..MaxOpenSeconds /\ openFor \in 0..MaxOpenSeconds
  /\ opens \in 0..MaxOpens
  /\ closedAge \in -1..(Recovery + 1)
  /\ caller \in [Callers -> {"idle", "call", "probe"}]
  /\ healthy \in BOOLEAN

Init ==
  /\ stored = "closed" /\ outcomes = <<>> /\ results = NoResults
  /\ admitted = 0 /\ lost = 0
  /\ openLeft = 0 /\ openFor = 0 /\ opens = 0 /\ closedAge = -1
  /\ caller = [c \in Callers |-> "idle"]
  /\ healthy = FALSE

-----------------------------------------------------------------------------
\* The property "state".  (Opening has already cleared the probe counts that the
\* move to half-open clears.)
State == IF stored = "open" /\ openLeft = 0 THEN "half_open" ELSE stored

\* A probe of an earlier half-open period is like any other late call.
Forget(cs) == [c \in Callers |-> IF cs[c] = "probe" THEN "call" ELSE cs[c]]

\* Faulty Open: the admitted probes are not forgotten.
OpenKeepsAdmitted(c) ==
  LET n == IF closedAge > Recovery THEN 0 ELSE opens
  IN  /\ openFor' = WindowAfter(n) /\ openLeft' = WindowAfter(n)
      /\ opens' = IF n < MaxOpens THEN n + 1 ELSE MaxOpens
      /\ stored' = "open"
      /\ outcomes' = <<>> /\ results' = NoResults /\ lost' = 0
      /\ caller' = Forget([caller EXCEPT ![c] = "idle"])
      /\ UNCHANGED <<admitted, closedAge, healthy>>

\* _open.  The reset compares with the last close, however long ago the breaker
\* opened again.
Escalation == IF closedAge > Recovery THEN 0 ELSE opens

Open(c) ==
  /\ openFor' = WindowAfter(Escalation)
  /\ openLeft' = WindowAfter(Escalation)
  /\ opens' = IF Escalation < MaxOpens THEN Escalation + 1 ELSE MaxOpens
  /\ stored' = "open"
  /\ outcomes' = <<>> /\ results' = NoResults
  /\ admitted' = 0 /\ lost' = 0
  /\ caller' = Forget([caller EXCEPT ![c] = "idle"])
  /\ UNCHANGED <<closedAge, healthy>>

\* _close.
Close(c) ==
  /\ stored' = "closed" /\ closedAge' = 0
  /\ outcomes' = <<>> /\ results' = NoResults /\ lost' = 0
  /\ caller' = Forget([caller EXCEPT ![c] = "idle"])
  /\ UNCHANGED <<admitted, openLeft, openFor, opens, healthy>>

\* Faulty MayProbe: counts the results that came back.
MayProbeUntilResults == results.all < Probes

\* check: a call is made.  (A refused call waits and asks again, or gives up: the
\* breaker does not change.)
MayProbe == admitted < Probes

Check(c) ==
  /\ caller[c] = "idle"
  /\ \/ /\ State = "closed"
        /\ caller' = [caller EXCEPT ![c] = "call"]
        /\ UNCHANGED admitted
     \/ /\ State = "half_open"
        /\ MayProbe
        /\ admitted' = admitted + 1
        /\ caller' = [caller EXCEPT ![c] = "probe"]
  /\ stored' = State
  /\ UNCHANGED <<outcomes, results, lost, openLeft, openFor, opens, closedAge, healthy>>

\* record, half-open: any result counts, also of a call made before the opening.
RecordProbe(c, ok) ==
  LET r == [ok |-> results.ok + (IF ok THEN 1 ELSE 0), all |-> results.all + 1]
  IN  /\ caller[c] # "idle" /\ (healthy => ok)
      /\ State = "half_open"
      /\ \/ /\ r.all >= Probes /\ r.ok >= ProbesNeeded
            /\ Close(c)
         \/ /\ r.all >= Probes /\ r.ok < ProbesNeeded
            /\ Open(c)
         \/ /\ r.all < Probes
            /\ stored' = "half_open" /\ results' = r
            /\ caller' = [caller EXCEPT ![c] = "idle"]
            /\ UNCHANGED <<outcomes, admitted, lost, openLeft, openFor, opens, closedAge, healthy>>

\* Faulty Recorded: the oldest outcome is not dropped.
RecordedAll(ok) == Append(outcomes, ok)

\* record, closed, or open and the call was made before.
Recorded(ok) ==
  LET s == Append(outcomes, ok)
  IN  IF Len(s) > Window THEN Tail(s) ELSE s

TooManyFailures(s) ==
  /\ Len(s) >= MinSamples
  /\ Cardinality({i \in 1..Len(s) : ~s[i]}) * ThresholdDen > ThresholdNum * Len(s)

RecordCall(c, ok) ==
  /\ caller[c] # "idle" /\ (healthy => ok)
  /\ State # "half_open"
  /\ \/ /\ TooManyFailures(Recorded(ok))
        /\ Open(c)
     \/ /\ ~TooManyFailures(Recorded(ok))
        /\ outcomes' = Recorded(ok)
        /\ caller' = [caller EXCEPT ![c] = "idle"]
        /\ UNCHANGED <<stored, results, admitted, lost, openLeft, openFor, opens, closedAge,
                       healthy>>

\* The caller is cancelled between check and record.
Cancelled(c) ==
  /\ caller[c] # "idle"
  /\ caller' = [caller EXCEPT ![c] = "idle"]
  /\ lost' = lost + (IF caller[c] = "probe" THEN 1 ELSE 0)
  /\ UNCHANGED <<stored, outcomes, results, admitted, openLeft, openFor, opens, closedAge, healthy>>

\* A second passes.
Tick ==
  /\ openLeft' = IF openLeft > 0 THEN openLeft - 1 ELSE 0
  /\ closedAge' = IF closedAge \in 0..Recovery THEN closedAge + 1 ELSE closedAge
  /\ UNCHANGED <<stored, outcomes, results, admitted, lost, openFor, opens, caller, healthy>>

Heal ==
  /\ ~healthy
  /\ healthy' = TRUE
  /\ UNCHANGED <<stored, outcomes, results, admitted, lost, openLeft, openFor, opens, closedAge,
                 caller>>

Ends(c) == Cancelled(c) \/ \E ok \in BOOLEAN : RecordProbe(c, ok) \/ RecordCall(c, ok)

Next == Tick \/ Heal \/ \E c \in Callers : Check(c) \/ Ends(c)

Spec == Init /\ [][Next]_vars

\* Time passes, a refused caller asks again, and every call ends (the clients
\* have timeouts), although nobody says how.
FairSpec == /\ Spec /\ WF_vars(Tick)
            /\ \A c \in Callers : WF_vars(Check(c)) /\ WF_vars(Ends(c))

-----------------------------------------------------------------------------
(* Properties.                                                             *)

\* While half-open no more than Probes calls are let through, the ones in flight
\* and the ones that will never report included ("the burst the half-open state
\* exists to avoid", check).  Nor does a place leak: when none is left to admit,
\* a probe is on its way or was cancelled, whatever late calls have reported.
ProbesBounded ==
  LET onTheWay == Cardinality({c \in Callers : caller[c] = "probe"})
  IN  State = "half_open" =>
        /\ onTheWay + lost <= admitted /\ admitted <= Probes
        /\ admitted = Probes => onTheWay + lost > 0

\* Once the provider answers again the breaker closes, whatever it had counted,
\* however far it had escalated and whichever late results arrive; only a
\* cancelled probe can prevent it.
Recovers == healthy ~> stored = "closed" \/ lost > 0

\* "The escalation resets only after the breaker has held closed": a breaker that
\* opens again without having closed does not get a shorter window.
EscalationKept ==
  [][State = "half_open" /\ stored' = "open" => openFor' >= openFor]_vars

\* "... then admits `probes` calls and closes if `probes_needed` of them succeed":
\* a half-open period comes to an end, one way or the other.
HalfOpenEnds == State = "half_open" ~> State # "half_open"

=============================================================================
