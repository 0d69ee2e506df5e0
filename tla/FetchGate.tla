------------------------------ MODULE FetchGate ------------------------------
(***************************************************************************)
(* What every fetch passes through: the breaker, a slot of the process, a  *)
(* slot of its domain, a token.  A fetch may be cancelled at any await.    *)
(* The semaphore of a domain is made when first needed and dropped by      *)
(* release_domain, which the worker calls whenever a domain is finished,   *)
(* also while fetches an attempt left behind are still running.            *)
(***************************************************************************)
EXTENDS Integers, Sequences, FiniteSets

CONSTANTS Fetches, Hosts, HostOf,         \* fetches, domains, whose domain
          GLOBAL_CONCURRENCY, PER_DOMAIN_CONCURRENCY,
          MAX_NAPS                        \* naps that fit in MAX_BREAKER_WAIT_S

ASSUME GateAssumption ==
  /\ IsFiniteSet(Fetches) /\ IsFiniteSet(Hosts) /\ HostOf \in [Fetches -> Hosts]
  /\ GLOBAL_CONCURRENCY \in Nat \ {0} /\ PER_DOMAIN_CONCURRENCY \in Nat \ {0}
  /\ MAX_NAPS \in Nat

VARIABLES gateOpen,      \* the breaker refuses
          gateGlobal,    \* the semaphore of the process
          gateDict,      \* _per_domain: the number of a domain's semaphore, or 0
          gateSems,      \* the semaphores of domains
          gateTask       \* where each fetch is

gateVars == <<gateOpen, gateGlobal, gateDict, gateSems, gateTask>>

SemIds == 1..(Cardinality(Fetches) + Cardinality(Hosts))

\* asyncio.Semaphore: release hands the slot to the first waiter.
NewSem(limit) == [free |-> limit, wait |-> <<>>]
CanAcquire(s) == s.free > 0 /\ s.wait = <<>>
Acquired(s) == [s EXCEPT !.free = @ - 1]
Waiting(s, t) == [s EXCEPT !.wait = Append(@, t)]
Removed(q, i) == SubSeq(q, 1, i - 1) \o SubSeq(q, i + 1, Len(q))
PlaceOf(s, t) == CHOOSE i \in DOMAIN s.wait : s.wait[i] = t
Without(s, t) == [s EXCEPT !.wait = Removed(@, PlaceOf(s, t))]
Released(s) ==
  IF s.wait = <<>> THEN [s EXCEPT !.free = @ + 1] ELSE [s EXCEPT !.wait = Tail(@)]

\* The fetch that gets the slot goes on from there.
Granted(tasks, s, st) ==
  IF s.wait = <<>> THEN tasks ELSE [tasks EXCEPT ![Head(s.wait)].st = st]

GateInit ==
  /\ gateOpen = FALSE
  /\ gateGlobal = NewSem(GLOBAL_CONCURRENCY)
  /\ gateDict = [d \in Hosts |-> 0]
  /\ gateSems = [i \in SemIds |-> NewSem(PER_DOMAIN_CONCURRENCY)]
  /\ gateTask = [t \in Fetches |-> [st |-> "idle", naps |-> 0, sem |-> 0]]

\* An object is still referred to by the dictionary or by a fetch that got it.
FreeIds == {i \in SemIds : /\ \A d \in Hosts : gateDict[d] # i
                           /\ \A t \in Fetches : gateTask[t].sem # i}

\* _domain_sem: get or create.
SemOf(d) == IF gateDict[d] # 0 THEN gateDict[d] ELSE CHOOSE i \in FreeIds : TRUE
domain_sem(d) ==
  IF gateDict[d] # 0 THEN gateSems
  ELSE [gateSems EXCEPT ![SemOf(d)] = NewSem(PER_DOMAIN_CONCURRENCY)]

To(t, st) == [gateTask EXCEPT ![t].st = st]
Gone(tasks, t) == [tasks EXCEPT ![t] = [st |-> "idle", naps |-> 0, sem |-> 0]]

Enter(t) ==
  /\ gateTask[t].st = "idle"
  /\ gateTask' = To(t, "breaker")
  /\ UNCHANGED <<gateOpen, gateGlobal, gateDict, gateSems>>

\* An open breaker means another nap, or (waited long enough) CircuitOpen.
Nap(t) ==
  /\ gateTask[t].st = "breaker" /\ gateOpen
  /\ gateTask' = IF gateTask[t].naps < MAX_NAPS
                 THEN [gateTask EXCEPT ![t].naps = @ + 1] ELSE Gone(gateTask, t)
  /\ UNCHANGED <<gateOpen, gateGlobal, gateDict, gateSems>>

TakeGlobal(t) ==
  /\ gateTask[t].st = "breaker" /\ ~gateOpen
  /\ IF CanAcquire(gateGlobal)
     THEN gateGlobal' = Acquired(gateGlobal) /\ gateTask' = To(t, "slot")
     ELSE gateGlobal' = Waiting(gateGlobal, t) /\ gateTask' = To(t, "wait_slot")
  /\ UNCHANGED <<gateOpen, gateDict, gateSems>>

TakeDomain(t) ==
  LET d == HostOf[t]
      i == SemOf(d)
      s == domain_sem(d)[i]
  IN  /\ gateTask[t].st = "slot"
      /\ gateDict' = [gateDict EXCEPT ![d] = i]
      /\ IF CanAcquire(s)
         THEN /\ gateSems' = [domain_sem(d) EXCEPT ![i] = Acquired(s)]
              /\ gateTask' = [gateTask EXCEPT ![t].st = "token", ![t].sem = i]
         ELSE /\ gateSems' = [domain_sem(d) EXCEPT ![i] = Waiting(s, t)]
              /\ gateTask' = [gateTask EXCEPT ![t].st = "wait_domain", ![t].sem = i]
      /\ UNCHANGED <<gateOpen, gateGlobal>>

TakeToken(t) ==
  /\ gateTask[t].st = "token"
  /\ gateTask' = To(t, "fetch")
  /\ UNCHANGED <<gateOpen, gateGlobal, gateDict, gateSems>>

\* The domain's slot is given back by name: to the semaphore the dictionary
\* holds now.
ReleaseBoth(t) ==
  LET d == HostOf[t]
      i == SemOf(d)
      s == domain_sem(d)[i]
  IN  /\ gateDict' = [gateDict EXCEPT ![d] = i]
      /\ gateSems' = [domain_sem(d) EXCEPT ![i] = Released(s)]
      /\ gateGlobal' = Released(gateGlobal)
      /\ gateTask' = Gone(Granted(Granted(gateTask, s, "token"), gateGlobal, "slot"), t)

\* The fetch is over (__aexit__), however it ended.
Leave(t) ==
  /\ gateTask[t].st = "fetch"
  /\ ReleaseBoth(t)
  /\ UNCHANGED gateOpen

ReleaseGlobal(t) ==
  /\ gateGlobal' = Released(gateGlobal)
  /\ gateTask' = Gone(Granted(gateTask, gateGlobal, "slot"), t)

\* Mutated: a fetch cancelled while it waits for a token gives back only the
\* slot of the process.
CancelForgetsDomain(t) ==
  /\ gateTask[t].st = "token"
  /\ ReleaseGlobal(t)
  /\ UNCHANGED <<gateOpen, gateDict, gateSems>>

\* Cancellation (the domain's deadline, a sibling's failure, shutdown), at
\* each await of __aenter__.
Cancel(t) ==
  /\ CASE gateTask[t].st = "breaker" ->
            gateTask' = Gone(gateTask, t) /\ UNCHANGED <<gateGlobal, gateDict, gateSems>>
       [] gateTask[t].st = "wait_slot" ->
            /\ gateGlobal' = Without(gateGlobal, t) /\ gateTask' = Gone(gateTask, t)
            /\ UNCHANGED <<gateDict, gateSems>>
       [] gateTask[t].st = "slot" -> ReleaseGlobal(t) /\ UNCHANGED <<gateDict, gateSems>>
       [] gateTask[t].st = "wait_domain" ->
            /\ gateSems' = [gateSems EXCEPT ![gateTask[t].sem] = Without(@, t)]
            /\ ReleaseGlobal(t)
            /\ UNCHANGED gateDict
       [] gateTask[t].st = "token" -> ReleaseBoth(t)
       [] OTHER -> FALSE
  /\ UNCHANGED gateOpen

\* Mutated: the semaphore is dropped without looking.
ReleaseDomainAnyway(d) ==
  /\ gateDict[d] # 0
  /\ gateDict' = [gateDict EXCEPT ![d] = 0]
  /\ UNCHANGED <<gateOpen, gateGlobal, gateSems, gateTask>>

\* Only a semaphore whose slots are all free is dropped.
release_domain(d) ==
  /\ gateDict[d] # 0
  /\ gateSems[gateDict[d]].free = PER_DOMAIN_CONCURRENCY
  /\ gateDict' = [gateDict EXCEPT ![d] = 0]
  /\ UNCHANGED <<gateOpen, gateGlobal, gateSems, gateTask>>

BreakerTurns ==
  /\ gateOpen' = ~gateOpen
  /\ UNCHANGED <<gateGlobal, gateDict, gateSems, gateTask>>

FetchStep(t) == Nap(t) \/ TakeGlobal(t) \/ TakeDomain(t) \/ TakeToken(t) \/ Leave(t)

GateNext ==
  \/ \E t \in Fetches : Enter(t) \/ FetchStep(t) \/ Cancel(t)
  \/ \E d \in Hosts : release_domain(d)
  \/ BreakerTurns

GateSpec == GateInit /\ [][GateNext]_gateVars

-----------------------------------------------------------------------------
HasSlot(t) == gateTask[t].st \in {"slot", "wait_domain", "token", "fetch"}
HasDomain(t) == gateTask[t].st \in {"token", "fetch"}

Holders(d) == {t \in Fetches : HostOf[t] = d /\ HasDomain(t)}

\* A fetch waits in the queue of semaphore s, and s has no free slot.
WaitsAt(s, t) == s.free = 0 /\ \E i \in DOMAIN s.wait : s.wait[i] = t

\* No slot is lost or made up, whatever is cancelled and whenever a domain is
\* dropped: free and held slots add up to the limits, so no domain ever sees
\* more than PER_DOMAIN_CONCURRENCY fetches at once (__aenter__, __aexit__,
\* release_domain).  Nor is a wake-up: a fetch waits only while every slot is
\* taken, and at the semaphore that those who hold one will give it back to.
SlotsConserved ==
  /\ gateGlobal.free + Cardinality({t \in Fetches : HasSlot(t)}) = GLOBAL_CONCURRENCY
  /\ \A d \in Hosts :
       IF gateDict[d] = 0 THEN Holders(d) = {}
       ELSE gateSems[gateDict[d]].free + Cardinality(Holders(d)) = PER_DOMAIN_CONCURRENCY
  /\ \A t \in Fetches :
       /\ gateTask[t].st = "wait_slot" => WaitsAt(gateGlobal, t)
       /\ gateTask[t].st = "wait_domain" =>
            gateDict[HostOf[t]] # 0 /\ WaitsAt(gateSems[gateDict[HostOf[t]]], t)

\* Every fetch that enters leaves: with a page, refused or cancelled.
FetchesEnd == \A t \in Fetches : []<>(gateTask[t].st = "idle")

=============================================================================
