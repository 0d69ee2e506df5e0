---------------------------- MODULE JobQueueLocks ----------------------------
(***************************************************************************)
(* Who may fetch, who may record and what may be reused, for every value   *)
(* of the constants: as long as heartbeats arrive no two handlers fetch a  *)
(* domain together, a row is finished only by its latest claim, and what   *)
(* it takes from the cache is new enough.                                  *)
(***************************************************************************)
EXTENDS JobQueueProofs

USE DEF JobStatuses, ActiveStatuses

\* The phases in which a handler relies on its domain lock.
Locking(t) == handlers[t].phase \in {"recheck", "fetch"}

\* The handler's lock on its domain is its own and has not lapsed.
Holds(ds, t) == LET d == handlers[t].row[2] IN ds[d].lock_owner = t /\ ~ds[d].lapsed

\* A worker that is not up has no handlers.
DownIdle == \A t \in Tokens : workers[WorkerOf(t)] # "up" => ~Live(t)

\* A lock is needed from the moment it is taken until the fetch is over, and it
\* can be taken over only from a claim without a handler: release_worker frees
\* the locks of a worker whose handlers are gone, and a lock lapses only after
\* its handler is.
LockInv ==
  /\ DownIdle
  /\ left.outages <= MaxOutages
  /\ left.outages = MaxOutages => \A t \in Tokens : Locking(t) => Holds(doms, t)

\* Most steps start no handler, let none come to rely on a lock, and leave alone
\* the locks handlers rely on.
NoneStarts == \A u \in Tokens : Live(u)' => Live(u)
NoneLocks ==
  \A u \in Tokens : Locking(u)' => Locking(u) /\ handlers'[u].row = handlers[u].row
LocksKept == \A u \in Tokens : Locking(u)' /\ Holds(doms, u) => Holds(doms', u)

\* Such a step preserves the invariant, also when it takes a worker down.
LEMMA LocksStayDown ==
  ASSUME LockInv, DownIdle', NoneLocks, LocksKept, left'.outages = left.outages
  PROVE  LockInv'
<1>1. ASSUME left'.outages = MaxOutages, NEW t \in Tokens, Locking(t)' PROVE Holds(doms, t)'
  <2>1. Locking(t) /\ handlers'[t].row = handlers[t].row /\ Holds(doms, t)
    BY <1>1 DEF LockInv, NoneLocks
  <2>2. Holds(doms', t)
    BY <1>1, <2>1 DEF LocksKept
  <2> QED
    BY <2>1, <2>2 DEF Holds
<1> QED
  BY <1>1 DEF LockInv

\* ... as long as no worker changes.
LEMMA LocksStay ==
  ASSUME LockInv, NoneStarts, NoneLocks, LocksKept, workers' = workers,
         left'.outages = left.outages
  PROVE  LockInv'
<1>1. DownIdle'
  BY DEF LockInv, DownIdle, NoneStarts
<1> QED
  BY <1>1, LocksStayDown

\* A change of one live handler that does not come to rely on a lock.
LEMMA OneMoves ==
  ASSUME TypeOK, NEW t \in Tokens, Live(t), NEW h, handlers' = [handlers EXCEPT ![t] = h],
         \/ h.phase \notin {"recheck", "fetch"}
         \/ Locking(t) /\ h.row = handlers[t].row
  PROVE  NoneStarts /\ NoneLocks
BY DEF TypeOK, NoneStarts, NoneLocks, Locking, Live

\* Moving on to a phase that needs no lock.
LEMMA LockGo ==
  ASSUME TypeOK, NEW t \in Tokens, Live(t), NEW p \in Phases \ {"recheck", "fetch"}, Go(t, p)
  PROVE  NoneStarts /\ NoneLocks
<1> DEFINE h == [handlers[t] EXCEPT !.phase = p]
<1>1. handlers[t] \in Handler /\ handlers' = [handlers EXCEPT ![t] = h]
  BY DEF TypeOK, Go
<1>2. h.phase = p
  BY <1>1 DEF Handler
<1> HIDE DEF h
<1> QED
  BY <1>1, <1>2, OneMoves, Zenon

\* Turning to an unlock.
LEMMA LockUnlock ==
  ASSUME TypeOK, NEW t \in Tokens, Live(t), NEW n \in Nexts, GoUnlock(t, n)
  PROVE  NoneStarts /\ NoneLocks
<1> DEFINE h == [handlers[t] EXCEPT !.phase = "unlock", !.next = n]
<1>1. handlers[t] \in Handler /\ handlers' = [handlers EXCEPT ![t] = h]
  BY Zenon DEF TypeOK, GoUnlock
<1>2. h.phase = "unlock"
  BY <1>1 DEF Handler
<1> HIDE DEF h
<1> QED
  BY <1>1, <1>2, OneMoves, Zenon

\* Turning to finish.
LEMMA LockFinish ==
  ASSUME TypeOK, NEW t \in Tokens, Live(t), NEW res, NEW c, GoFinish(t, res, c)
  PROVE  NoneStarts /\ NoneLocks
<1> DEFINE h == [handlers[t] EXCEPT !.phase = "finish", !.result = res, !.from_cache = c]
<1>1. handlers[t] \in Handler /\ handlers' = [handlers EXCEPT ![t] = h]
  BY DEF TypeOK, GoFinish
<1>2. h.phase = "finish"
  BY <1>1 DEF Handler
<1> HIDE DEF h
<1> QED
  BY <1>1, <1>2, OneMoves, Zenon

\* Ending, of one handler and of all of a worker's.
LEMMA LockEnd ==
  ASSUME TypeOK, NEW t \in Tokens, End(t)
  PROVE  NoneStarts /\ NoneLocks
BY IdleFacts DEF TypeOK, End, NoneStarts, NoneLocks, Locking, Live

\* A worker that drops its handlers is left with none.
LEMMA LockDrop ==
  ASSUME TypeOK, NEW w \in Workers, DropHandlers(w)
  PROVE  NoneStarts /\ NoneLocks /\ \A t \in TokensOf(w) : ~Live(t)'
BY IdleFacts DEF TypeOK, DropHandlers, NoneStarts, NoneLocks, Locking, Live, TokensOf

\* Unlocking by t frees only a lock of t.
LEMMA UnlockKeeps ==
  ASSUME TypeOK, NEW t \in Tokens, NEW d \in Domains, NEW ds \in [Domains -> Domain],
         \A e \in Domains : ds[e].lock_owner = doms[e].lock_owner /\ ds[e].lapsed = doms[e].lapsed,
         doms' = Unlocked(ds, d, t), ~Locking(t)',
         \A u \in Tokens : Locking(u)' => handlers[u].row[2] \in Domains
  PROVE  LocksKept
<1> SUFFICES ASSUME NEW u \in Tokens, Locking(u)', Holds(doms, u) PROVE Holds(doms', u)
  BY DEF LocksKept
<1> DEFINE e == handlers[u].row[2]
<1>1. u # t /\ e \in Domains /\ ds[e].lock_owner = u /\ ~ds[e].lapsed
  BY DEF Holds
<1> HIDE DEF e
<1>2. doms'[e] = ds[e]
  <2>1. CASE ds[d].lock_owner = t
    <3>1. e # d
      BY <1>1, <2>1
    <3> QED
      BY <1>1, <2>1, <3>1 DEF Unlocked
  <2>2. CASE ds[d].lock_owner # t
    BY <2>2 DEF Unlocked
  <2> QED
    BY <2>1, <2>2
<1> QED
  BY <1>1, <1>2 DEF Holds, e

\* The table unchanged, every lock is kept.
LEMMA SameDomains ==
  ASSUME doms' = doms
  PROVE  LocksKept
BY DEF LocksKept, Holds

\* lock_domain: a lock a handler relies on is neither free nor lapsed.
LEMMA LockDomainLocks ==
  ASSUME ClaimInv, LockInv, NEW t \in Tokens, LockDomain(t)
  PROVE  LockInv'
<1> DEFINE d == handlers[t].row[2]
<1>1. TypeOK /\ Live(t) /\ d \in Domains /\ handlers[t] \in Handler /\ ~Locking(t)
  BY LiveRow DEF ClaimInv, LockDomain, Live, Locking
<1>2. workers' = workers /\ left' = left
  BY DEF LockDomain
<1>3. CASE ~Lockable(d)
  <2> DEFINE h == [handlers[t] EXCEPT !.phase = "requeue", !.next = "busy"]
  <2>1. handlers' = [handlers EXCEPT ![t] = h] /\ doms' = doms
    BY <1>1, <1>3, Zenon DEF LockDomain, TypeOK
  <2>2. h.phase = "requeue"
    BY <1>1 DEF Handler
  <2> HIDE DEF h
  <2>3. NoneStarts /\ NoneLocks
    BY <1>1, <2>1, <2>2, OneMoves
  <2> QED
    BY <1>2, <2>1, <2>3, SameDomains, LocksStay
<1>4. CASE Lockable(d)
  <2> DEFINE h == [handlers[t] EXCEPT !.phase = "recheck"]
             x == [doms[d] EXCEPT !.lock_owner = t, !.lapsed = FALSE]
  <2>1. handlers' = [handlers EXCEPT ![t] = h] /\ doms' = [doms EXCEPT ![d] = x]
    BY <1>1, <1>4 DEF LockDomain, Go, TypeOK
  <2>2. h.row = handlers[t].row /\ x.lock_owner = t /\ ~x.lapsed
    BY <1>1 DEF Handler, TypeOK, Domain
  <2> HIDE DEF h, x
  <2>3. \A u \in Tokens : Live(u)' => Live(u)
    BY <1>1, <2>1 DEF TypeOK, Live
  <2>4. DownIdle'
    BY <1>2, <2>3 DEF LockInv, DownIdle
  <2>5. ASSUME left.outages = MaxOutages, NEW u \in Tokens, Locking(u)' PROVE Holds(doms, u)'
    <3>1. CASE u = t
      <4>1. handlers'[u].row[2] = d /\ doms'[d] = x
        BY <1>1, <2>1, <2>2, <3>1 DEF TypeOK
      <4> HIDE DEF d
      <4> QED
        BY <2>2, <3>1, <4>1 DEF Holds
    <3>2. CASE u # t
      <4> DEFINE e == handlers[u].row[2]
      <4>1. handlers'[u] = handlers[u]
        BY <1>1, <2>1, <3>2 DEF TypeOK
      <4>2. Locking(u) /\ e \in Domains
        BY <2>5, <4>1, LiveRow DEF Locking, Live
      <4>3. doms[e].lock_owner = u /\ ~doms[e].lapsed
        BY <2>5, <4>2 DEF LockInv, Holds
      <4>4. e # d
        BY <1>4, <4>3, NullAssumption DEF Lockable
      <4>5. doms'[e] = doms[e]
        BY <1>1, <2>1, <4>2, <4>4 DEF TypeOK
      <4> QED
        BY <4>1, <4>3, <4>5 DEF Holds
    <3> QED
      BY <3>1, <3>2
  <2> QED
    BY <1>2, <2>4, <2>5 DEF LockInv
<1> QED
  BY <1>3, <1>4

\* The other steps of a handler.
LEMMA HandlerLocks ==
  ASSUME ClaimInv, LockInv, NEW t \in Tokens, HandlerStep(t)
  PROVE  LockInv'
<1>1. TypeOK /\ handlers[t] \in Handler
  BY DEF ClaimInv, TypeOK
<1>2. \A u \in Tokens : Live(u) => handlers[u].row[2] \in Domains
  BY LiveRow
<1>3. workers' = workers /\ left' = left
  BY Zenon DEF HandlerStep, CheckCache, LockDomain, RecheckCache, FetchDone, FetchCircuitOpen,
         PauseActiveJobs, UnlockDomain, RequeueRow, FinishOwned, FinishLost, UnlockLost, Notify
<1>4. ASSUME NoneStarts, NoneLocks, doms' = doms PROVE LockInv'
  BY <1>3, <1>4, SameDomains, LocksStay
<1>5. ASSUME NoneStarts, NoneLocks, ~Locking(t)', NEW d \in Domains,
             NEW ds \in [Domains -> Domain],
             \A e \in Domains : /\ ds[e].lock_owner = doms[e].lock_owner
                                /\ ds[e].lapsed = doms[e].lapsed,
             doms' = Unlocked(ds, d, t)
      PROVE  LockInv'
  <2>1. \A u \in Tokens : Locking(u)' => handlers[u].row[2] \in Domains
    BY <1>2, <1>5 DEF NoneLocks, Locking, Live
  <2>2. LocksKept
    BY <1>1, <1>5, <2>1, UnlockKeeps
  <2> QED
    BY <1>3, <1>5, <2>2, LocksStay
<1>6. CASE CheckCache(t)
  <2>1. Live(t) /\ doms' = doms
    BY <1>6 DEF CheckCache, Live
  <2>2. \/ \E res, c : GoFinish(t, res, c)
        \/ Go(t, "lock")
    BY <1>6, Zenon DEF CheckCache
  <2> QED
    BY <1>1, <1>4, <2>1, <2>2, LockFinish, LockGo DEF Phases
<1>7. CASE RecheckCache(t)
  <2> DEFINE h == [handlers[t] EXCEPT !.phase = "unlock", !.next = "finish",
                                      !.result = doms[handlers[t].row[2]].result,
                                      !.from_cache = TRUE]
             g == [handlers[t] EXCEPT !.phase = "fetch"]
  <2>1. Live(t) /\ doms' = doms /\ Locking(t)
    BY <1>7 DEF RecheckCache, Live, Locking
  <2>2. handlers' = [handlers EXCEPT ![t] = h] \/ handlers' = [handlers EXCEPT ![t] = g]
    BY <1>1, <1>7, Zenon DEF RecheckCache, Go, TypeOK
  <2>3. h.phase = "unlock" /\ g.row = handlers[t].row
    BY <1>1 DEF Handler
  <2> HIDE DEF h, g
  <2> QED
    BY <1>1, <1>4, <2>1, <2>2, <2>3, OneMoves
<1>8. CASE FetchDone(t) \/ FetchCircuitOpen(t)
  <2>1. Live(t) /\ doms' = doms
    BY <1>8, Zenon DEF FetchDone, FetchCircuitOpen, Live
  <2>2. GoUnlock(t, "retry") \/ \E res, c : GoFinish(t, res, c)
    BY <1>8, Zenon DEF FetchDone, FetchCircuitOpen
  <2> QED
    BY <1>1, <1>4, <2>1, <2>2, LockFinish, LockUnlock DEF Nexts
<1>9. CASE PauseActiveJobs(t)
  BY <1>1, <1>4, <1>9, LockUnlock, Zenon DEF PauseActiveJobs, Live, Nexts
<1>10. CASE RequeueRow(t) \/ Notify(t)
  BY <1>1, <1>4, <1>10, LockEnd DEF RequeueRow, Notify
<1>11. CASE FinishLost(t)
  BY <1>1, <1>4, <1>11, LockGo DEF FinishLost, Live, Phases
<1>12. CASE UnlockDomain(t)
  <2>1. PICK p \in {"finish", "requeue"} : Go(t, p)
    BY <1>12 DEF UnlockDomain
  <2>2. Live(t) /\ doms' = Unlocked(doms, handlers[t].row[2], t)
    BY <1>12 DEF UnlockDomain, Live
  <2>3. NoneStarts /\ NoneLocks /\ ~Locking(t)
    BY <1>1, <1>12, <2>1, <2>2, LockGo DEF Phases, UnlockDomain, Locking
  <2> QED
    BY <1>1, <1>2, <1>5, <2>2, <2>3 DEF TypeOK, NoneLocks
<1>13. CASE UnlockLost(t)
  <2>1. Live(t) /\ doms' = Unlocked(doms, handlers[t].row[2], t)
    BY <1>13 DEF UnlockLost, Live
  <2>2. NoneStarts /\ NoneLocks /\ ~Locking(t)
    BY <1>1, <1>13, LockEnd DEF UnlockLost, Locking
  <2> QED
    BY <1>1, <1>2, <1>5, <2>1, <2>2 DEF TypeOK, NoneLocks
<1>14. CASE FinishOwned(t)
  <2> DEFINE d == handlers[t].row[2]
             x == [doms[d] EXCEPT !.result = handlers[t].result, !.recent = TRUE]
             cache == IF WritesCache(handlers[t]) THEN [doms EXCEPT ![d] = x] ELSE doms
  <2>1. Live(t) /\ d \in Domains /\ handlers[t].phase = "finish"
    BY <1>2, <1>14, Zenon DEF FinishOwned, Live
  <2>2. doms' = Unlocked(cache, d, t) /\ Go(t, "notify")
    BY <1>14, Zenon DEF FinishOwned
  <2>3. NoneStarts /\ NoneLocks /\ ~Locking(t)
    BY <1>1, <2>1, <2>2, LockGo DEF Phases, Locking
  <2>4. x.lock_owner = doms[d].lock_owner /\ x.lapsed = doms[d].lapsed
    BY <1>1, <2>1 DEF TypeOK, Domain
  <2> HIDE DEF x
  <2>5. \A e \in Domains : cache[e].lock_owner = doms[e].lock_owner
                           /\ cache[e].lapsed = doms[e].lapsed
    BY <1>1, <2>1, <2>4 DEF TypeOK
  <2>6. cache \in [Domains -> Domain]
    <3>1. WritesCache(handlers[t]) => handlers[t].result \in Fetched \cup {"none"}
      BY <1>1 DEF WritesCache, Handler, Fetched
    <3>2. WritesCache(handlers[t]) => x \in Domain
      BY <1>1, <2>1, <3>1 DEF TypeOK, Domain, x
    <3> QED
      BY <1>1, <2>1, <3>2 DEF TypeOK
  <2>7. ~Locking(t)'
    BY <2>3 DEF NoneLocks
  <2> HIDE DEF cache, d
  <2> QED
    BY <1>5, <2>1, <2>2, <2>3, <2>5, <2>6, <2>7
<1> QED
  BY <1>6, <1>7, <1>8, <1>9, <1>10, <1>11, <1>12, <1>13, <1>14, LockDomainLocks DEF HandlerStep

\* A step that leaves the unlapsed locks of such handlers in place keeps them.
LEMMA OwnersKeep ==
  ASSUME ClaimInv, NoneLocks,
         \A d \in Domains, u \in Tokens :
           doms[d].lock_owner = u /\ Locking(u)' /\ ~doms[d].lapsed
           => doms'[d].lock_owner = u /\ ~doms'[d].lapsed
  PROVE  LocksKept
<1> SUFFICES ASSUME NEW u \in Tokens, Locking(u)', Holds(doms, u) PROVE Holds(doms', u)
  BY DEF LocksKept
<1>1. handlers[u].row[2] \in Domains
  BY LiveRow DEF NoneLocks, Locking, Live
<1> QED
  BY <1>1 DEF Holds

\* The handlers unchanged, none starts or comes to rely on a lock.
LEMMA SameHandlers ==
  ASSUME handlers' = handlers
  PROVE  NoneStarts /\ NoneLocks
BY DEF NoneStarts, NoneLocks, Live, Locking

\* claim starts a handler of a worker that is up; it has no lock yet.
LEMMA ClaimRowLocks ==
  ASSUME ClaimInv, LockInv, NEW w \in Workers, NEW j \in Jobs, ClaimRow(w, j)
  PROVE  LockInv'
<1>1. PICK d \in Available(j), t \in TokensOf(w) :
        handlers' = [handlers EXCEPT ![t] = [Idle EXCEPT !.phase = "check", !.row = <<j, d>>,
                                             !.attempts = rows[<<j, d>>].attempts + 1]]
  BY Zenon DEF ClaimRow
<1> DEFINE h == [Idle EXCEPT !.phase = "check", !.row = <<j, d>>,
                             !.attempts = rows[<<j, d>>].attempts + 1]
<1>2. handlers' = [handlers EXCEPT ![t] = h] /\ h.phase = "check"
  BY <1>1 DEF Idle
<1>3. /\ t \in Tokens /\ WorkerOf(t) = w /\ workers[w] = "up" /\ TypeOK
      /\ workers' = workers /\ left' = left /\ doms' = doms
  BY DEF ClaimRow, TokensOf, ClaimInv
<1> HIDE DEF h
<1>4. NoneLocks
  BY <1>2, <1>3 DEF TypeOK, NoneLocks, Locking
<1>5. DownIdle'
  BY <1>2, <1>3 DEF TypeOK, LockInv, DownIdle, Live
<1> QED
  BY <1>3, <1>4, <1>5, SameDomains, LocksStayDown

\* The worker's loops and its shutdown.
LEMMA WorkerLocks ==
  ASSUME ClaimInv, LockInv, NEW w \in Workers, WorkerStep(w)
  PROVE  LockInv'
<1>1. TypeOK
  BY DEF ClaimInv
<1>2. ASSUME NEW j \in Jobs, PickJobs(w) \/ SkipJob(w, j) PROVE LockInv'
  BY <1>2, SameHandlers, SameDomains, LocksStay DEF PickJobs, SkipJob
<1>3. CASE PickJobs(w)
  BY <1>3, SameHandlers, SameDomains, LocksStay DEF PickJobs
<1>4. CASE Heartbeat(w)
  <2>1. handlers' = handlers /\ workers' = workers /\ left' = left
    BY <1>4 DEF Heartbeat
  <2>2. \A d \in Domains : \/ doms'[d] = doms[d]
                           \/ doms'[d] = [doms[d] EXCEPT !.lapsed = FALSE]
    BY <1>4 DEF Heartbeat
  <2>3. \A d \in Domains : doms'[d].lock_owner = doms[d].lock_owner
                           /\ (~doms[d].lapsed => ~doms'[d].lapsed)
    <3> SUFFICES ASSUME NEW d \in Domains
                 PROVE  doms'[d].lock_owner = doms[d].lock_owner
                        /\ (~doms[d].lapsed => ~doms'[d].lapsed)
      OBVIOUS
    <3>1. doms[d] \in Domain
      BY <1>1 DEF TypeOK
    <3> QED
      BY <2>2, <3>1 DEF Domain
  <2> QED
    BY <2>1, <2>3, SameHandlers, OwnersKeep, LocksStay
<1>5. CASE StopWorker(w)
  <2>1. NoneStarts /\ NoneLocks /\ \A t \in TokensOf(w) : ~Live(t)'
    BY <1>1, <1>5, LockDrop DEF StopWorker
  <2>2. DownIdle'
    BY <1>1, <1>5, <2>1 DEF StopWorker, TypeOK, TokensOf, NoneStarts, LockInv, DownIdle
  <2> QED
    BY <1>5, <2>1, <2>2, SameDomains, LocksStayDown DEF StopWorker
<1>6. CASE ReleaseWorker(w)
  <2>1. handlers' = handlers /\ left' = left /\ workers[w] = "draining"
        /\ workers' = [workers EXCEPT ![w] = "dead"]
    BY <1>6, Zenon DEF ReleaseWorker
  <2>2. NoneLocks /\ NoneStarts
    BY <2>1, SameHandlers
  <2>3. DownIdle'
    BY <1>1, <2>1, <2>2 DEF TypeOK, NoneStarts, LockInv, DownIdle
  <2>4. ASSUME NEW d \in Domains, NEW u \in Tokens, doms[d].lock_owner = u, Locking(u)'
        PROVE  doms'[d] = doms[d]
    <3>1. u \notin TokensOf(w)
      BY <2>1, <2>4 DEF LockInv, DownIdle, TokensOf, Locking, Live
    <3> QED
      BY <1>6, <2>4, <3>1, Zenon DEF ReleaseWorker
  <2> QED
    BY <2>1, <2>2, <2>3, <2>4, OwnersKeep, LocksStayDown
<1> QED
  BY <1>2, <1>3, <1>4, <1>5, <1>6, ClaimRowLocks DEF WorkerStep, ClaimLoop

\* Faults: a crash takes the handlers with it, an outage ends the promise.
LEMMA FaultLocks ==
  ASSUME ClaimInv, LockInv, FaultStep
  PROVE  LockInv'
<1>1. TypeOK /\ left \in [faults : Nat, outages : Nat, retries : Nat]
  BY DEF ClaimInv, TypeOK
<1>2. Fault => left'.outages = left.outages
  BY <1>1 DEF Fault
<1>3. ASSUME NEW t \in Tokens, FetchAccountError(t) PROVE LockInv'
  <2>1. NoneStarts /\ NoneLocks
    BY <1>1, <1>3, LockUnlock, LockGo DEF FetchAccountError, Live, Nexts, Phases
  <2> QED
    BY <1>2, <1>3, <2>1, SameDomains, LocksStay DEF FetchAccountError
<1>4. ASSUME NEW t \in Tokens, HandleFails(t) PROVE LockInv'
  <2>1. NoneStarts /\ NoneLocks
    BY <1>1, <1>4, LockUnlock, LockEnd DEF HandleFails, Nexts
  <2> QED
    BY <1>2, <1>4, <2>1, SameDomains, LocksStay DEF HandleFails
<1>5. ASSUME NEW w \in Workers, Crash(w) PROVE LockInv'
  <2>1. NoneStarts /\ NoneLocks /\ \A t \in TokensOf(w) : ~Live(t)'
    BY <1>1, <1>5, LockDrop DEF Crash
  <2>2. DownIdle'
    BY <1>1, <1>5, <2>1 DEF Crash, TypeOK, TokensOf, NoneStarts, LockInv, DownIdle
  <2> QED
    BY <1>2, <1>5, <2>1, <2>2, SameDomains, LocksStayDown DEF Crash
<1>6. ASSUME NEW w \in Workers, Outage(w) PROVE LockInv'
  <2>1. left'.outages = left.outages - 1 /\ left.outages \in Nat
    BY <1>1, <1>6 DEF Outage
  <2>2. left'.outages < MaxOutages
    BY <2>1, BoundsAssumption DEF LockInv
  <2>3. left'.outages <= MaxOutages /\ left'.outages # MaxOutages
    BY <2>1, <2>2, BoundsAssumption
  <2>4. DownIdle'
    BY <1>6 DEF Outage, LockInv, DownIdle, Live
  <2> QED
    BY <2>3, <2>4 DEF LockInv
<1> QED
  BY <1>3, <1>4, <1>5, <1>6 DEF FaultStep

\* Time: only the lock of a claim without a handler lapses.
LEMMA TimeLocks ==
  ASSUME ClaimInv, LockInv, TimeStep
  PROVE  LockInv'
<1>1. TypeOK
  BY DEF ClaimInv
<1>2. handlers' = handlers /\ workers' = workers /\ left' = left
  BY DEF TimeStep, DelayPasses, RowGoesStale, LockLapses, CacheAges
<1>3. NoneStarts /\ NoneLocks
  BY <1>2, SameHandlers
<1>4. ASSUME NEW d \in Domains, LockLapses(d) PROVE LocksKept
  <2>1. doms' = [doms EXCEPT ![d].lapsed = TRUE] /\ ~Live(doms[d].lock_owner)
    BY <1>4 DEF LockLapses
  <2>2. ASSUME NEW e \in Domains, NEW u \in Tokens, doms[e].lock_owner = u, Locking(u)'
        PROVE  doms'[e] = doms[e]
    <3>1. e # d
      BY <1>2, <2>1, <2>2 DEF Locking, Live
    <3> QED
      BY <1>1, <2>1, <2>2, <3>1 DEF TypeOK
  <2> QED
    BY <1>3, <2>2, OwnersKeep
<1>5. ASSUME NEW d \in Domains, CacheAges(d) PROVE LocksKept
  <2>1. doms' = [doms EXCEPT ![d].recent = FALSE]
    BY <1>5 DEF CacheAges
  <2>2. \A e \in Domains : doms'[e] = doms[e] \/ doms'[e] = [doms[e] EXCEPT !.recent = FALSE]
    BY <1>1, <2>1, Zenon DEF TypeOK
  <2>3. \A e \in Domains : doms'[e].lock_owner = doms[e].lock_owner
                           /\ doms'[e].lapsed = doms[e].lapsed
    <3> SUFFICES ASSUME NEW e \in Domains
                 PROVE  doms'[e].lock_owner = doms[e].lock_owner
                        /\ doms'[e].lapsed = doms[e].lapsed
      OBVIOUS
    <3>1. doms[e] \in Domain
      BY <1>1 DEF TypeOK
    <3> QED
      BY <2>2, <3>1 DEF Domain
  <2> QED
    BY <1>3, <2>3, OwnersKeep
<1>6. ASSUME NEW r \in Rows, DelayPasses(r) \/ RowGoesStale(r) PROVE LocksKept
  BY <1>6, SameDomains DEF DelayPasses, RowGoesStale
<1>7. LocksKept
  BY <1>4, <1>5, <1>6 DEF TimeStep
<1> QED
  BY <1>2, <1>3, <1>7, LocksStay

\* At first no worker has a handler.
LEMMA LockInit == Init => LockInv
BY IdleFacts, BoundsAssumption DEF Init, LockInv, DownIdle, Locking, Live

\* Every step preserves the invariant.
LEMMA LockStep == ClaimInv /\ LockInv /\ [Next]_vars => LockInv'
<1> SUFFICES ASSUME ClaimInv, LockInv, [Next]_vars PROVE LockInv'
  OBVIOUS
<1>1. CASE ApiStep \/ Reap \/ Sweep \/ UNCHANGED vars
  <2>1. handlers' = handlers /\ doms' = doms /\ workers' = workers
    BY <1>1, Zenon DEF ApiStep, CreateJob, CancelJob, ResumeJob, ResumePaused, Resume, CompleteResumed,
                ResumeDies, RetryCheck, RequeueFailed, Reap, Sweep, vars
  <2>2. left' = left \/ left' = [left EXCEPT !.retries = @ - 1]
    BY <1>1, Zenon DEF ApiStep, CreateJob, CancelJob, ResumeJob, ResumePaused, Resume, CompleteResumed,
                ResumeDies, RetryCheck, RequeueFailed, Reap, Sweep, vars
  <2>3. left'.outages = left.outages
    BY <2>2 DEF ClaimInv, TypeOK
  <2> QED
    BY <2>1, <2>3, SameHandlers, SameDomains, LocksStay
<1> QED
  BY <1>1, HandlerLocks, WorkerLocks, FaultLocks, TimeLocks DEF Next

\* "so two jobs never fetch it at once" (models.py, on the lock lock_domain takes
\* and heartbeat renews): until heartbeats fail for longer than the lease, at most
\* one handler is fetching a domain.
THEOREM FetchIsExclusive == Spec => []FetchExclusive
<1>1. LockInv => FetchExclusive
  BY DEF LockInv, FetchExclusive, Locking, Holds
<1>2. Spec => []LockInv
  BY LockInit, LockStep, ClaimInvariant, PTL DEF Spec
<1> QED
  BY <1>1, <1>2, PTL

-----------------------------------------------------------------------------
(* Who records a result.                                                   *)

\* A step that finishes no row.
NoneFinishes == \A r \in Rows : rows'[r].state = "done" => rows[r].state = "done"

\* A row handed back is queued, whatever its attempts become.
LEMMA QueuedState ==
  ASSUME NEW row \in Row, NEW n, NEW b
  PROVE  Queued(row, n, b).state = "queued"
BY DEF Row, Queued

\* Changing a row's other fields, or making it queued or running, finishes none.
LEMMA TouchFinishesNone ==
  ASSUME TypeOK,
         \A r \in Rows : \/ rows'[r] = rows[r]
                         \/ \E b \in BOOLEAN : \/ rows'[r] = [rows[r] EXCEPT !.stale = b]
                                               \/ rows'[r] = [rows[r] EXCEPT !.available = b]
                         \/ \E n, b : rows'[r] = Queued(rows[r], n, b)
  PROVE  NoneFinishes
<1> SUFFICES ASSUME NEW r \in Rows, rows'[r].state = "done" PROVE rows[r].state = "done"
  BY DEF NoneFinishes
<1>1. rows[r] \in Row
  BY DEF TypeOK
<1>2. \A b \in BOOLEAN : [rows[r] EXCEPT !.stale = b].state = rows[r].state
                         /\ [rows[r] EXCEPT !.available = b].state = rows[r].state
  BY <1>1 DEF Row
<1>3. \A n, b : Queued(rows[r], n, b).state = "queued"
  BY <1>1, QueuedState
<1>4. CASE \E n, b : rows'[r] = Queued(rows[r], n, b)
  <2>1. PICK n, b : rows'[r] = Queued(rows[r], n, b)
    BY <1>4
  <2>2. Queued(rows[r], n, b).state = "queued"
    BY <1>3
  <2> QED
    BY <2>1, <2>2
<1>5. CASE \E b \in BOOLEAN : \/ rows'[r] = [rows[r] EXCEPT !.stale = b]
                             \/ rows'[r] = [rows[r] EXCEPT !.available = b]
  <2>1. PICK b \in BOOLEAN : \/ rows'[r] = [rows[r] EXCEPT !.stale = b]
                            \/ rows'[r] = [rows[r] EXCEPT !.available = b]
    BY <1>5
  <2> QED
    BY <1>2, <2>1
<1> QED
  BY <1>4, <1>5

\* The API finishes no row.
LEMMA ApiFinishesNone ==
  ASSUME ClaimInv, ApiStep
  PROVE  NoneFinishes
<1>1. ASSUME NEW r \in Rows PROVE rows[r] \in Row
  BY DEF ClaimInv, TypeOK
<1>2. ASSUME NEW j \in Jobs, NEW D, NEW f, CreateJob(j, D, f) PROVE NoneFinishes
  <2>1. \A r \in Rows : \/ rows'[r] = rows[r]
                        \/ rows'[r] = [rows[r] EXCEPT !.state = "queued", !.available = TRUE]
    BY <1>2, Zenon DEF CreateJob
  <2>2. \A r \in Rows : [rows[r] EXCEPT !.state = "queued", !.available = TRUE].state = "queued"
    BY <1>1 DEF Row
  <2> QED
    BY <2>1, <2>2, Zenon DEF NoneFinishes
<1>3. ASSUME NEW j \in Jobs, RequeueFailed(j) PROVE NoneFinishes
  <2> SUFFICES ASSUME NEW r \in Rows, rows'[r].state = "done" PROVE rows[r].state = "done"
    BY DEF NoneFinishes
  <2> DEFINE q == Queued(rows[r], 0, TRUE)
             c == r[2] \in retrying[j].newer
  <2>1. rows'[r] = rows[r] \/ rows'[r] = [q EXCEPT !.current = c]
    BY <1>3 DEF RequeueFailed
  <2>2. q \in Row /\ q.state = "queued"
    BY <1>1, QueuedFacts, Zenon
  <2> HIDE DEF q, c
  <2>3. [q EXCEPT !.current = c].state = "queued"
    BY <2>2 DEF Row
  <2> QED
    BY <2>1, <2>3, Zenon
<1> QED
  BY <1>2, <1>3, Zenon DEF ApiStep, CancelJob, ResumeJob, ResumePaused, Resume, CompleteResumed,
                    ResumeDies, RetryCheck, NoneFinishes

\* The worker's loops, the reaper, the sweep, faults and time finish no row.
LEMMA LoopsFinishNone ==
  ASSUME ClaimInv, (\E w \in Workers : WorkerStep(w)) \/ Reap \/ Sweep \/ FaultStep \/ TimeStep
  PROVE  NoneFinishes
<1>1. TypeOK
  BY DEF ClaimInv
<1>2. ASSUME NEW w \in Workers, NEW j \in Jobs, ClaimRow(w, j) PROVE NoneFinishes
  <2>1. PICK d \in Available(j), t \in TokensOf(w) :
          rows' = [rows EXCEPT ![<<j, d>>].state = "running", ![<<j, d>>].claimed_by = t,
                               ![<<j, d>>].stale = FALSE,
                               ![<<j, d>>].attempts = rows[<<j, d>>].attempts + 1]
    BY <1>2, Zenon DEF ClaimRow
  <2> DEFINE q == <<j, d>>
             x == [rows[q] EXCEPT !.state = "running", !.claimed_by = t, !.stale = FALSE,
                                  !.attempts = rows[q].attempts + 1]
  <2>2. q \in Rows /\ rows[q] \in Row
    BY <1>1 DEF TypeOK, Available, Rows
  <2>3. rows' = [rows EXCEPT ![q] = x] /\ x.state = "running"
    BY <1>1, <2>1, <2>2, Zenon DEF TypeOK, Row
  <2> HIDE DEF q, x
  <2> QED
    BY <1>1, <2>2, <2>3 DEF TypeOK, NoneFinishes
<1>3. ASSUME NEW w \in Workers, Heartbeat(w) \/ Outage(w) PROVE NoneFinishes
  <2>1. \A r \in Rows : \/ rows'[r] = rows[r]
                        \/ rows'[r] = [rows[r] EXCEPT !.stale = FALSE]
                        \/ rows'[r] = [rows[r] EXCEPT !.stale = TRUE]
    BY <1>3 DEF Heartbeat, Outage
  <2> QED
    BY <1>1, <2>1, TouchFinishesNone
<1>4. ASSUME NEW w \in Workers, ReleaseWorker(w) PROVE NoneFinishes
  <2>1. \A r \in Rows : rows'[r] = rows[r] \/ \E n, b : rows'[r] = Queued(rows[r], n, b)
    BY <1>4, Zenon DEF ReleaseWorker
  <2> QED
    BY <1>1, <2>1, TouchFinishesNone
<1>5. CASE Reap
  <2>1. \A r \in Rows : rows'[r] = rows[r] \/ \E n, b : rows'[r] = Queued(rows[r], n, b)
    BY <1>5, Zenon DEF Reap
  <2> QED
    BY <1>1, <2>1, TouchFinishesNone
<1>6. ASSUME NEW q \in Rows, DelayPasses(q) \/ RowGoesStale(q) PROVE NoneFinishes
  <2>1. \A r \in Rows : \/ rows'[r] = rows[r]
                        \/ rows'[r] = [rows[r] EXCEPT !.available = TRUE]
                        \/ rows'[r] = [rows[r] EXCEPT !.stale = TRUE]
    BY <1>1, <1>6, Zenon DEF DelayPasses, RowGoesStale, TypeOK
  <2> QED
    BY <1>1, <2>1, TouchFinishesNone
<1>7. rows' = rows => NoneFinishes
  BY DEF NoneFinishes
<1>8. ASSUME NEW w \in Workers, WorkerStep(w) PROVE NoneFinishes
  BY <1>2, <1>3, <1>4, <1>7, <1>8 DEF WorkerStep, ClaimLoop, PickJobs, SkipJob, StopWorker
<1>9. CASE FaultStep
  BY <1>3, <1>7, <1>9 DEF FaultStep, FetchAccountError, HandleFails, Crash
<1>10. CASE TimeStep
  BY <1>6, <1>7, <1>10 DEF TimeStep, LockLapses, CacheAges
<1>11. CASE Sweep
  BY <1>7, <1>11 DEF Sweep
<1> QED
  BY <1>5, <1>8, <1>9, <1>10, <1>11

\* Of a handler's steps only finish does, for the claim that owns the row.
LEMMA HandlerFinishes ==
  ASSUME ClaimInv, NEW t \in Tokens, HandlerStep(t), ~FinishOwned(t)
  PROVE  NoneFinishes
<1>1. CASE RequeueRow(t)
  <2>1. TypeOK
    BY DEF ClaimInv
  <2> DEFINE n == rows[handlers[t].row].attempts - Refund(handlers[t].next)
             b == NoDelay(handlers[t].next)
  <2>2. \A r \in Rows : \/ rows'[r] = rows[r]
                        \/ rows'[r] = Queued(rows[r], n, b)
    BY <1>1, <2>1 DEF RequeueRow, TypeOK
  <2> HIDE DEF n, b
  <2> QED
    BY <2>1, <2>2, TouchFinishesNone
<1>2. CASE ~RequeueRow(t)
  BY <1>2, Zenon DEF HandlerStep, CheckCache, LockDomain, RecheckCache, FetchDone, FetchCircuitOpen,
              PauseActiveJobs, UnlockDomain, FinishLost, UnlockLost, Notify, NoneFinishes
<1> QED
  BY <1>1, <1>2

\* finish records the handler's own result, on the attempt the row counts.
LEMMA FinishRecords ==
  ASSUME ClaimInv, NEW t \in Tokens, FinishOwned(t), NEW r \in Rows,
         rows[r].state # "done", rows'[r].state = "done"
  PROVE  /\ handlers[t].phase = "finish" /\ handlers[t].row = r
         /\ handlers[t].attempts = rows[r].attempts
         /\ handlers[t].result = rows'[r].result
<1> DEFINE x == IF r = handlers[t].row
                THEN [rows[r] EXCEPT !.state = "done", !.claimed_by = NoToken,
                                     !.result = handlers[t].result]
                ELSE rows[r]
           c == rows[r].current \/ (/\ WritesCache(handlers[t])
                                    /\ r[2] = handlers[t].row[2]
                                    /\ rows[r].state # "absent")
<1>1. rows'[r] = [x EXCEPT !.current = c]
  BY Zenon DEF FinishOwned
<1>2. rows[r] \in Row
  BY DEF ClaimInv, TypeOK
<1>3. /\ r = handlers[t].row => x.result = handlers[t].result
      /\ r # handlers[t].row => x.state = rows[r].state
      /\ DOMAIN x = DOMAIN rows[r]
  BY <1>2 DEF Row
<1>4. [x EXCEPT !.current = c].state = x.state /\ [x EXCEPT !.current = c].result = x.result
  <2>1. {"state", "result"} \subseteq DOMAIN x
    BY <1>2, <1>3 DEF Row
  <2> HIDE DEF x, c
  <2> QED
    BY <2>1
<1> HIDE DEF x, c
<1>5. handlers[t].row = r /\ handlers[t].result = rows'[r].result
  BY <1>1, <1>3, <1>4
<1>6. handlers[t].phase = "finish" /\ Live(t) /\ rows[r].claimed_by = t
  BY <1>5, Zenon DEF FinishOwned, Owns, Live
<1> QED
  BY <1>5, <1>6 DEF ClaimInv, ClaimsConsistent

\* A row is finished only by the claim counted in it: a handler whose row was reaped
\* and claimed again, with another token (new_token), records nothing (finish).
THEOREM RecordedByTheLatestClaim == Spec => RecordedByLatestClaim
<1> DEFINE Records ==
      \A r \in Rows :
        rows[r].state # "done" /\ rows'[r].state = "done"
        => \E t \in Tokens : /\ handlers[t].phase = "finish" /\ handlers[t].row = r
                             /\ handlers[t].attempts = rows[r].attempts
                             /\ handlers[t].result = rows'[r].result
<1>1. ASSUME ClaimInv, [Next]_vars PROVE [Records]_vars
  <2>1. NoneFinishes => Records
    BY DEF NoneFinishes
  <2>2. ASSUME NEW t \in Tokens, HandlerStep(t) PROVE Records
    <3>1. CASE FinishOwned(t)
      BY <1>1, <3>1, FinishRecords
    <3>2. CASE ~FinishOwned(t)
      BY <1>1, <2>1, <2>2, <3>2, HandlerFinishes
    <3> QED
      BY <3>1, <3>2
  <2> QED
    BY <1>1, <2>1, <2>2, ApiFinishesNone, LoopsFinishNone DEF Next
<1> QED
  BY <1>1, ClaimInvariant, PTL DEF Spec, RecordedByLatestClaim

-----------------------------------------------------------------------------
(* What a claim may take from the cache.                                   *)

\* A handler on its way to record what it found in the cache.
Reusing(h) == (h.phase = "finish" \/ (h.phase = "unlock" /\ h.next = "finish")) /\ h.from_cache

\* NoStaleReuse, from the moment the cached result was taken.
ReuseInv ==
  \A t \in Tokens :
    LET h == handlers[t]
    IN  /\ Reusing(h) /\ Owns(t)
        /\ h.result \in Failures \/ jobs[h.row[1]].fresh
        => rows[h.row].current

\* What a step keeps, unless it looks in the cache, claims a row or creates a job:
\* no handler takes up a cached result, no row is claimed and none that stays
\* claimed loses its date, and no job with a claimed row changes its mind.
NoneReuses ==
  \A t \in Tokens : Reusing(handlers'[t]) => /\ Reusing(handlers[t])
                                             /\ handlers'[t].row = handlers[t].row
                                             /\ handlers'[t].result = handlers[t].result
NoneClaimed ==
  \A r \in Rows : rows'[r].state = "running" => /\ rows[r].state = "running"
                                                /\ rows'[r].claimed_by = rows[r].claimed_by
                                                /\ rows[r].current => rows'[r].current
FreshStays ==
  \A r \in Rows : rows[r].state = "running" => jobs'[r[1]].fresh = jobs[r[1]].fresh

\* A handler with a result to record has a row.
LEMMA ReusingHasRow ==
  ASSUME ClaimInv, NEW t \in Tokens, Reusing(handlers[t])
  PROVE  handlers[t].row \in Rows /\ handlers[t].row[1] \in Jobs
BY LiveRow DEF Reusing, Live

\* Such a step preserves the invariant.
LEMMA ReuseStays ==
  ASSUME ClaimInv, ReuseInv, NoneReuses, NoneClaimed, FreshStays
  PROVE  ReuseInv'
<1> SUFFICES ASSUME NEW t \in Tokens, Reusing(handlers'[t]), Owns(t)',
                    handlers'[t].result \in Failures \/ jobs'[handlers'[t].row[1]].fresh
             PROVE  rows'[handlers'[t].row].current
  BY DEF ReuseInv
<1> DEFINE r == handlers[t].row
<1>1. Reusing(handlers[t]) /\ handlers'[t].row = r /\ handlers'[t].result = handlers[t].result
  BY DEF NoneReuses
<1>2. r \in Rows /\ r[1] \in Jobs
  BY <1>1, ReusingHasRow
<1>3. rows'[r].state = "running" /\ rows'[r].claimed_by = t
  BY <1>1 DEF Owns
<1>4. Owns(t)
  BY <1>2, <1>3 DEF NoneClaimed, Owns
<1>5. handlers[t].result \in Failures \/ jobs[r[1]].fresh
  BY <1>1, <1>2, <1>4 DEF FreshStays, Owns
<1>6. rows[r].current
  BY <1>1, <1>4, <1>5 DEF ReuseInv
<1> QED
  BY <1>1, <1>2, <1>3, <1>6 DEF NoneClaimed

\* The handlers' moves that take nothing from the cache.
LEMMA OneMovesOn ==
  ASSUME TypeOK, NEW t \in Tokens, NEW h, handlers' = [handlers EXCEPT ![t] = h], ~Reusing(h)
  PROVE  NoneReuses
BY DEF TypeOK, NoneReuses

\* A handler that goes on to another phase.
LEMMA GoMovesOn ==
  ASSUME TypeOK, NEW t \in Tokens, NEW p, p \notin {"finish", "unlock"}, Go(t, p)
  PROVE  NoneReuses
<1> DEFINE h == [handlers[t] EXCEPT !.phase = p]
<1>1. handlers' = [handlers EXCEPT ![t] = h]
  BY DEF Go, TypeOK
<1>2. h.phase = p
  BY DEF TypeOK, Handler
<1> HIDE DEF h
<1> QED
  BY <1>1, <1>2, OneMovesOn, Zenon DEF Reusing

\* One that unlocks on its way to a requeue.
LEMMA UnlockMovesOn ==
  ASSUME TypeOK, NEW t \in Tokens, NEW n, n # "finish", GoUnlock(t, n)
  PROVE  NoneReuses
<1> DEFINE h == [handlers[t] EXCEPT !.phase = "unlock", !.next = n]
<1>1. handlers' = [handlers EXCEPT ![t] = h]
  BY Zenon DEF GoUnlock, TypeOK
<1>2. h.phase = "unlock" /\ h.next = n
  BY DEF TypeOK, Handler
<1> HIDE DEF h
<1> QED
  BY <1>1, <1>2, OneMovesOn, Zenon DEF Reusing

\* One that finishes with a result of its own.
LEMMA FinishMovesOn ==
  ASSUME TypeOK, NEW t \in Tokens, NEW res, GoFinish(t, res, FALSE)
  PROVE  NoneReuses
<1> DEFINE h == [handlers[t] EXCEPT !.phase = "finish", !.result = res, !.from_cache = FALSE]
<1>1. handlers' = [handlers EXCEPT ![t] = h]
  BY Zenon DEF GoFinish, TypeOK
<1>2. ~h.from_cache
  BY DEF TypeOK, Handler
<1> HIDE DEF h
<1> QED
  BY <1>1, <1>2, OneMovesOn, Zenon DEF Reusing

\* One that ends.
LEMMA EndMovesOn ==
  ASSUME TypeOK, NEW t \in Tokens, End(t)
  PROVE  NoneReuses
<1>1. ~Reusing(Idle)
  BY DEF Reusing, Idle
<1> QED
  BY <1>1, OneMovesOn, Zenon DEF End

\* Those of a worker that goes.
LEMMA DropMovesOn ==
  ASSUME TypeOK, NEW w \in Workers, DropHandlers(w)
  PROVE  NoneReuses
<1>1. ~Reusing(Idle)
  BY DEF Reusing, Idle
<1> QED
  BY <1>1 DEF DropHandlers, NoneReuses

\* None that moves.
LEMMA SameReuses ==
  ASSUME handlers' = handlers
  PROVE  NoneReuses
BY DEF NoneReuses

\* Rows that are only touched, or handed back.
LEMMA TouchClaimsNone ==
  ASSUME TypeOK,
         \A r \in Rows : \/ rows'[r] = rows[r]
                         \/ \E b \in BOOLEAN : \/ rows'[r] = [rows[r] EXCEPT !.stale = b]
                                               \/ rows'[r] = [rows[r] EXCEPT !.available = b]
                         \/ \E n, b : rows'[r] = Queued(rows[r], n, b)
  PROVE  NoneClaimed
<1> SUFFICES ASSUME NEW r \in Rows, rows'[r].state = "running"
             PROVE  /\ rows[r].state = "running" /\ rows'[r].claimed_by = rows[r].claimed_by
                    /\ rows[r].current => rows'[r].current
  BY DEF NoneClaimed
<1>1. rows[r] \in Row
  BY DEF TypeOK
<1>2. ~\E n, b : rows'[r] = Queued(rows[r], n, b)
  <2>1. ASSUME NEW n, NEW b PROVE Queued(rows[r], n, b).state = "queued"
    BY <1>1, Zenon DEF Row, Queued
  <2> QED
    BY <2>1
<1>3. ASSUME NEW b \in BOOLEAN, \/ rows'[r] = [rows[r] EXCEPT !.stale = b]
                               \/ rows'[r] = [rows[r] EXCEPT !.available = b]
      PROVE  /\ rows'[r].state = rows[r].state /\ rows'[r].claimed_by = rows[r].claimed_by
             /\ rows'[r].current = rows[r].current
  BY <1>1, <1>3 DEF Row
<1>4. CASE rows'[r] = rows[r]
  BY <1>4
<1>5. CASE rows'[r] # rows[r]
  <2>1. PICK b \in BOOLEAN : \/ rows'[r] = [rows[r] EXCEPT !.stale = b]
                            \/ rows'[r] = [rows[r] EXCEPT !.available = b]
    BY <1>2, <1>5, Zenon
  <2> QED
    BY <1>3, <2>1
<1> QED
  BY <1>4, <1>5

\* Rows that stay.
LEMMA SameClaimsNone ==
  ASSUME rows' = rows
  PROVE  NoneClaimed
BY DEF NoneClaimed

\* Only create_job sets a job's "fresh".
LEMMA OneJobFresh ==
  ASSUME TypeOK, NEW j \in Jobs, NEW x, x.fresh = jobs[j].fresh,
         jobs' = [jobs EXCEPT ![j] = x]
  PROVE  FreshStays
BY RowFacts DEF TypeOK, FreshStays

\* The same for all jobs at once.
LEMMA AllJobsFresh ==
  ASSUME \A j \in Jobs : jobs'[j].fresh = jobs[j].fresh
  PROVE  FreshStays
BY RowFacts DEF FreshStays

\* Marking jobs done leaves it alone.
LEMMA MarkDoneFresh ==
  ASSUME TypeOK, NEW rs, NEW S, jobs' = MarkDone(jobs, rs, S)
  PROVE  FreshStays
<1> SUFFICES ASSUME NEW j \in Jobs PROVE jobs'[j].fresh = jobs[j].fresh
  BY AllJobsFresh
<1>1. jobs[j] \in Job
  BY DEF TypeOK
<1>2. \/ jobs'[j] = jobs[j]
      \/ jobs'[j] = [jobs[j] EXCEPT !.status = "done", !.finished_at = TRUE]
  BY Zenon DEF MarkDone
<1> QED
  BY <1>1, <1>2 DEF Job

\* The API: a job gets its "fresh" before it has a claimed row.
LEMMA ApiReuse ==
  ASSUME ClaimInv, ReuseInv, ApiStep
  PROVE  ReuseInv'
<1>1. TypeOK /\ NoneReuses
  BY SameReuses, Zenon DEF ClaimInv, ApiStep, CreateJob, CancelJob, ResumeJob, ResumePaused, Resume,
                    CompleteResumed, ResumeDies, RetryCheck, RequeueFailed
<1>2. ASSUME NEW j \in Jobs, NEW D, NEW f, CreateJob(j, D, f) PROVE NoneClaimed /\ FreshStays
  <2>1. \A r \in Rows : rows[r] \in Row
    BY <1>1 DEF TypeOK
  <2>2. \A r \in Rows : \/ rows'[r] = rows[r]
                        \/ rows'[r] = [rows[r] EXCEPT !.state = "queued", !.available = TRUE]
    BY <1>2, Zenon DEF CreateJob
  <2>3. \A r \in Rows : [rows[r] EXCEPT !.state = "queued", !.available = TRUE].state = "queued"
    BY <2>1 DEF Row
  <2>4. NoneClaimed
    BY <2>2, <2>3, Zenon DEF NoneClaimed
  <2>5. ASSUME NEW r \in Rows, rows[r].state = "running" PROVE jobs'[r[1]] = jobs[r[1]]
    <3>1. r[1] # j
      BY <1>2, <2>5, Zenon DEF CreateJob, ClaimInv, UncreatedEmpty
    <3> QED
      BY <1>1, <1>2, <3>1, RowFacts, Zenon DEF CreateJob, TypeOK
  <2> QED
    BY <2>4, <2>5 DEF FreshStays
<1>3. ASSUME NEW j \in Jobs, RequeueFailed(j) PROVE NoneClaimed /\ FreshStays
  <2>1. ASSUME NEW r \in Rows, rows'[r] # rows[r] PROVE rows'[r].state = "queued"
    <3> DEFINE q == Queued(rows[r], 0, TRUE)
               c == r[2] \in retrying[j].newer
    <3>1. rows'[r] = [q EXCEPT !.current = c]
      BY <1>3, <2>1 DEF RequeueFailed
    <3>2. q \in Row /\ q.state = "queued"
      BY <1>1, QueuedFacts, Zenon DEF TypeOK
    <3> HIDE DEF q, c
    <3> QED
      BY <3>1, <3>2 DEF Row
  <2>2. NoneClaimed
    BY <2>1 DEF NoneClaimed
  <2> DEFINE x == [jobs[j] EXCEPT !.status = "running", !.finished_at = FALSE]
  <2>3. jobs' = jobs \/ jobs' = [jobs EXCEPT ![j] = x]
    BY <1>1, <1>3, Zenon DEF RequeueFailed, TypeOK
  <2>4. x.fresh = jobs[j].fresh
    BY <1>1 DEF TypeOK, Job
  <2> HIDE DEF x
  <2> QED
    BY <1>1, <2>2, <2>3, <2>4, OneJobFresh, AllJobsFresh
<1>4. ASSUME NEW j \in Jobs, CancelJob(j) PROVE NoneClaimed /\ FreshStays
  <2> DEFINE x == [jobs[j] EXCEPT !.status = "cancelled", !.paused_at = FALSE,
                                  !.finished_at = TRUE]
  <2>1. jobs' = [jobs EXCEPT ![j] = x] /\ rows' = rows
    BY <1>1, <1>4, Zenon DEF CancelJob, TypeOK
  <2>2. x.fresh = jobs[j].fresh
    BY <1>1 DEF TypeOK, Job
  <2> HIDE DEF x
  <2> QED
    BY <1>1, <2>1, <2>2, OneJobFresh, SameClaimsNone, Zenon
<1>5. ASSUME NEW S, Resume(S) PROVE NoneClaimed /\ FreshStays
  <2>1. ASSUME NEW j \in Jobs PROVE jobs'[j].fresh = jobs[j].fresh
    <3>1. jobs[j] \in Job
      BY <1>1 DEF TypeOK
    <3>2. \/ jobs'[j] = jobs[j]
          \/ jobs'[j] = [jobs[j] EXCEPT !.status = "running", !.paused_at = FALSE]
      BY <1>5, Zenon DEF Resume
    <3> QED
      BY <3>1, <3>2 DEF Job
  <2>2. rows' = rows
    BY <1>5, Zenon DEF Resume
  <2> QED
    BY <2>1, <2>2, AllJobsFresh, SameClaimsNone
<1>6. ASSUME NEW j \in Jobs, CompleteResumed(j) PROVE NoneClaimed /\ FreshStays
  BY <1>1, <1>6, MarkDoneFresh, SameClaimsNone DEF CompleteResumed
<1>7. ASSUME NEW j \in Jobs, ResumeDies(j) \/ RetryCheck(j) PROVE NoneClaimed /\ FreshStays
  BY <1>7, AllJobsFresh, SameClaimsNone DEF ResumeDies, RetryCheck
<1>8. NoneClaimed /\ FreshStays
  BY <1>2, <1>3, <1>4, <1>5, <1>6, <1>7, Zenon DEF ApiStep, ResumeJob, ResumePaused
<1> QED
  BY <1>1, <1>8, ReuseStays

\* claim: the new handler has looked at nothing yet, and the row was nobody's.
LEMMA ClaimRowReuse ==
  ASSUME ClaimInv, ReuseInv, NEW w \in Workers, NEW j \in Jobs, ClaimRow(w, j)
  PROVE  ReuseInv'
<1>1. TypeOK
  BY DEF ClaimInv
<1>2. PICK d \in Available(j), t \in TokensOf(w) :
        /\ NewToken(t)
        /\ rows' = [rows EXCEPT ![<<j, d>>].state = "running", ![<<j, d>>].claimed_by = t,
                                ![<<j, d>>].stale = FALSE,
                                ![<<j, d>>].attempts = rows[<<j, d>>].attempts + 1]
        /\ handlers' = [handlers EXCEPT ![t] = [Idle EXCEPT !.phase = "check", !.row = <<j, d>>,
                                                 !.attempts = rows[<<j, d>>].attempts + 1]]
  BY Zenon DEF ClaimRow
<1> DEFINE q == <<j, d>>
           n == rows[q].attempts + 1
           h == [Idle EXCEPT !.phase = "check", !.row = q, !.attempts = n]
           x == [rows[q] EXCEPT !.state = "running", !.claimed_by = t, !.stale = FALSE,
                                !.attempts = n]
<1>3. q \in Rows /\ rows[q] \in Row /\ t \in Tokens
  BY <1>1, TokenFacts DEF TypeOK, Available, Rows
<1>4. handlers' = [handlers EXCEPT ![t] = h] /\ h.phase = "check"
  BY <1>2 DEF Idle
<1>5. rows' = [rows EXCEPT ![q] = x] /\ x.claimed_by = t
  BY <1>1, <1>2, <1>3, Zenon DEF TypeOK, Row
<1> HIDE DEF q, n, h, x
<1>6. NoneReuses /\ ~Reusing(handlers'[t])
  BY <1>1, <1>3, <1>4, OneMovesOn, Zenon DEF Reusing, TypeOK
<1>7. \A k \in Jobs : jobs'[k].fresh = jobs[k].fresh
  <2> DEFINE y == [jobs[j] EXCEPT !.status = IF @ = "queued" THEN "running" ELSE @]
  <2>1. jobs' = [jobs EXCEPT ![j] = y]
    BY <1>1 DEF ClaimRow, TypeOK
  <2>2. y.fresh = jobs[j].fresh
    BY <1>1 DEF TypeOK, Job
  <2> HIDE DEF y
  <2> QED
    BY <1>1, <2>1, <2>2 DEF TypeOK
<1> SUFFICES ASSUME NEW u \in Tokens, Reusing(handlers'[u]), Owns(u)',
                    handlers'[u].result \in Failures \/ jobs'[handlers'[u].row[1]].fresh
             PROVE  rows'[handlers'[u].row].current
  BY DEF ReuseInv
<1>8. /\ u # t /\ Reusing(handlers[u]) /\ handlers'[u].row = handlers[u].row
      /\ handlers'[u].result = handlers[u].result
  BY <1>6 DEF NoneReuses
<1>9. handlers[u].row \in Rows /\ handlers[u].row[1] \in Jobs
  BY <1>8, ReusingHasRow
<1>10. handlers[u].row # q
  BY <1>1, <1>3, <1>5, <1>8, SMTT(30) DEF Owns, TypeOK
<1>11. rows'[handlers[u].row] = rows[handlers[u].row]
  BY <1>1, <1>5, <1>9, <1>10, SMTT(30) DEF TypeOK
<1>12. Owns(u)
  BY <1>8, <1>11 DEF Owns
<1> QED
  BY <1>7, <1>8, <1>9, <1>11, <1>12 DEF ReuseInv

\* The worker's loops, the reaper, the sweep, faults and time.
LEMMA LoopsReuse ==
  ASSUME ClaimInv, ReuseInv,
         (\E w \in Workers : WorkerStep(w)) \/ Reap \/ Sweep \/ FaultStep \/ TimeStep
  PROVE  ReuseInv'
<1>1. TypeOK
  BY DEF ClaimInv
<1>2. jobs' = jobs => FreshStays
  BY AllJobsFresh
<1>3. ASSUME NEW w \in Workers, Heartbeat(w) \/ Outage(w) PROVE ReuseInv'
  <2>1. \A r \in Rows : \/ rows'[r] = rows[r]
                        \/ rows'[r] = [rows[r] EXCEPT !.stale = FALSE]
                        \/ rows'[r] = [rows[r] EXCEPT !.stale = TRUE]
    BY <1>3, Zenon DEF Heartbeat, Outage
  <2>2. NoneClaimed
    BY <1>1, <2>1, TouchClaimsNone
  <2>3. jobs' = jobs /\ handlers' = handlers
    BY <1>3 DEF Heartbeat, Outage
  <2> QED
    BY <1>2, <2>2, <2>3, SameReuses, ReuseStays
<1>4. ASSUME NEW w \in Workers, ReleaseWorker(w) PROVE ReuseInv'
  <2>1. \A r \in Rows : rows'[r] = rows[r] \/ \E n, b : rows'[r] = Queued(rows[r], n, b)
    BY <1>4, Zenon DEF ReleaseWorker
  <2>2. NoneClaimed
    BY <1>1, <2>1, TouchClaimsNone
  <2>3. jobs' = jobs /\ handlers' = handlers
    BY <1>4, Zenon DEF ReleaseWorker
  <2> QED
    BY <1>2, <2>2, <2>3, SameReuses, ReuseStays
<1>5. ASSUME Reap PROVE ReuseInv'
  <2>1. \A r \in Rows : rows'[r] = rows[r] \/ \E n, b : rows'[r] = Queued(rows[r], n, b)
    BY <1>5, Zenon DEF Reap
  <2>2. NoneClaimed
    BY <1>1, <2>1, TouchClaimsNone
  <2>3. jobs' = jobs /\ handlers' = handlers
    BY <1>5 DEF Reap
  <2> QED
    BY <1>2, <2>2, <2>3, SameReuses, ReuseStays
<1>6. ASSUME NEW q \in Rows, DelayPasses(q) \/ RowGoesStale(q) PROVE ReuseInv'
  <2>1. \A r \in Rows : \/ rows'[r] = rows[r]
                        \/ rows'[r] = [rows[r] EXCEPT !.available = TRUE]
                        \/ rows'[r] = [rows[r] EXCEPT !.stale = TRUE]
    BY <1>1, <1>6, Zenon DEF DelayPasses, RowGoesStale, TypeOK
  <2>2. NoneClaimed
    BY <1>1, <2>1, TouchClaimsNone
  <2>3. jobs' = jobs /\ handlers' = handlers
    BY <1>6 DEF DelayPasses, RowGoesStale
  <2> QED
    BY <1>2, <2>2, <2>3, SameReuses, ReuseStays
<1>7. ASSUME Sweep PROVE ReuseInv'
  BY <1>1, <1>7, MarkDoneFresh, SameReuses, SameClaimsNone, ReuseStays DEF Sweep
<1>8. ASSUME NEW w \in Workers, StopWorker(w) \/ Crash(w) PROVE ReuseInv'
  <2>1. DropHandlers(w) /\ rows' = rows /\ jobs' = jobs
    BY <1>8 DEF StopWorker, Crash
  <2> QED
    BY <1>1, <1>2, <2>1, DropMovesOn, SameClaimsNone, ReuseStays
<1>9. ASSUME NEW t \in Tokens, FetchAccountError(t) \/ HandleFails(t) PROVE ReuseInv'
  <2>1. rows' = rows /\ jobs' = jobs
    BY <1>9 DEF FetchAccountError, HandleFails
  <2>2. NoneReuses
    BY <1>1, <1>9, GoMovesOn, UnlockMovesOn, EndMovesOn DEF FetchAccountError, HandleFails
  <2> QED
    BY <1>2, <2>1, <2>2, SameClaimsNone, ReuseStays
<1>10. ASSUME rows' = rows, jobs' = jobs, handlers' = handlers PROVE ReuseInv'
  BY <1>2, <1>10, SameReuses, SameClaimsNone, ReuseStays
<1>11. ASSUME NEW w \in Workers, WorkerStep(w) PROVE ReuseInv'
  BY <1>3, <1>4, <1>8, <1>10, <1>11, ClaimRowReuse DEF WorkerStep, ClaimLoop, PickJobs, SkipJob
<1>12. ASSUME FaultStep PROVE ReuseInv'
  BY <1>3, <1>8, <1>9, <1>12 DEF FaultStep
<1>13. ASSUME TimeStep PROVE ReuseInv'
  BY <1>6, <1>10, <1>13 DEF TimeStep, LockLapses, CacheAges
<1> QED
  BY <1>5, <1>7, <1>11, <1>12, <1>13

\* A cached result that a claim on its own row may use is current, or neither a
\* failure nor for a fresh job.
LEMMA UsableWhenOwned ==
  ASSUME NEW t \in Tokens, Owns(t), NEW cur \in Currents(t), NEW r, r = handlers[t].row,
         CacheUsable(r, cur), doms[r[2]].result \in Failures \/ jobs[r[1]].fresh
  PROVE  rows[r].current
<1>1. cur
  BY DEF CacheUsable
<1>2. cur = rows[r].current
  BY DEF Currents
<1> QED
  BY <1>1, <1>2, ZenonT(30)

\* Taking a cached result keeps the invariant.
LEMMA CacheTakenReuse ==
  ASSUME ClaimInv, ReuseInv, NEW t \in Tokens, NEW cur \in Currents(t), NEW h,
         CacheUsable(handlers[t].row, cur),
         h.row = handlers[t].row, h.result = doms[handlers[t].row[2]].result,
         handlers' = [handlers EXCEPT ![t] = h], rows' = rows, jobs' = jobs
  PROVE  ReuseInv'
<1>1. TypeOK
  BY DEF ClaimInv
<1> SUFFICES ASSUME NEW u \in Tokens, Reusing(handlers'[u]), Owns(u)',
                    handlers'[u].result \in Failures \/ jobs'[handlers'[u].row[1]].fresh
             PROVE  rows'[handlers'[u].row].current
  BY DEF ReuseInv
<1>2. handlers'[u].row = handlers[u].row
  BY <1>1 DEF TypeOK
<1>3. Owns(u)
  BY <1>2, SMTT(30) DEF Owns
<1>4. CASE u = t
  <2>1. handlers'[t].result = doms[handlers[t].row[2]].result
    BY <1>1, SMTT(30) DEF TypeOK
  <2> QED
    BY <1>2, <1>3, <1>4, <2>1, UsableWhenOwned
<1>5. CASE u # t
  <2>1. handlers'[u] = handlers[u]
    BY <1>1, <1>5 DEF TypeOK
  <2> QED
    BY <1>3, <2>1 DEF ReuseInv
<1> QED
  BY <1>4, <1>5

\* _handle, one transaction at a time.
LEMMA HandlerReuse ==
  ASSUME ClaimInv, ReuseInv, NEW t \in Tokens, HandlerStep(t)
  PROVE  ReuseInv'
<1>1. TypeOK /\ handlers[t] \in Handler
  BY DEF ClaimInv, TypeOK
<1>2. jobs' = jobs => FreshStays
  BY AllJobsFresh
<1>3. ASSUME NoneReuses, rows' = rows, jobs' = jobs PROVE ReuseInv'
  BY <1>2, <1>3, SameClaimsNone, ReuseStays
<1>4. ASSUME CheckCache(t) PROVE ReuseInv'
  <2>1. PICK cur \in Currents(t) :
          IF CacheUsable(handlers[t].row, cur)
          THEN GoFinish(t, doms[handlers[t].row[2]].result, TRUE)
          ELSE IF handlers[t].attempts > MaxClaims THEN GoFinish(t, "too_many", FALSE)
                                                   ELSE Go(t, "lock")
    BY <1>4, Zenon DEF CheckCache
  <2>2. rows' = rows /\ jobs' = jobs
    BY <1>4 DEF CheckCache
  <2>3. CASE CacheUsable(handlers[t].row, cur)
    <3> DEFINE res == doms[handlers[t].row[2]].result
               h == [handlers[t] EXCEPT !.phase = "finish", !.result = res, !.from_cache = TRUE]
    <3>1. handlers' = [handlers EXCEPT ![t] = h]
      BY <1>1, <2>1, <2>3, Zenon DEF GoFinish, TypeOK
    <3>2. h.row = handlers[t].row /\ h.result = res
      BY <1>1 DEF Handler
    <3> HIDE DEF h
    <3> QED
      BY <2>2, <2>3, <3>1, <3>2, CacheTakenReuse, Zenon
  <2>4. CASE ~CacheUsable(handlers[t].row, cur)
    BY <1>1, <1>3, <2>1, <2>2, <2>4, FinishMovesOn, GoMovesOn, Zenon
  <2> QED
    BY <2>3, <2>4
<1>5. ASSUME RecheckCache(t) PROVE ReuseInv'
  <2>1. PICK cur \in Currents(t) :
          IF CacheUsable(handlers[t].row, cur)
          THEN handlers' = [handlers EXCEPT ![t].phase = "unlock", ![t].next = "finish",
                                            ![t].result = doms[handlers[t].row[2]].result,
                                            ![t].from_cache = TRUE]
          ELSE Go(t, "fetch")
    BY <1>5 DEF RecheckCache
  <2>2. rows' = rows /\ jobs' = jobs
    BY <1>5 DEF RecheckCache
  <2>3. CASE CacheUsable(handlers[t].row, cur)
    <3> DEFINE res == doms[handlers[t].row[2]].result
               h == [handlers[t] EXCEPT !.phase = "unlock", !.next = "finish", !.result = res,
                                        !.from_cache = TRUE]
    <3>1. handlers' = [handlers EXCEPT ![t] = h]
      BY <1>1, <2>1, <2>3, Zenon DEF TypeOK
    <3>2. h.row = handlers[t].row /\ h.result = res
      BY <1>1 DEF Handler
    <3> HIDE DEF h
    <3> QED
      BY <2>2, <2>3, <3>1, <3>2, CacheTakenReuse
  <2>4. CASE ~CacheUsable(handlers[t].row, cur)
    BY <1>1, <1>3, <2>1, <2>2, <2>4, GoMovesOn
  <2> QED
    BY <2>3, <2>4
<1>6. ASSUME LockDomain(t) PROVE ReuseInv'
  <2> DEFINE h == [handlers[t] EXCEPT !.phase = "requeue", !.next = "busy"]
  <2>1. Go(t, "recheck") \/ handlers' = [handlers EXCEPT ![t] = h]
    BY <1>1, <1>6, Zenon DEF LockDomain, TypeOK
  <2>2. h.phase = "requeue"
    BY <1>1 DEF Handler
  <2> HIDE DEF h
  <2>3. NoneReuses
    BY <1>1, <2>1, <2>2, GoMovesOn, OneMovesOn DEF Reusing
  <2> QED
    BY <1>3, <1>6, <2>3 DEF LockDomain
<1>7. ASSUME FetchDone(t) \/ FetchCircuitOpen(t) PROVE ReuseInv'
  <2>1. NoneReuses
    BY <1>1, <1>7, FinishMovesOn, UnlockMovesOn DEF FetchDone, FetchCircuitOpen
  <2> QED
    BY <1>3, <1>7, <2>1, Zenon DEF FetchDone, FetchCircuitOpen
<1>8. ASSUME PauseActiveJobs(t) PROVE ReuseInv'
  <2>1. ASSUME NEW j \in Jobs PROVE jobs'[j].fresh = jobs[j].fresh
    <3>1. jobs[j] \in Job
      BY <1>1 DEF TypeOK
    <3>2. \/ jobs'[j] = jobs[j]
          \/ jobs'[j] = [jobs[j] EXCEPT !.status = "paused", !.paused_at = TRUE]
      BY <1>8, Zenon DEF PauseActiveJobs
    <3> QED
      BY <3>1, <3>2 DEF Job
  <2>2. NoneReuses /\ rows' = rows
    BY <1>1, <1>8, UnlockMovesOn, Zenon DEF PauseActiveJobs
  <2> QED
    BY <2>1, <2>2, AllJobsFresh, SameClaimsNone, ReuseStays
<1>9. ASSUME UnlockDomain(t) PROVE ReuseInv'
  <2> DEFINE p == IF handlers[t].next = "finish" THEN "finish" ELSE "requeue"
             h == [handlers[t] EXCEPT !.phase = p]
  <2>1. handlers' = [handlers EXCEPT ![t] = h] /\ handlers[t].phase = "unlock"
    BY <1>1, <1>9 DEF UnlockDomain, Go, TypeOK
  <2>2. h.phase = p /\ h.row = handlers[t].row /\ h.result = handlers[t].result
        /\ h.from_cache = handlers[t].from_cache
    BY <1>1 DEF Handler
  <2> HIDE DEF h
  <2>3. Reusing(h) => Reusing(handlers[t])
    BY <2>1, <2>2 DEF Reusing
  <2>4. NoneReuses
    BY <1>1, <2>1, <2>2, <2>3 DEF NoneReuses, TypeOK
  <2> QED
    BY <1>3, <1>9, <2>4 DEF UnlockDomain
<1>10. ASSUME RequeueRow(t) PROVE ReuseInv'
  <2> DEFINE n == rows[handlers[t].row].attempts - Refund(handlers[t].next)
             b == NoDelay(handlers[t].next)
  <2>1. \A r \in Rows : \/ rows'[r] = rows[r]
                        \/ rows'[r] = Queued(rows[r], n, b)
    BY <1>1, <1>10 DEF RequeueRow, TypeOK
  <2> HIDE DEF n, b
  <2>2. NoneClaimed
    BY <1>1, <2>1, TouchClaimsNone
  <2>3. NoneReuses /\ jobs' = jobs
    BY <1>1, <1>10, EndMovesOn DEF RequeueRow
  <2> QED
    BY <1>2, <2>2, <2>3, ReuseStays
<1>11. ASSUME FinishOwned(t) PROVE ReuseInv'
  <2>1. ASSUME NEW r \in Rows, rows'[r].state = "running"
        PROVE  /\ rows[r].state = "running" /\ rows'[r].claimed_by = rows[r].claimed_by
               /\ rows[r].current => rows'[r].current
    <3> DEFINE done == [rows[r] EXCEPT !.state = "done", !.claimed_by = NoToken,
                                       !.result = handlers[t].result]
               x == IF r = handlers[t].row THEN done ELSE rows[r]
               c == rows[r].current \/ (/\ WritesCache(handlers[t])
                                        /\ r[2] = handlers[t].row[2]
                                        /\ rows[r].state # "absent")
    <3>1. rows'[r] = [x EXCEPT !.current = c]
      BY <1>11, Zenon DEF FinishOwned
    <3>2. rows[r] \in Row
      BY <1>1 DEF TypeOK
    <3>3. done.state = "done" /\ DOMAIN done = DOMAIN rows[r]
          /\ {"state", "claimed_by", "current"} \subseteq DOMAIN rows[r]
      BY <3>2 DEF Row
    <3>4. {"state", "claimed_by", "current"} \subseteq DOMAIN x
      BY <3>3
    <3>5. rows[r].current => c
      OBVIOUS
    <3> HIDE DEF done, c
    <3>6. x = done \/ x = rows[r]
      OBVIOUS
    <3> HIDE DEF x
    <3>7. rows'[r].state = x.state /\ rows'[r].claimed_by = x.claimed_by /\ rows'[r].current = c
      BY <3>1, <3>4
    <3>8. x = rows[r]
      BY <2>1, <3>3, <3>6, <3>7
    <3> QED
      BY <2>1, <3>5, <3>7, <3>8
  <2>2. NoneClaimed
    BY <2>1 DEF NoneClaimed
  <2>3. NoneReuses /\ FreshStays
    BY <1>1, <1>11, GoMovesOn, MarkDoneFresh, Zenon DEF FinishOwned
  <2> QED
    BY <2>2, <2>3, ReuseStays
<1>12. ASSUME FinishLost(t) \/ UnlockLost(t) \/ Notify(t) PROVE ReuseInv'
  <2>1. NoneReuses
    BY <1>1, <1>12, GoMovesOn, EndMovesOn, SMTT(30) DEF FinishLost, UnlockLost, Notify
  <2> QED
    BY <1>3, <1>12, <2>1 DEF FinishLost, UnlockLost, Notify
<1> QED
  BY <1>4, <1>5, <1>6, <1>7, <1>8, <1>9, <1>10, <1>11, <1>12 DEF HandlerStep

\* At first no handler has a result.
LEMMA ReuseInit == Init => ReuseInv
BY DEF Init, ReuseInv, Reusing, Idle

\* Every step preserves the invariant.
LEMMA ReuseStep == ClaimInv /\ ReuseInv /\ [Next]_vars => ReuseInv'
<1> SUFFICES ASSUME ClaimInv, ReuseInv, [Next]_vars PROVE ReuseInv'
  OBVIOUS
<1>1. CASE UNCHANGED vars
  BY <1>1 DEF vars, ReuseInv, Owns
<1> QED
  BY <1>1, ApiReuse, HandlerReuse, LoopsReuse, SMTT(30) DEF Next

\* cache_usable, asked twice by _handle and used after the lock is given back: what
\* a claim then records from the cache is no older than its row's floor, when it is
\* a failure or the job asked for fresh data.
THEOREM NothingStaleIsReused == Spec => []NoStaleReuse
<1>1. ReuseInv => NoStaleReuse
  BY DEF ReuseInv, NoStaleReuse, Reusing
<1>2. Spec => []ReuseInv
  BY ReuseInit, ReuseStep, ClaimInvariant, PTL DEF Spec
<1> QED
  BY <1>1, <1>2, PTL

=============================================================================
