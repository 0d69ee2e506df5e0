----------------------------- MODULE FetchProofs -----------------------------
(***************************************************************************)
(* What every fetch passes through, for any number of fetches, callers,    *)
(* domains and processes and any parameters: the slots of the process and  *)
(* of the domains are neither lost nor made up, the request budget is      *)
(* kept, and the breaker lets no more probes through than allowed.         *)
(***************************************************************************)
EXTENDS FetchGate, TokenBucket, CircuitBreaker, FiniteSetTheorems,
        WellFoundedInduction, TLAPS

-----------------------------------------------------------------------------
(* The slots                                                               *)

\* A queue of the fetches of W: each of them once.
Queue(q, W) ==
  /\ q \in Seq(Fetches)
  /\ \A i, k \in DOMAIN q : q[i] = q[k] => i = k
  /\ W = {q[i] : i \in DOMAIN q}

\* A semaphore that the fetches of W wait for and those of H hold.  Nobody waits
\* while a slot is free.
SemOK(s, W, H, limit) ==
  /\ s \in [free : Nat, wait : Seq(Fetches)]
  /\ Queue(s.wait, W)
  /\ s.wait # <<>> => s.free = 0
  /\ IsFiniteSet(H) /\ s.free + Cardinality(H) = limit

\* The end of a queue, its front, and a place in it.
LEMMA QueueAppend ==
  ASSUME NEW q, NEW W, Queue(q, W), NEW t \in Fetches, t \notin W
  PROVE  Queue(Append(q, t), W \cup {t})
<1>1. /\ q \in Seq(Fetches) /\ DOMAIN q = 1..Len(q) /\ Len(q) \in Nat
      /\ Append(q, t) \in Seq(Fetches)
      /\ DOMAIN Append(q, t) = 1..Len(q) + 1
      /\ \A i \in 1..Len(q) : Append(q, t)[i] = q[i]
      /\ Append(q, t)[Len(q) + 1] = t
  BY DEF Queue
<1>2. \A i \in 1..Len(q) : q[i] # t
  BY <1>1 DEF Queue
<1>3. QED
  BY <1>1, <1>2 DEF Queue

\* A queue without its head waits for one less.
LEMMA QueueTail ==
  ASSUME NEW q, NEW W, Queue(q, W), q # <<>>
  PROVE  Head(q) \in W /\ Head(q) \in Fetches /\ Queue(Tail(q), W \ {Head(q)})
<1>1. /\ q \in Seq(Fetches) /\ DOMAIN q = 1..Len(q) /\ Len(q) \in Nat \ {0}
      /\ Head(q) = q[1] /\ Head(q) \in Fetches
      /\ Tail(q) \in Seq(Fetches) /\ DOMAIN Tail(q) = 1..Len(q) - 1
      /\ \A i \in 1..Len(q) - 1 : Tail(q)[i] = q[i + 1]
  BY DEF Queue
<1>2. ASSUME NEW i \in DOMAIN Tail(q), NEW k \in DOMAIN Tail(q), Tail(q)[i] = Tail(q)[k]
      PROVE  i = k
  <2>1. i + 1 \in DOMAIN q /\ k + 1 \in DOMAIN q /\ q[i + 1] = q[k + 1]
    BY <1>1, <1>2
  <2>2. QED
    BY <1>1, <1>2, <2>1 DEF Queue
<1>3. ASSUME NEW i \in DOMAIN Tail(q) PROVE Tail(q)[i] \in W \ {Head(q)}
  <2>1. i + 1 \in DOMAIN q /\ 1 \in DOMAIN q /\ i + 1 # 1 /\ Tail(q)[i] = q[i + 1]
    BY <1>1, <1>3
  <2>2. QED
    BY <1>1, <2>1 DEF Queue
<1>4. ASSUME NEW x \in W \ {Head(q)} PROVE \E i \in DOMAIN Tail(q) : Tail(q)[i] = x
  <2>1. PICK i \in 1..Len(q) : q[i] = x /\ i # 1
    BY <1>1 DEF Queue
  <2>2. i - 1 \in DOMAIN Tail(q) /\ Tail(q)[i - 1] = q[i]
    BY <1>1, <2>1
  <2>3. QED
    BY <2>1, <2>2, Zenon
<1>5. Head(q) \in W
  BY <1>1 DEF Queue
<1>6. QED
  BY <1>1, <1>2, <1>3, <1>4, <1>5 DEF Queue

\* One sequence after another.
LEMMA Joined ==
  ASSUME NEW S, NEW a \in Seq(S), NEW b \in Seq(S)
  PROVE  /\ a \o b \in Seq(S) /\ Len(a \o b) = Len(a) + Len(b)
         /\ \A i \in 1..Len(a) + Len(b) : (a \o b)[i] = IF i <= Len(a) THEN a[i] ELSE b[i - Len(a)]
  OBVIOUS

\* So does one without some other place.
LEMMA QueueRemove ==
  ASSUME NEW q, NEW W, Queue(q, W), NEW n \in DOMAIN q
  PROVE  Queue(Removed(q, n), W \ {q[n]})
<1> DEFINE a == SubSeq(q, 1, n - 1)
           b == SubSeq(q, n + 1, Len(q))
           r == a \o b
<1>1. q \in Seq(Fetches) /\ DOMAIN q = 1..Len(q) /\ Len(q) \in Nat /\ n \in 1..Len(q)
  BY DEF Queue
<1>2. a \in Seq(Fetches) /\ Len(a) = n - 1 /\ \A i \in 1..n - 1 : a[i] = q[i]
  BY <1>1
<1>3. b \in Seq(Fetches) /\ Len(b) = Len(q) - n /\ \A i \in 1..Len(q) - n : b[i] = q[i + n]
  BY <1>1
<1> HIDE DEF a, b
<1>4. /\ r \in Seq(Fetches) /\ DOMAIN r = 1..Len(q) - 1
      /\ \A i \in 1..n - 1 : r[i] = q[i]
      /\ \A i \in n..Len(q) - 1 : r[i] = q[i + 1]
  <2>c. /\ r \in Seq(Fetches) /\ Len(r) = Len(a) + Len(b)
        /\ \A i \in 1..Len(a) + Len(b) : r[i] = IF i <= Len(a) THEN a[i] ELSE b[i - Len(a)]
    BY <1>2, <1>3, Joined
  <2> HIDE DEF r
  <2>1. /\ r \in Seq(Fetches) /\ Len(r) = Len(q) - 1 /\ DOMAIN r = 1..Len(r)
        /\ \A i \in 1..Len(r) : r[i] = IF i <= n - 1 THEN a[i] ELSE b[i - (n - 1)]
    BY <1>1, <1>2, <1>3, <2>c
  <2>2. ASSUME NEW i \in n..Len(q) - 1 PROVE r[i] = q[i + 1]
    <3>1. i - (n - 1) \in 1..Len(q) - n /\ i - (n - 1) + n = i + 1
      BY <1>1, <2>2
    <3>2. r[i] = b[i - (n - 1)]
      BY <1>1, <2>1, <2>2
    <3>3. QED
      BY <1>3, <3>1, <3>2, Zenon
  <2>3. QED
    BY <1>1, <1>2, <2>1, <2>2
<1>r. Removed(q, n) = r
  BY DEF Removed, a, b
<1> HIDE DEF r
<1>5. ASSUME NEW i \in DOMAIN r, NEW k \in DOMAIN r, r[i] = r[k] PROVE i = k
  <2> DEFINE from(x) == IF x < n THEN x ELSE x + 1
  <2>1. /\ from(i) \in 1..Len(q) /\ from(k) \in 1..Len(q)
        /\ r[i] = q[from(i)] /\ r[k] = q[from(k)]
    <3>1. \A x \in DOMAIN r : from(x) \in 1..Len(q) /\ r[x] = q[from(x)]
      BY <1>1, <1>4
    <3>2. QED
      BY <3>1
  <2>2. from(i) = from(k)
    BY <1>1, <1>5, <2>1, Zenon DEF Queue
  <2>3. QED
    BY <1>1, <1>4, <2>2
<1>6. \A i \in DOMAIN r : r[i] \in W \ {q[n]}
  BY <1>1, <1>4 DEF Queue
<1>7. ASSUME NEW x \in W \ {q[n]} PROVE x \in {r[i] : i \in DOMAIN r}
  <2>1. PICK i \in 1..Len(q) : q[i] = x /\ i # n
    BY <1>1 DEF Queue
  <2>2. CASE i < n
    BY <1>1, <1>4, <2>1, <2>2
  <2>3. CASE i > n
    <3>1. i - 1 \in n..Len(q) - 1 /\ r[i - 1] = q[i]
      BY <1>1, <1>4, <2>1, <2>3
    <3>2. QED
      BY <1>1, <1>4, <2>1, <3>1
  <2>4. QED
    BY <1>1, <2>1, <2>2, <2>3
<1>8. W \ {q[n]} = {r[i] : i \in DOMAIN r}
  BY <1>6, <1>7
<1>9. Queue(r, W \ {q[n]})
  BY <1>4, <1>5, <1>8, Zenon DEF Queue
<1>10. QED
  BY <1>r, <1>9

\* What each operation of a semaphore does to those who wait and those who hold.
LEMMA SemNew ==
  ASSUME NEW limit \in Nat
  PROVE  SemOK(NewSem(limit), {}, {}, limit)
BY FS_EmptySet DEF SemOK, NewSem, Queue

\* Taking a free place.
LEMMA SemAcquired ==
  ASSUME NEW s, NEW W, NEW H, NEW limit, SemOK(s, W, H, limit), CanAcquire(s), NEW t, t \notin H
  PROVE  SemOK(Acquired(s), W, H \cup {t}, limit)
<1>1. IsFiniteSet(H \cup {t}) /\ Cardinality(H \cup {t}) = Cardinality(H) + 1
  BY FS_AddElement DEF SemOK
<1>2. Cardinality(H) \in Nat
  BY FS_CardinalityType DEF SemOK
<1>3. /\ Acquired(s) \in [free : Nat, wait : Seq(Fetches)]
      /\ Acquired(s).free = s.free - 1 /\ Acquired(s).wait = s.wait /\ s.wait = <<>>
  BY DEF SemOK, CanAcquire, Acquired
<1>4. QED
  BY <1>1, <1>2, <1>3 DEF SemOK

\* Waiting for one.
LEMMA SemWaiting ==
  ASSUME NEW s, NEW W, NEW H, NEW limit, SemOK(s, W, H, limit), ~CanAcquire(s),
         NEW t \in Fetches, t \notin W
  PROVE  SemOK(Waiting(s, t), W \cup {t}, H, limit)
<1>1. /\ Waiting(s, t) \in [free : Nat, wait : Seq(Fetches)]
      /\ Waiting(s, t).free = s.free /\ Waiting(s, t).wait = Append(s.wait, t) /\ s.free = 0
  BY DEF SemOK, CanAcquire, Waiting
<1>2. QED
  BY <1>1, QueueAppend DEF SemOK

\* Giving up waiting.
LEMMA SemWithout ==
  ASSUME NEW s, NEW W, NEW H, NEW limit, SemOK(s, W, H, limit), NEW t \in W
  PROVE  SemOK(Without(s, t), W \ {t}, H, limit)
<1> DEFINE n == PlaceOf(s, t)
<1>1. n \in DOMAIN s.wait /\ s.wait[n] = t
  BY DEF SemOK, Queue, PlaceOf
<1> HIDE DEF n
<1>2. Queue(Removed(s.wait, n), W \ {t})
  BY <1>1, QueueRemove DEF SemOK
<1>3. /\ Without(s, t).free = s.free /\ Without(s, t).wait = Removed(s.wait, n)
      /\ Without(s, t) \in [free : Nat, wait : Seq(Fetches)]
  BY <1>2 DEF SemOK, Without, Queue, n
<1>4. s.wait # <<>>
  BY <1>1
<1>5. QED
  BY <1>2, <1>3, <1>4 DEF SemOK

\* A slot that is given back is free, or the first in the queue has it.
LEMMA SemReleased ==
  ASSUME NEW s, NEW W, NEW H, NEW limit, SemOK(s, W, H, limit), NEW t \in H, W \cap H = {}
  PROVE  /\ s.wait = <<>> => SemOK(Released(s), W, H \ {t}, limit)
         /\ s.wait # <<>> => /\ Head(s.wait) \in W
                             /\ SemOK(Released(s), W \ {Head(s.wait)},
                                      (H \ {t}) \cup {Head(s.wait)}, limit)
<1>1. IsFiniteSet(H \ {t}) /\ Cardinality(H \ {t}) = Cardinality(H) - 1
  BY FS_RemoveElement DEF SemOK
<1>2. Cardinality(H) \in Nat /\ Cardinality(H \ {t}) \in Nat
  BY <1>1, FS_CardinalityType DEF SemOK
<1>3. CASE s.wait = <<>>
  <2>1. /\ Released(s) \in [free : Nat, wait : Seq(Fetches)]
        /\ Released(s).free = s.free + 1 /\ Released(s).wait = <<>>
    BY <1>3 DEF SemOK, Released
  <2>2. QED
    BY <1>1, <1>2, <1>3, <2>1 DEF SemOK
<1>4. CASE s.wait # <<>>
  <2> DEFINE h == Head(s.wait)
  <2>1. h \in W /\ h \in Fetches /\ Queue(Tail(s.wait), W \ {h})
    BY <1>4, QueueTail DEF SemOK
  <2> HIDE DEF h
  <2>2. h \notin H \ {t}
    BY <2>1
  <2>3. /\ IsFiniteSet((H \ {t}) \cup {h})
        /\ Cardinality((H \ {t}) \cup {h}) = Cardinality(H \ {t}) + 1
    BY <1>1, <2>2, FS_AddElement, Zenon
  <2>4. /\ Released(s) \in [free : Nat, wait : Seq(Fetches)]
        /\ Released(s).free = s.free /\ Released(s).wait = Tail(s.wait) /\ s.free = 0
    BY <1>4 DEF SemOK, Released
  <2>5. SemOK(Released(s), W \ {h}, (H \ {t}) \cup {h}, limit)
    BY <1>1, <1>2, <2>1, <2>3, <2>4 DEF SemOK
  <2>6. QED
    BY <1>4, <2>1, <2>5 DEF h
<1>5. QED
  BY <1>3, <1>4

\* Where a fetch is.
Steps == {"idle", "breaker", "wait_slot", "slot", "wait_domain", "token", "fetch"}
AtDomain == {"wait_domain", "token", "fetch"}

\* The fetches waiting for a slot.
WaitSlot == {t \in Fetches : gateTask[t].st = "wait_slot"}
InSlot == {t \in Fetches : HasSlot(t)}
WaitDomain(d) == {t \in Fetches : HostOf[t] = d /\ gateTask[t].st = "wait_domain"}

\* A fetch.
Task == [st : Steps, naps : Nat, sem : SemIds \cup {0}]

\* The global semaphore counts its holders.
GlobalOK == SemOK(gateGlobal, WaitSlot, InSlot, GLOBAL_CONCURRENCY)

\* The semaphore the dictionary holds for a domain is the one all its fetches
\* wait for or hold.
DomainOK(d) ==
  IF gateDict[d] = 0 THEN WaitDomain(d) = {} /\ Holders(d) = {}
  ELSE SemOK(gateSems[gateDict[d]], WaitDomain(d), Holders(d), PER_DOMAIN_CONCURRENCY)

\* The types.
GateType ==
  /\ gateTask \in [Fetches -> Task]
  /\ gateDict \in [Hosts -> SemIds \cup {0}]
  /\ DOMAIN gateSems = SemIds

\* Domains share no semaphore, and a fetch refers to that of its domain.
DictOK ==
  /\ \A d, e \in Hosts : gateDict[d] = gateDict[e] /\ gateDict[d] # 0 => d = e
  /\ \A t \in Fetches :
       gateTask[t].sem = IF gateTask[t].st \in AtDomain THEN gateDict[HostOf[t]] ELSE 0

\* The inductive invariant of the gate.
GateInv ==
  /\ GateType
  /\ DictOK
  /\ GlobalOK
  /\ \A d \in Hosts : DomainOK(d)

\* Nobody is at the gate at first.
LEMMA GateInvInit == GateInit => GateInv
<1> SUFFICES ASSUME GateInit PROVE GateInv
  OBVIOUS
<1>1. GateType /\ DictOK
  BY GateAssumption, Zenon DEF GateInit, GateType, Task, DictOK, Steps, AtDomain
<1>2. WaitSlot = {} /\ InSlot = {}
  BY DEF GateInit, WaitSlot, InSlot, HasSlot
<1>3. GlobalOK
  BY <1>2, SemNew, GateAssumption DEF GateInit, GlobalOK
<1>4. \A d \in Hosts : DomainOK(d)
  BY DEF GateInit, DomainOK, WaitDomain, Holders, HasDomain
<1>5. QED
  BY <1>1, <1>3, <1>4 DEF GateInv

\* There is a number for a new semaphore: no more are in use than there are domains.
LEMMA FreeIdExists ==
  ASSUME GateInv, NEW t \in Fetches
  PROVE  FreeIds # {}
<1> DEFINE used == {gateDict[d] : d \in Hosts}
<1>1. gateDict \in Surjection(Hosts, used)
  <2>1. gateDict \in [Hosts -> used]
    BY DEF GateInv, GateType
  <2>2. QED
    BY <2>1 DEF Surjection
<1>2. IsFiniteSet(used) /\ Cardinality(used) <= Cardinality(Hosts)
  BY <1>1, FS_Surjection, GateAssumption DEF ExistsSurjection
<1> HIDE DEF used
<1>3. Cardinality(Fetches) \in Nat \ {0} /\ Cardinality(Hosts) \in Nat
  BY FS_CardinalityType, FS_EmptySet, GateAssumption
<1>4. Cardinality(SemIds) = Cardinality(Fetches) + Cardinality(Hosts)
  BY <1>3, FS_Interval DEF SemIds
<1>5. PICK i \in SemIds : i \notin used
  <2> SUFFICES ASSUME SemIds \subseteq used PROVE FALSE
    OBVIOUS
  <2>1. Cardinality(SemIds) <= Cardinality(used)
    BY <1>2, FS_Subset
  <2>2. Cardinality(used) \in Nat
    BY <1>2, FS_CardinalityType
  <2>3. QED
    BY <1>2, <1>3, <1>4, <2>1, <2>2
<1>6. i # 0
  BY <1>3, <1>5 DEF SemIds
<1>7. \A d \in Hosts : gateDict[d] # i
  BY <1>5 DEF used
<1>8. \A u \in Fetches : gateTask[u].sem # i
  BY <1>6, <1>7, GateAssumption DEF GateInv, DictOK
<1>9. QED
  BY <1>5, <1>7, <1>8 DEF FreeIds

\* A fetch waits for the same semaphores and holds the same slots.
SameAtGlobal(u) ==
  /\ gateTask'[u].st = "wait_slot" <=> gateTask[u].st = "wait_slot"
  /\ HasSlot(u)' <=> HasSlot(u)
SameAtDomain(u) ==
  /\ gateTask'[u].st = "wait_domain" <=> gateTask[u].st = "wait_domain"
  /\ HasDomain(u)' <=> HasDomain(u)

\* A step that moves nobody at the global semaphore keeps it.
LEMMA GlobalKept ==
  ASSUME GateInv, UNCHANGED gateGlobal, \A u \in Fetches : SameAtGlobal(u)
  PROVE  GlobalOK'
<1>1. WaitSlot' = WaitSlot /\ InSlot' = InSlot
  BY DEF WaitSlot, InSlot, SameAtGlobal
<1>2. QED
  BY <1>1 DEF GateInv, GlobalOK

\* The same for the domains' semaphores.
LEMMA DomainsKept ==
  ASSUME GateInv, UNCHANGED <<gateDict, gateSems>>, \A u \in Fetches : SameAtDomain(u)
  PROVE  \A d \in Hosts : DomainOK(d)'
<1> SUFFICES ASSUME NEW d \in Hosts PROVE DomainOK(d)'
  OBVIOUS
<1>1. WaitDomain(d)' = WaitDomain(d) /\ Holders(d)' = Holders(d)
  BY DEF WaitDomain, Holders, SameAtDomain
<1>2. QED
  BY <1>1 DEF GateInv, DomainOK

\* Steps that touch no semaphore.
LEMMA QuietKeepsGate ==
  ASSUME GateInv, UNCHANGED <<gateGlobal, gateDict, gateSems>>, gateTask' \in [Fetches -> Task],
         \A u \in Fetches : /\ gateTask'[u].sem = gateTask[u].sem
                            /\ \/ gateTask'[u].st = gateTask[u].st
                               \/ {gateTask[u].st, gateTask'[u].st} \subseteq {"idle", "breaker"}
                               \/ {gateTask[u].st, gateTask'[u].st} \subseteq {"token", "fetch"}
  PROVE  GateInv'
<1>1. \A u \in Fetches : SameAtGlobal(u) /\ SameAtDomain(u)
  BY Zenon DEF SameAtGlobal, SameAtDomain, HasSlot, HasDomain
<1>2. GlobalOK' /\ \A d \in Hosts : DomainOK(d)'
  BY <1>1, GlobalKept, DomainsKept
<1>3. GateType'
  BY DEF GateInv, GateType, Task
<1>4. DictOK'
  BY DEF GateInv, DictOK, AtDomain
<1>5. QED
  BY <1>2, <1>3, <1>4 DEF GateInv, GlobalOK

\* Steps before and after the semaphores keep the invariant.
LEMMA EnterKeepsGate ==
  ASSUME GateInv, NEW t \in Fetches, Enter(t) \/ Nap(t) \/ TakeToken(t)
  PROVE  GateInv'
<1>1. gateTask' \in [Fetches -> Task]
  BY DEF Enter, Nap, TakeToken, To, Gone, GateInv, GateType, Task, Steps
<1>2. \A u \in Fetches :
        /\ gateTask'[u].sem = gateTask[u].sem
        /\ \/ gateTask'[u].st = gateTask[u].st
           \/ {gateTask[u].st, gateTask'[u].st} \subseteq {"idle", "breaker"}
           \/ {gateTask[u].st, gateTask'[u].st} \subseteq {"token", "fetch"}
  BY DEF Enter, Nap, TakeToken, To, Gone, GateInv, GateType, Task, DictOK, AtDomain
<1>3. QED
  BY <1>1, <1>2, QuietKeepsGate DEF Enter, Nap, TakeToken

\* Taking a global slot keeps the invariant.
LEMMA TakeGlobalKeepsGate ==
  ASSUME GateInv, NEW t \in Fetches, TakeGlobal(t)
  PROVE  GateInv'
<1>1. /\ gateTask[t].st = "breaker" /\ gateTask'[t].st \in {"slot", "wait_slot"}
      /\ gateTask' \in [Fetches -> Task]
      /\ \A u \in Fetches : gateTask'[u].sem = gateTask[u].sem
      /\ \A u \in Fetches \ {t} : gateTask'[u] = gateTask[u]
      /\ UNCHANGED <<gateDict, gateSems>>
  BY DEF TakeGlobal, To, GateInv, GateType, Task, Steps
<1>2. \A u \in Fetches : SameAtDomain(u)
  BY <1>1, Zenon DEF SameAtDomain, HasDomain
<1>3. GateType' /\ DictOK'
  BY <1>1, Zenon DEF GateInv, GateType, DictOK, Task, AtDomain
<1>4. t \notin WaitSlot /\ t \notin InSlot
  BY <1>1 DEF WaitSlot, InSlot, HasSlot
<1>5. GlobalOK'
  <2>1. CASE CanAcquire(gateGlobal)
    <3>1. gateGlobal' = Acquired(gateGlobal) /\ gateTask'[t].st = "slot"
      BY <2>1 DEF TakeGlobal, To, GateInv, GateType, Task
    <3>2. WaitSlot' = WaitSlot /\ InSlot' = InSlot \cup {t}
      BY <1>1, <3>1, Zenon DEF WaitSlot, InSlot, HasSlot
    <3>3. QED
      BY <1>4, <2>1, <3>1, <3>2, SemAcquired DEF GateInv, GlobalOK
  <2>2. CASE ~CanAcquire(gateGlobal)
    <3>1. gateGlobal' = Waiting(gateGlobal, t) /\ gateTask'[t].st = "wait_slot"
      BY <2>2 DEF TakeGlobal, To, GateInv, GateType, Task
    <3>2. WaitSlot' = WaitSlot \cup {t} /\ InSlot' = InSlot
      BY <1>1, <3>1, Zenon DEF WaitSlot, InSlot, HasSlot
    <3>3. QED
      BY <1>4, <2>2, <3>1, <3>2, SemWaiting DEF GateInv, GlobalOK
  <2>3. QED
    BY <2>1, <2>2, Zenon
<1>6. QED
  BY <1>1, <1>2, <1>3, <1>5, DomainsKept DEF GateInv, GlobalOK

\* Taking a domain's slot keeps the invariant.
LEMMA TakeDomainKeepsGate ==
  ASSUME GateInv, NEW t \in Fetches, TakeDomain(t)
  PROVE  GateInv'
<1> DEFINE d == HostOf[t]
           i == SemOf(d)
           s == domain_sem(d)[i]
<1>1. d \in Hosts /\ gateTask[t].st = "slot" /\ UNCHANGED gateGlobal
  BY GateAssumption, Zenon DEF TakeDomain
<1>2. i \in SemIds \ {0} /\ (gateDict[d] = 0 => i \in FreeIds) /\ (gateDict[d] # 0 => i = gateDict[d])
  <2>1. 0 \notin SemIds
    BY DEF SemIds
  <2>2. QED
    BY <1>1, <2>1, FreeIdExists DEF SemOf, FreeIds, GateInv, GateType
<1>3. \A e \in Hosts \ {d} : gateDict[e] # i
  BY <1>1, <1>2, Zenon DEF FreeIds, GateInv, DictOK
<1>4. SemOK(s, WaitDomain(d), Holders(d), PER_DOMAIN_CONCURRENCY)
  <2>1. CASE gateDict[d] = 0
    <3>1. s = NewSem(PER_DOMAIN_CONCURRENCY)
      BY <1>2, <2>1, Zenon DEF domain_sem, GateInv, GateType
    <3>2. WaitDomain(d) = {} /\ Holders(d) = {}
      BY <1>1, <2>1, Zenon DEF GateInv, DomainOK
    <3>3. QED
      BY <3>1, <3>2, SemNew, GateAssumption
  <2>2. CASE gateDict[d] # 0
    BY <1>1, <1>2, <2>2, Zenon DEF domain_sem, GateInv, DomainOK
  <2>3. QED
    BY <2>1, <2>2
<1>5. t \notin WaitDomain(d) /\ t \notin Holders(d)
  BY <1>1, Zenon DEF WaitDomain, Holders, HasDomain
<1>6. /\ gateDict' = [gateDict EXCEPT ![d] = i]
      /\ DOMAIN gateSems' = SemIds
      /\ \A k \in SemIds \ {i} : gateSems'[k] = gateSems[k]
      /\ \A u \in Fetches \ {t} : gateTask'[u] = gateTask[u]
      /\ gateTask' \in [Fetches -> Task]
      /\ gateTask'[t].sem = i
      /\ IF CanAcquire(s) THEN gateSems'[i] = Acquired(s) /\ gateTask'[t].st = "token"
                          ELSE gateSems'[i] = Waiting(s, t) /\ gateTask'[t].st = "wait_domain"
  <2>1. /\ DOMAIN domain_sem(d) = SemIds
        /\ \A k \in SemIds \ {i} : domain_sem(d)[k] = gateSems[k]
    BY <1>2 DEF domain_sem, GateInv, GateType
  <2>2. CASE CanAcquire(s)
    <3>1. /\ gateSems' = [domain_sem(d) EXCEPT ![i] = Acquired(s)]
          /\ gateTask' = [gateTask EXCEPT ![t].st = "token", ![t].sem = i]
      BY <2>2 DEF TakeDomain
    <3> HIDE DEF i, s
    <3>2. QED
      BY <1>2, <2>1, <2>2, <3>1 DEF TakeDomain, GateInv, GateType, Task, Steps, i
  <2>3. CASE ~CanAcquire(s)
    <3>1. /\ gateSems' = [domain_sem(d) EXCEPT ![i] = Waiting(s, t)]
          /\ gateTask' = [gateTask EXCEPT ![t].st = "wait_domain", ![t].sem = i]
      BY <2>3, Zenon DEF TakeDomain
    <3> HIDE DEF i, s
    <3>2. QED
      BY <1>2, <2>1, <2>3, <3>1 DEF TakeDomain, GateInv, GateType, Task, Steps, i
  <2>4. QED
    BY <2>2, <2>3
<1> HIDE DEF i, s
<1>7. \A u \in Fetches : SameAtGlobal(u)
  BY <1>1, <1>6, Zenon DEF SameAtGlobal, HasSlot
<1>8. GateType'
  BY <1>1, <1>2, <1>6, Zenon DEF GateInv, GateType, Task
<1>9. DictOK'
  <2>1. \A e \in Hosts : gateDict'[e] = IF e = d THEN i ELSE gateDict[e]
    BY <1>1, <1>6, Zenon DEF GateInv, GateType
  <2>2. \A u \in Fetches : gateTask[u].st \in AtDomain /\ HostOf[u] = d => gateDict[d] = i
    BY <1>1, <1>2, Zenon DEF GateInv, DomainOK, WaitDomain, Holders, HasDomain, AtDomain
  <2>3. ASSUME NEW u \in Fetches
        PROVE  gateTask'[u].sem = IF gateTask'[u].st \in AtDomain THEN gateDict'[HostOf[u]] ELSE 0
    BY <1>1, <1>6, <2>1, <2>2, <2>3, GateAssumption DEF GateInv, DictOK, AtDomain
  <2>4. \A e, f \in Hosts : gateDict'[e] = gateDict'[f] /\ gateDict'[e] # 0 => e = f
    BY <1>3, <2>1 DEF GateInv, DictOK
  <2>5. QED
    BY <2>3, <2>4, Zenon DEF DictOK
<1>10. ASSUME NEW e \in Hosts PROVE DomainOK(e)'
  <2>1. CASE e # d
    <3>1. gateDict'[e] = gateDict[e] /\ gateDict[e] # i
      BY <1>1, <1>3, <1>6, <2>1, Zenon DEF GateInv, GateType
    <3>2. WaitDomain(e)' = WaitDomain(e) /\ Holders(e)' = Holders(e)
      BY <1>6, <2>1 DEF WaitDomain, Holders, HasDomain
    <3>3. gateDict[e] # 0 => gateSems'[gateDict[e]] = gateSems[gateDict[e]]
      BY <1>6, <3>1 DEF GateInv, GateType
    <3>4. QED
      BY <3>1, <3>2, <3>3, Zenon DEF GateInv, DomainOK
  <2>2. CASE e = d
    <3>1. gateDict'[e] = i /\ i # 0
      BY <1>1, <1>2, <1>6, <2>2, Zenon DEF GateInv, GateType
    <3>2. CASE CanAcquire(s)
      <4>1. WaitDomain(d)' = WaitDomain(d) /\ Holders(d)' = Holders(d) \cup {t}
        BY <1>1, <1>6, <3>2, Zenon DEF WaitDomain, Holders, HasDomain
      <4>2. SemOK(Acquired(s), WaitDomain(d), Holders(d) \cup {t}, PER_DOMAIN_CONCURRENCY)
        BY <1>4, <1>5, <3>2, SemAcquired, Zenon
      <4>3. QED
        BY <1>6, <2>2, <3>1, <3>2, <4>1, <4>2, Zenon DEF DomainOK
    <3>3. CASE ~CanAcquire(s)
      <4>1. WaitDomain(d)' = WaitDomain(d) \cup {t} /\ Holders(d)' = Holders(d)
        BY <1>1, <1>6, <3>3 DEF WaitDomain, Holders, HasDomain
      <4>2. SemOK(Waiting(s, t), WaitDomain(d) \cup {t}, Holders(d), PER_DOMAIN_CONCURRENCY)
        BY <1>4, <1>5, <3>3, SemWaiting, Zenon
      <4>3. QED
        BY <1>6, <2>2, <3>1, <3>3, <4>1, <4>2, Zenon DEF DomainOK
    <3>4. QED
      BY <3>2, <3>3, Zenon
  <2>3. QED
    BY <2>1, <2>2, Zenon
<1>11. QED
  BY <1>1, <1>7, <1>8, <1>9, <1>10, GlobalKept DEF GateInv, GlobalOK

\* The slot of the process that a fetch gives back is free or goes to the fetch at
\* the head of the queue, wherever the fetch was.
LEMMA GlobalReleased ==
  ASSUME GateInv, NEW t \in Fetches, HasSlot(t), gateGlobal' = Released(gateGlobal),
         gateTask'[t].st = "idle",
         \A u \in Fetches \ {t} :
           IF gateGlobal.wait # <<>> /\ u = Head(gateGlobal.wait)
           THEN gateTask'[u].st = "slot" ELSE SameAtGlobal(u)
  PROVE  GlobalOK'
<1>1. t \in InSlot /\ WaitSlot \cap InSlot = {}
  BY Zenon DEF WaitSlot, InSlot, HasSlot
<1>2. CASE gateGlobal.wait = <<>>
  <2>1. WaitSlot' = WaitSlot /\ InSlot' = InSlot \ {t}
    BY <1>1, <1>2, Zenon DEF WaitSlot, InSlot, HasSlot, SameAtGlobal
  <2>2. QED
    BY <1>1, <1>2, <2>1, SemReleased, Zenon DEF GateInv, GlobalOK
<1>3. CASE gateGlobal.wait # <<>>
  <2> DEFINE h == Head(gateGlobal.wait)
  <2>1. /\ h \in WaitSlot
        /\ SemOK(Released(gateGlobal), WaitSlot \ {h}, (InSlot \ {t}) \cup {h}, GLOBAL_CONCURRENCY)
    BY <1>1, <1>3, SemReleased, Zenon DEF GateInv, GlobalOK
  <2>2. \A u \in Fetches \ {t} : IF u = h THEN gateTask'[u].st = "slot" ELSE SameAtGlobal(u)
    BY <1>3, Zenon
  <2> HIDE DEF h
  <2>3. h \in Fetches \ {t} /\ gateTask'[h].st = "slot"
    BY <1>1, <2>1, <2>2 DEF WaitSlot
  <2>4. WaitSlot' = WaitSlot \ {h}
    BY <1>1, <2>1, <2>2, <2>3 DEF WaitSlot, SameAtGlobal
  <2>5. InSlot' = (InSlot \ {t}) \cup {h}
    BY <1>1, <2>1, <2>2, <2>3, Zenon DEF InSlot, HasSlot, SameAtGlobal
  <2>6. QED
    BY <2>1, <2>4, <2>5 DEF GlobalOK
<1>4. QED
  BY <1>2, <1>3, Zenon

\* What Granted does to the tasks.
LEMMA GrantedTasks ==
  ASSUME NEW tasks \in [Fetches -> Task], NEW s, NEW W, Queue(s.wait, W), NEW st \in Steps
  PROVE  /\ Granted(tasks, s, st) \in [Fetches -> Task]
         /\ s.wait # <<>> => Head(s.wait) \in W /\ Head(s.wait) \in Fetches
         /\ \A u \in Fetches :
              /\ Granted(tasks, s, st)[u].sem = tasks[u].sem
              /\ Granted(tasks, s, st)[u].st =
                   IF s.wait # <<>> /\ u = Head(s.wait) THEN st ELSE tasks[u].st
<1>1. CASE s.wait = <<>>
  BY <1>1, Zenon DEF Granted
<1>2. CASE s.wait # <<>>
  <2> DEFINE h == Head(s.wait)
  <2>1. h \in Fetches /\ h \in W
    BY <1>2, QueueTail, Zenon
  <2>2. Granted(tasks, s, st) = [tasks EXCEPT ![h].st = st]
    BY <1>2 DEF Granted
  <2> HIDE DEF h
  <2>3. /\ Granted(tasks, s, st) \in [Fetches -> Task]
        /\ \A u \in Fetches :
              /\ Granted(tasks, s, st)[u].sem = tasks[u].sem
              /\ Granted(tasks, s, st)[u].st = IF u = h THEN st ELSE tasks[u].st
    BY <2>1, <2>2 DEF Task
  <2>4. QED
    BY <1>2, <2>1, <2>3, Zenon DEF h
<1>3. QED
  BY <1>1, <1>2

\* A fetch that is gone leaves the others alone.
LEMMA GoneTasks ==
  ASSUME NEW tasks \in [Fetches -> Task], NEW t \in Fetches
  PROVE  /\ Gone(tasks, t) \in [Fetches -> Task]
         /\ Gone(tasks, t)[t].st = "idle" /\ Gone(tasks, t)[t].sem = 0
         /\ \A u \in Fetches \ {t} : Gone(tasks, t)[u] = tasks[u]
BY Zenon DEF Gone, Task, Steps

\* The fetches after the slot of the process is given back.
LEMMA GlobalGivenBack ==
  ASSUME GateInv, NEW t \in Fetches, HasSlot(t), ReleaseGlobal(t)
  PROVE  /\ GlobalOK' /\ gateTask' \in [Fetches -> Task]
         /\ gateTask'[t].st = "idle" /\ gateTask'[t].sem = 0
         /\ \A u \in Fetches \ {t} :
              /\ gateTask'[u].sem = gateTask[u].sem /\ SameAtDomain(u)
              /\ gateTask'[u].st \in AtDomain <=> gateTask[u].st \in AtDomain
<1> DEFINE g == Granted(gateTask, gateGlobal, "slot")
<1>1. gateTask \in [Fetches -> Task] /\ "slot" \in Steps
  BY DEF GateInv, GateType, Task, Steps
<1>2. Queue(gateGlobal.wait, WaitSlot)
  BY Zenon DEF GateInv, GlobalOK, SemOK
<1>3. /\ g \in [Fetches -> Task]
      /\ gateGlobal.wait # <<>> => Head(gateGlobal.wait) \in WaitSlot
      /\ \A u \in Fetches :
           /\ g[u].sem = gateTask[u].sem
           /\ g[u].st = IF gateGlobal.wait # <<>> /\ u = Head(gateGlobal.wait)
                        THEN "slot" ELSE gateTask[u].st
  BY <1>1, <1>2, GrantedTasks
<1>4. gateTask' = Gone(g, t) /\ gateGlobal' = Released(gateGlobal)
  BY DEF ReleaseGlobal
<1> HIDE DEF g
<1>5. /\ gateTask' \in [Fetches -> Task]
      /\ gateTask'[t].st = "idle" /\ gateTask'[t].sem = 0
      /\ \A u \in Fetches \ {t} : gateTask'[u] = g[u]
  BY <1>3, <1>4, GoneTasks
<1>6. \A u \in Fetches \ {t} :
        IF gateGlobal.wait # <<>> /\ u = Head(gateGlobal.wait)
        THEN gateTask'[u].st = "slot" ELSE SameAtGlobal(u)
  BY <1>3, <1>5 DEF SameAtGlobal, HasSlot
<1>7. GlobalOK'
  BY <1>4, <1>5, <1>6, GlobalReleased
<1>8. ASSUME NEW u \in Fetches \ {t}
      PROVE  /\ gateTask'[u].sem = gateTask[u].sem /\ SameAtDomain(u)
             /\ gateTask'[u].st \in AtDomain <=> gateTask[u].st \in AtDomain
  BY <1>3, <1>5, <1>8, Zenon DEF SameAtDomain, HasDomain, WaitSlot, AtDomain
<1>9. QED
  BY <1>5, <1>7, <1>8

\* The slot of the domain goes back to the semaphore it came from.
LEMMA ReleaseBothKeepsGate ==
  ASSUME GateInv, NEW t \in Fetches, HasDomain(t), ReleaseBoth(t)
  PROVE  GateInv'
<1> DEFINE d == HostOf[t]
           i == gateDict[d]
           s == gateSems[i]
           g == Granted(gateTask, s, "token")
           f == Granted(g, gateGlobal, "slot")
<1>1. d \in Hosts /\ t \in Holders(d) /\ HasSlot(t)
  BY GateAssumption, Zenon DEF Holders, HasDomain, HasSlot
<1>2. i # 0 /\ i \in SemIds
  BY <1>1, Zenon DEF GateInv, GateType, DomainOK
<1>3. SemOf(d) = i /\ domain_sem(d) = gateSems
  BY <1>2, Zenon DEF SemOf, domain_sem
<1>4. SemOK(s, WaitDomain(d), Holders(d), PER_DOMAIN_CONCURRENCY)
  BY <1>1, <1>2, Zenon DEF GateInv, DomainOK
<1>5. /\ gateDict' = [gateDict EXCEPT ![d] = i]
      /\ gateSems' = [gateSems EXCEPT ![i] = Released(s)]
      /\ gateGlobal' = Released(gateGlobal)
      /\ gateTask' = Gone(f, t)
  BY <1>3, Zenon DEF ReleaseBoth
<1>6. gateDict' = gateDict
  BY <1>1, <1>5, Zenon DEF GateInv, GateType
<1>7. /\ DOMAIN gateSems' = SemIds /\ gateSems'[i] = Released(s)
      /\ \A k \in SemIds \ {i} : gateSems'[k] = gateSems[k]
  BY <1>2, <1>5 DEF GateInv, GateType
<1>8. gateTask \in [Fetches -> Task] /\ "slot" \in Steps /\ "token" \in Steps
  BY Zenon DEF GateInv, GateType, Task, Steps
<1>9. Queue(gateGlobal.wait, WaitSlot) /\ Queue(s.wait, WaitDomain(d))
  BY <1>4, Zenon DEF GateInv, GlobalOK, SemOK
<1> HIDE DEF d, i, s
<1>10. /\ g \in [Fetches -> Task]
       /\ s.wait # <<>> => Head(s.wait) \in WaitDomain(d)
       /\ \A u \in Fetches :
            /\ g[u].sem = gateTask[u].sem
            /\ g[u].st = IF s.wait # <<>> /\ u = Head(s.wait) THEN "token" ELSE gateTask[u].st
  BY <1>8, <1>9, GrantedTasks
<1> HIDE DEF g
<1>11. /\ f \in [Fetches -> Task]
       /\ gateGlobal.wait # <<>> => Head(gateGlobal.wait) \in WaitSlot
       /\ \A u \in Fetches :
            /\ f[u].sem = g[u].sem
            /\ f[u].st = IF gateGlobal.wait # <<>> /\ u = Head(gateGlobal.wait)
                         THEN "slot" ELSE g[u].st
  BY <1>8, <1>9, <1>10, GrantedTasks
<1> HIDE DEF f
<1>12. /\ gateTask' \in [Fetches -> Task]
       /\ gateTask'[t].st = "idle" /\ gateTask'[t].sem = 0
       /\ \A u \in Fetches \ {t} : gateTask'[u] = f[u]
  BY <1>5, <1>11, GoneTasks, Zenon
<1>13. GlobalOK'
  <2>1. \A u \in Fetches \ {t} :
          IF gateGlobal.wait # <<>> /\ u = Head(gateGlobal.wait)
          THEN gateTask'[u].st = "slot" ELSE SameAtGlobal(u)
    BY <1>10, <1>11, <1>12 DEF SameAtGlobal, HasSlot, WaitDomain
  <2>2. QED
    BY <1>1, <1>5, <1>12, <2>1, GlobalReleased, Zenon
<1>14. \A u \in Fetches \ {t} :
         IF s.wait # <<>> /\ u = Head(s.wait) THEN gateTask'[u].st = "token" ELSE SameAtDomain(u)
  BY <1>10, <1>11, <1>12 DEF SameAtDomain, HasDomain, WaitDomain, WaitSlot
<1>15. GateType'
  BY <1>6, <1>7, <1>12, Zenon DEF GateInv, GateType, Task
<1>16. DictOK'
  <2>1. ASSUME NEW u \in Fetches \ {t}
        PROVE  /\ gateTask'[u].sem = gateTask[u].sem
               /\ gateTask'[u].st \in AtDomain <=> gateTask[u].st \in AtDomain
    BY <1>10, <1>11, <1>12, <2>1 DEF AtDomain, WaitDomain, WaitSlot
  <2>2. QED
    BY <1>6, <1>12, <2>1, Zenon DEF GateInv, DictOK, AtDomain
<1>17. ASSUME NEW e \in Hosts PROVE DomainOK(e)'
  <2>1. CASE e # d
    <3>1. gateDict[e] # i
      BY <1>1, <1>2, <2>1, Zenon DEF GateInv, DictOK, i
    <3>2. gateDict[e] # 0 => gateSems'[gateDict[e]] = gateSems[gateDict[e]]
      BY <1>7, <3>1, Zenon DEF GateInv, GateType
    <3>3. \A u \in Fetches : HostOf[u] = e => u # t /\ u \notin WaitDomain(d)
      BY <2>1, Zenon DEF WaitDomain, d
    <3>4. \A u \in Fetches : HostOf[u] = e => SameAtDomain(u)
      BY <1>10, <1>14, <3>3, Zenon
    <3>5. WaitDomain(e)' = WaitDomain(e) /\ Holders(e)' = Holders(e)
      BY <3>4, Zenon DEF WaitDomain, Holders, SameAtDomain
    <3>6. QED
      BY <1>6, <3>2, <3>5, Zenon DEF GateInv, DomainOK
  <2>2. CASE e = d
    <3>1. WaitDomain(d) \cap Holders(d) = {}
      BY Zenon DEF WaitDomain, Holders, HasDomain
    <3>2. CASE s.wait = <<>>
      <4>1. WaitDomain(d)' = WaitDomain(d) /\ Holders(d)' = Holders(d) \ {t}
        BY <1>1, <1>12, <1>14, <3>2, Zenon DEF WaitDomain, Holders, SameAtDomain, HasDomain
      <4>2. SemOK(Released(s), WaitDomain(d), Holders(d) \ {t}, PER_DOMAIN_CONCURRENCY)
        BY <1>1, <1>4, <3>1, <3>2, SemReleased, Zenon
      <4>3. QED
        BY <1>2, <1>6, <1>7, <2>2, <4>1, <4>2, Zenon DEF DomainOK, i
    <3>3. CASE s.wait # <<>>
      <4> DEFINE h == Head(s.wait)
      <4>1. /\ h \in WaitDomain(d)
            /\ SemOK(Released(s), WaitDomain(d) \ {h}, (Holders(d) \ {t}) \cup {h},
                     PER_DOMAIN_CONCURRENCY)
        BY <1>1, <1>4, <3>1, <3>3, SemReleased, Zenon
      <4>2. \A u \in Fetches \ {t} : IF u = h THEN gateTask'[u].st = "token" ELSE SameAtDomain(u)
        BY <1>14, <3>3, Zenon
      <4> HIDE DEF h
      <4>3. h \in Fetches /\ h # t /\ gateTask'[h].st = "token" /\ HostOf[h] = d
        BY <1>1, <3>1, <4>1, <4>2 DEF WaitDomain
      <4>4. WaitDomain(d)' = WaitDomain(d) \ {h}
        BY <1>1, <1>12, <3>1, <4>2, <4>3, Zenon DEF WaitDomain, SameAtDomain
      <4>5. Holders(d)' = (Holders(d) \ {t}) \cup {h}
        BY <1>1, <1>12, <4>2, <4>3, Zenon DEF Holders, SameAtDomain, HasDomain
      <4>6. QED
        BY <1>2, <1>6, <1>7, <2>2, <4>1, <4>4, <4>5 DEF DomainOK, i
    <3>4. QED
      BY <3>2, <3>3
  <2>3. QED
    BY <2>1, <2>2, Zenon
<1>18. QED
  BY <1>13, <1>15, <1>16, <1>17, Zenon DEF GateInv, GlobalOK

\* A fetch cancelled wherever it is gives back what it holds.
LEMMA CancelKeepsGate ==
  ASSUME GateInv, NEW t \in Fetches, Cancel(t)
  PROVE  GateInv'
<1>t. gateTask \in [Fetches -> Task]
  BY Zenon DEF GateInv, GateType, Task
<1>1. CASE gateTask[t].st = "breaker"
  <2>1. gateTask' = Gone(gateTask, t) /\ UNCHANGED <<gateGlobal, gateDict, gateSems>>
    BY <1>1, Zenon DEF Cancel
  <2>2. gateTask[t].sem = 0
    BY <1>1, Zenon DEF GateInv, DictOK, AtDomain
  <2>3. QED
    BY <1>t, <1>1, <2>1, <2>2, GoneTasks, QuietKeepsGate
<1>2. CASE gateTask[t].st = "wait_slot"
  <2>1. /\ gateGlobal' = Without(gateGlobal, t) /\ gateTask' = Gone(gateTask, t)
        /\ UNCHANGED <<gateDict, gateSems>>
    BY <1>2, Zenon DEF Cancel
  <2>2. /\ gateTask' \in [Fetches -> Task]
        /\ gateTask'[t].st = "idle" /\ gateTask'[t].sem = 0
        /\ \A u \in Fetches \ {t} : gateTask'[u] = gateTask[u]
    BY <1>t, <2>1, GoneTasks, Zenon
  <2>3. t \in WaitSlot /\ WaitSlot' = WaitSlot \ {t} /\ InSlot' = InSlot
    BY <1>2, <2>2, Zenon DEF WaitSlot, InSlot, HasSlot
  <2>4. GlobalOK'
    BY <2>1, <2>3, SemWithout, Zenon DEF GateInv, GlobalOK
  <2>5. \A u \in Fetches : SameAtDomain(u)
    BY <1>2, <2>2, Zenon DEF SameAtDomain, HasDomain
  <2>6. GateType' /\ DictOK'
    BY <1>2, <2>1, <2>2 DEF GateInv, GateType, DictOK, Task, AtDomain
  <2>7. QED
    BY <2>1, <2>4, <2>5, <2>6, DomainsKept DEF GateInv, GlobalOK
<1>3. CASE gateTask[t].st = "slot"
  <2>1. ReleaseGlobal(t) /\ UNCHANGED <<gateDict, gateSems>> /\ HasSlot(t)
    BY <1>3 DEF Cancel, HasSlot
  <2>2. /\ GlobalOK' /\ gateTask' \in [Fetches -> Task]
        /\ gateTask'[t].st = "idle" /\ gateTask'[t].sem = 0
        /\ \A u \in Fetches \ {t} :
             /\ gateTask'[u].sem = gateTask[u].sem /\ SameAtDomain(u)
             /\ gateTask'[u].st \in AtDomain <=> gateTask[u].st \in AtDomain
    BY <2>1, GlobalGivenBack, Zenon
  <2>3. \A u \in Fetches : SameAtDomain(u)
    BY <1>3, <2>2, Zenon DEF SameAtDomain, HasDomain
  <2>4. GateType' /\ DictOK'
    BY <2>1, <2>2, Zenon DEF GateInv, GateType, DictOK, Task, AtDomain
  <2>5. QED
    BY <2>1, <2>2, <2>3, <2>4, DomainsKept, Zenon DEF GateInv, GlobalOK
<1>4. CASE gateTask[t].st = "wait_domain"
  <2> DEFINE d == HostOf[t]
             i == gateDict[d]
  <2>1. /\ gateSems' = [gateSems EXCEPT ![gateTask[t].sem] = Without(@, t)]
        /\ ReleaseGlobal(t) /\ UNCHANGED gateDict /\ HasSlot(t)
    BY <1>4, Zenon DEF Cancel, HasSlot
  <2>2. d \in Hosts /\ t \in WaitDomain(d) /\ gateTask[t].sem = i
    BY <1>4, GateAssumption, Zenon DEF WaitDomain, GateInv, DictOK, AtDomain
  <2>3. i # 0 /\ i \in SemIds
    BY <2>2, Zenon DEF GateInv, GateType, DomainOK
  <2>4. SemOK(gateSems[i], WaitDomain(d), Holders(d), PER_DOMAIN_CONCURRENCY)
    BY <2>2, <2>3, Zenon DEF GateInv, DomainOK
  <2>5. /\ DOMAIN gateSems' = SemIds /\ gateSems'[i] = Without(gateSems[i], t)
        /\ \A k \in SemIds \ {i} : gateSems'[k] = gateSems[k]
    BY <2>1, <2>2, <2>3, Zenon DEF GateInv, GateType
  <2> HIDE DEF d, i
  <2>6. /\ GlobalOK' /\ gateTask' \in [Fetches -> Task]
        /\ gateTask'[t].st = "idle" /\ gateTask'[t].sem = 0
        /\ \A u \in Fetches \ {t} :
             /\ gateTask'[u].sem = gateTask[u].sem /\ SameAtDomain(u)
             /\ gateTask'[u].st \in AtDomain <=> gateTask[u].st \in AtDomain
    BY <2>1, GlobalGivenBack, Zenon
  <2>7. GateType' /\ DictOK'
    BY <2>1, <2>5, <2>6 DEF GateInv, GateType, DictOK, Task, AtDomain
  <2>8. ASSUME NEW e \in Hosts PROVE DomainOK(e)'
    <3>1. CASE e # d
      <4>1. gateDict[e] # i
        BY <2>2, <2>3, <3>1, Zenon DEF GateInv, DictOK, i
      <4>2. gateDict[e] # 0 => gateSems'[gateDict[e]] = gateSems[gateDict[e]]
        BY <2>5, <4>1, Zenon DEF GateInv, GateType
      <4>3. \A u \in Fetches : HostOf[u] = e => u # t
        BY <3>1, Zenon DEF d
      <4>4. WaitDomain(e)' = WaitDomain(e) /\ Holders(e)' = Holders(e)
        BY <2>6, <4>3 DEF WaitDomain, Holders, SameAtDomain
      <4>5. QED
        BY <2>1, <4>2, <4>4, Zenon DEF GateInv, DomainOK
    <3>2. CASE e = d
      <4>1. WaitDomain(d)' = WaitDomain(d) \ {t} /\ Holders(d)' = Holders(d)
        BY <1>4, <2>2, <2>6, Zenon DEF WaitDomain, Holders, SameAtDomain, HasDomain
      <4>2. SemOK(Without(gateSems[i], t), WaitDomain(d) \ {t}, Holders(d), PER_DOMAIN_CONCURRENCY)
        BY <2>2, <2>4, SemWithout
      <4>3. QED
        BY <2>1, <2>3, <2>5, <3>2, <4>1, <4>2, Zenon DEF DomainOK, i
    <3>3. QED
      BY <3>1, <3>2
  <2>9. QED
    BY <2>6, <2>7, <2>8 DEF GateInv, GlobalOK
<1>5. CASE gateTask[t].st = "token"
  BY <1>5, ReleaseBothKeepsGate DEF Cancel, HasDomain
<1>6. QED
  BY <1>1, <1>2, <1>3, <1>4, <1>5, Zenon DEF Cancel

\* A semaphore that is dropped is one nobody waits for and nobody holds.
LEMMA ReleaseDomainKeepsGate ==
  ASSUME GateInv, NEW d \in Hosts, release_domain(d)
  PROVE  GateInv'
<1>1. /\ gateDict[d] # 0 /\ gateSems[gateDict[d]].free = PER_DOMAIN_CONCURRENCY
      /\ gateDict' = [gateDict EXCEPT ![d] = 0]
      /\ UNCHANGED <<gateGlobal, gateSems, gateTask>>
  BY Zenon DEF release_domain
<1>2. WaitDomain(d) = {} /\ Holders(d) = {}
  <2> DEFINE s == gateSems[gateDict[d]]
  <2>1. SemOK(s, WaitDomain(d), Holders(d), PER_DOMAIN_CONCURRENCY) /\ s.free = PER_DOMAIN_CONCURRENCY
    BY <1>1, Zenon DEF GateInv, DomainOK
  <2> HIDE DEF s
  <2>2. s.wait = <<>>
    BY <2>1, GateAssumption, Zenon DEF SemOK
  <2>3. Cardinality(Holders(d)) = 0
    BY <2>1, FS_CardinalityType, GateAssumption DEF SemOK
  <2>4. QED
    BY <2>1, <2>2, <2>3, FS_EmptySet DEF SemOK, Queue
<1>3. \A e \in Hosts : gateDict'[e] = IF e = d THEN 0 ELSE gateDict[e]
  BY <1>1, Zenon DEF GateInv, GateType
<1>4. \A u \in Fetches : gateTask[u].st \in AtDomain => HostOf[u] # d
  BY <1>2 DEF WaitDomain, Holders, HasDomain, AtDomain
<1>5. GateType' /\ DictOK'
  BY <1>1, <1>3, <1>4, GateAssumption, Zenon DEF GateInv, GateType, DictOK
<1>6. GlobalOK'
  BY <1>1, GlobalKept, Zenon DEF SameAtGlobal, HasSlot
<1>7. ASSUME NEW e \in Hosts PROVE DomainOK(e)'
  <2>1. WaitDomain(e)' = WaitDomain(e) /\ Holders(e)' = Holders(e)
    BY <1>1, Zenon DEF WaitDomain, Holders, HasDomain
  <2>2. QED
    BY <1>1, <1>2, <1>3, <2>1, Zenon DEF GateInv, DomainOK
<1>8. QED
  BY <1>5, <1>6, <1>7, Zenon DEF GateInv, GlobalOK

\* Every step keeps the invariant.
LEMMA GateInvStep == GateInv /\ [GateNext]_gateVars => GateInv'
<1> SUFFICES ASSUME GateInv, [GateNext]_gateVars PROVE GateInv'
  BY Zenon
<1>1. ASSUME NEW t \in Fetches, Leave(t) PROVE GateInv'
  BY <1>1, ReleaseBothKeepsGate, Zenon DEF Leave, HasDomain
<1>2. ASSUME UNCHANGED <<gateGlobal, gateDict, gateSems, gateTask>> PROVE GateInv'
  BY <1>2, QuietKeepsGate DEF GateInv, GateType, Task
<1>3. QED
  BY <1>1, <1>2, EnterKeepsGate, TakeGlobalKeepsGate, TakeDomainKeepsGate, CancelKeepsGate,
     ReleaseDomainKeepsGate DEF GateNext, FetchStep, BreakerTurns, gateVars

\* No slot of the process or of a domain is lost or made up, for any number of
\* fetches, domains and slots, wherever fetches are cancelled and whenever a domain
\* is dropped.
THEOREM SlotsAreConserved == GateSpec => []SlotsConserved
<1>1. GateInv => SlotsConserved
  <2> SUFFICES ASSUME GateInv PROVE SlotsConserved
    OBVIOUS
  <2>1. ASSUME NEW s, NEW W, NEW H, NEW limit, SemOK(s, W, H, limit), NEW t \in W
        PROVE  WaitsAt(s, t)
    <3>1. \E i \in DOMAIN s.wait : s.wait[i] = t
      BY <2>1, Zenon DEF SemOK, Queue
    <3>2. s.wait # <<>>
      BY <3>1
    <3>3. QED
      BY <2>1, <3>1, <3>2, Zenon DEF SemOK, WaitsAt
  <2>2. ASSUME NEW t \in Fetches, gateTask[t].st = "wait_slot" PROVE WaitsAt(gateGlobal, t)
    BY <2>1, <2>2, Zenon DEF GateInv, GlobalOK, WaitSlot
  <2>3. ASSUME NEW t \in Fetches, gateTask[t].st = "wait_domain"
        PROVE  gateDict[HostOf[t]] # 0 /\ WaitsAt(gateSems[gateDict[HostOf[t]]], t)
    <3>1. HostOf[t] \in Hosts /\ t \in WaitDomain(HostOf[t])
      BY <2>3, GateAssumption, Zenon DEF WaitDomain
    <3>2. DomainOK(HostOf[t])
      BY <3>1, Zenon DEF GateInv
    <3>3. QED
      BY <2>1, <3>1, <3>2, Zenon DEF DomainOK
  <2>4. QED
    BY <2>2, <2>3, Zenon DEF GateInv, GlobalOK, DomainOK, SemOK, SlotsConserved, InSlot
<1>2. QED
  BY <1>1, GateInvInit, GateInvStep, PTL DEF GateSpec

-----------------------------------------------------------------------------
(* The request budget                                                      *)

\* The processes' buckets and the shared one.
Buckets == Processes \cup {Shared}
Bucket == [t : Nat, ts : Nat]

\* Tokens spent and tokens left were all there at the start or were added by the
\* rate until the bucket's timestamp, which is never ahead of the clock.
Budget(b, taken) == taken * COST + b.t <= CAPACITY + RATE * b.ts /\ b.ts <= bktNow

\* The inductive invariant of the buckets.
BucketInv ==
  /\ bktNow \in Nat /\ bktSlow \in BOOLEAN
  /\ bktStamp \in [Processes -> Int] /\ \A p \in Processes : bktStamp[p] <= bktNow
  /\ bktTaken \in [Buckets -> Nat]
  /\ bktShared \in Bucket /\ Budget(bktShared, bktTaken[Shared])
  /\ bktLocal \in [Processes -> Bucket]
  /\ \A p \in Processes : Budget(bktLocal[p], bktTaken[p])

\* More time or more rate adds no fewer tokens.
LEMMA Products ==
  ASSUME NEW m \in Nat, NEW n \in Nat, NEW k \in Nat
  PROVE  /\ m * n \in Nat
         /\ (m + n) * k = m * k + n * k /\ k * (m + n) = k * m + k * n
         /\ m <= n => m * k <= n * k /\ k * m <= k * n
<1>1. m * n \in Nat
  OBVIOUS
<1>2. (m + n) * k = m * k + n * k /\ k * (m + n) = k * m + k * n
  OBVIOUS
<1>3. ASSUME m <= n PROVE m * k <= n * k /\ k * m <= k * n
  <2>1. PICK d \in Nat : n = m + d
    BY <1>3
  <2>2. d * k \in Nat /\ m * k \in Int /\ k * m \in Int /\ k * d = d * k
    OBVIOUS
  <2>3. n * k = m * k + d * k /\ k * n = k * m + k * d
    BY <2>1
  <2>4. QED
    BY <2>2, <2>3
<1>4. QED
  BY <1>1, <1>2, <1>3

\* _refill, of Lua and of Python, keeps within the budget, for a stamp that may be late.
LEMMA RefillKeeps ==
  ASSUME BucketInv, NEW b \in Bucket, NEW n \in Nat, Budget(b, n),
         NEW now \in Nat, now <= bktNow
  PROVE  Refill(b, now) \in Bucket /\ Budget(Refill(b, now), n)
<1>1. CASE ~(now > b.ts)
  BY <1>1, Zenon DEF Refill
<1>2. CASE now > b.ts
  <2> DEFINE g == now - b.ts
  <2>1. g \in Nat /\ now = b.ts + g /\ b.ts \in Nat /\ b.t \in Nat
    BY <1>2 DEF Bucket
  <2>2. Rate \in Nat /\ Rate <= RATE
    BY BucketAssumption DEF Rate, BucketInv
  <2> HIDE DEF g
  <2>3. g * Rate \in Nat /\ RATE * g \in Nat /\ g * Rate <= RATE * g
    <3>1. g * Rate \in Nat /\ Rate * g <= RATE * g
      BY <2>1, <2>2, Products, BucketAssumption, Zenon
    <3>2. g * Rate = Rate * g
      BY <2>1, <2>2
    <3>3. QED
      BY <3>1, <3>2, <2>1, BucketAssumption
  <2>4. RATE * now = RATE * b.ts + RATE * g
    BY <2>1, Products, BucketAssumption
  <2>5. Refill(b, now) = [t |-> Capped(b.t + g * Rate), ts |-> now]
    BY <1>2, Zenon DEF Refill, g
  <2>6. Capped(b.t + g * Rate) \in Nat /\ Capped(b.t + g * Rate) <= b.t + g * Rate
    BY <2>1, <2>3, BucketAssumption DEF Capped
  <2>7. n * COST \in Nat /\ RATE * b.ts \in Nat
    BY <2>1, Products, BucketAssumption, Zenon
  <2>8. n * COST + b.t <= CAPACITY + RATE * b.ts
    BY Zenon DEF Budget
  <2> DEFINE c == Capped(b.t + g * Rate)
             x == g * Rate
             y == RATE * g
             z == RATE * b.ts
             w == n * COST
             v == RATE * now
  <2>9. w + c <= CAPACITY + v
    <3>1. /\ c \in Nat /\ x \in Nat /\ y \in Nat /\ z \in Nat /\ w \in Nat
          /\ c <= b.t + x /\ x <= y /\ w + b.t <= CAPACITY + z /\ v = z + y
      BY <2>3, <2>4, <2>6, <2>7, <2>8, Zenon
    <3> HIDE DEF c, x, y, z, w, v
    <3>2. QED
      BY <3>1, <2>1, BucketAssumption
  <2>10. QED
    BY <2>5, <2>6, <2>9 DEF Bucket, Budget
<1>3. QED
  BY <1>1, <1>2, Zenon

\* A request that is let through pays for itself.
LEMMA SpendKeeps ==
  ASSUME NEW b \in Bucket, NEW n \in Nat, Budget(b, n)
  PROVE  /\ Spend(b) \in Bucket /\ Spend(b).ts = b.ts
         /\ Budget(Spend(b), IF Enough(b) THEN n + 1 ELSE n) /\ Budget(Spend(b), n)
<1>1. CASE Enough(b)
  <2>1. Spend(b) = [t |-> b.t - COST, ts |-> b.ts] /\ b.t - COST \in Nat
    BY <1>1, BucketAssumption DEF Spend, Enough, Bucket
  <2>2. (n + 1) * COST = n * COST + COST /\ n * COST \in Nat /\ RATE * b.ts \in Nat
    BY BucketAssumption, Products DEF Bucket
  <2>3. QED
    BY <1>1, <2>1, <2>2, BucketAssumption DEF Budget, Bucket
<1>2. CASE ~Enough(b)
  BY <1>2, Zenon DEF Spend
<1>3. QED
  BY <1>1, <1>2, Zenon

\* Full buckets at time zero are within the budget.
LEMMA BucketInvInit == BucketInit => BucketInv
<1> SUFFICES ASSUME BucketInit PROVE BucketInv
  OBVIOUS
<1> DEFINE full == [t |-> CAPACITY, ts |-> 0]
<1>1. full \in Bucket /\ Budget(full, 0)
  <2>1. 0 * COST = 0 /\ RATE * 0 = 0
    BY BucketAssumption
  <2>2. QED
    BY <2>1, BucketAssumption DEF BucketInit, Bucket, Budget
<1> HIDE DEF full
<1>2. /\ bktShared = full /\ bktLocal = [p \in Processes |-> full]
      /\ bktTaken = [b \in Buckets |-> 0] /\ bktStamp = [p \in Processes |-> NotAsked]
      /\ bktNow = 0 /\ bktSlow = FALSE
  BY DEF BucketInit, full, Buckets
<1>3. bktTaken \in [Buckets -> Nat] /\ \A b \in Buckets : bktTaken[b] = 0
  BY <1>2, Zenon
<1>4. bktStamp \in [Processes -> Int] /\ \A p \in Processes : bktStamp[p] <= bktNow
  BY <1>2 DEF NotAsked
<1>5. QED
  BY <1>1, <1>2, <1>3, <1>4, Zenon DEF BucketInv, Buckets

\* Each step keeps every bucket within its budget.
LEMMA BucketInvStep == BucketInv /\ [BucketNext]_bktVars => BucketInv'
<1> SUFFICES ASSUME BucketInv, [BucketNext]_bktVars PROVE BucketInv'
  OBVIOUS
<1> USE DEF BucketInv
<1>1. CASE BucketTick
  BY <1>1, BucketAssumption DEF BucketTick, Budget, Bucket
<1>2. CASE Penalize
  BY <1>2, Zenon DEF Penalize, Budget
<1>3. ASSUME NEW p \in Processes, Ask(p) PROVE BucketInv'
  BY <1>3 DEF Ask, Budget
<1>4. ASSUME NEW p \in Processes, RunScript(p) PROVE BucketInv'
  <2> DEFINE b == Refill(bktShared, bktStamp[p])
  <2>1. b \in Bucket /\ Budget(b, bktTaken[Shared])
    <3>1. bktStamp[p] \in Nat /\ bktTaken[Shared] \in Nat
      BY <1>4 DEF RunScript, Buckets
    <3>2. QED
      BY <3>1, RefillKeeps, Zenon
  <2>2. /\ bktShared' = Spend(b) /\ bktTaken' = Count(b, Shared)
        /\ bktStamp' = [bktStamp EXCEPT ![p] = NotAsked]
        /\ UNCHANGED <<bktNow, bktSlow, bktLocal>>
    BY <1>4, Zenon DEF RunScript
  <2> HIDE DEF b
  <2>3. bktTaken[Shared] \in Nat /\ Shared \in Buckets /\ Shared \notin Processes
    BY BucketAssumption, Zenon DEF Buckets, Shared
  <2>4. /\ bktTaken' \in [Buckets -> Nat]
        /\ bktTaken'[Shared] = IF Enough(b) THEN bktTaken[Shared] + 1 ELSE bktTaken[Shared]
        /\ \A q \in Processes : bktTaken'[q] = bktTaken[q]
    BY <2>2, <2>3 DEF Count, Buckets
  <2>5. bktShared' \in Bucket /\ Budget(bktShared', bktTaken'[Shared])
    BY <2>1, <2>2, <2>3, <2>4, SpendKeeps, Zenon
  <2>6. bktStamp' \in [Processes -> Int] /\ \A q \in Processes : bktStamp'[q] <= bktNow
    BY <2>2 DEF NotAsked
  <2>7. QED
    BY <2>2, <2>4, <2>5, <2>6, Zenon DEF Budget
<1>5. ASSUME NEW p \in Processes, LocalTry(p) PROVE BucketInv'
  <2> DEFINE b == Refill(bktLocal[p], bktNow)
  <2>1. bktTaken[p] \in Nat /\ p \in Buckets /\ p # Shared /\ Shared \in Buckets
    BY BucketAssumption, Zenon DEF Buckets, Shared
  <2>2. b \in Bucket /\ Budget(b, bktTaken[p])
    BY <2>1, RefillKeeps
  <2>3. /\ bktLocal' = [bktLocal EXCEPT ![p] = Spend(b)] /\ bktTaken' = Count(b, p)
        /\ bktStamp' = [bktStamp EXCEPT ![p] = IF Enough(b) THEN NotAsked ELSE Locally]
        /\ UNCHANGED <<bktNow, bktShared, bktSlow>>
    BY <1>5, Zenon DEF LocalTry
  <2> HIDE DEF b
  <2>4. /\ bktTaken' \in [Buckets -> Nat]
        /\ bktTaken'[p] = IF Enough(b) THEN bktTaken[p] + 1 ELSE bktTaken[p]
        /\ \A q \in Buckets : q # p => bktTaken'[q] = bktTaken[q]
    BY <2>1, <2>3 DEF Count
  <2>5. Spend(b) \in Bucket /\ Budget(Spend(b), bktTaken'[p])
    BY <2>1, <2>2, <2>4, SpendKeeps, Zenon
  <2>6. bktLocal' \in [Processes -> Bucket]
    BY <2>3, <2>5, Zenon
  <2>7. \A q \in Processes : Budget(bktLocal'[q], bktTaken'[q])
    BY <2>3, <2>4, <2>5, Zenon DEF Buckets
  <2>8. bktStamp' \in [Processes -> Int] /\ \A q \in Processes : bktStamp'[q] <= bktNow
    BY <2>3 DEF NotAsked, Locally
  <2>9. QED
    BY <2>1, <2>3, <2>4, <2>6, <2>7, <2>8, Zenon DEF Budget
<1>6. ASSUME NEW p \in Processes, NEW ran \in BOOLEAN, RedisFails(p, ran) PROVE BucketInv'
  <2>1. bktStamp[p] \in Nat /\ bktTaken[Shared] \in Nat
    BY <1>6 DEF RedisFails, Buckets
  <2>2. bktShared' \in Bucket /\ Budget(bktShared', bktTaken[Shared])
    BY <1>6, <2>1, RefillKeeps, SpendKeeps, Zenon DEF RedisFails
  <2>3. bktStamp' \in [Processes -> Int] /\ \A q \in Processes : bktStamp'[q] <= bktNow
    BY <1>6 DEF RedisFails, Locally
  <2>4. QED
    BY <1>6, <2>2, <2>3, Zenon DEF RedisFails, Budget
<1>7. CASE UNCHANGED bktVars
  BY <1>7, Zenon DEF bktVars, Budget
<1>8. QED
  BY <1>1, <1>2, <1>3, <1>4, <1>5, <1>6, <1>7, Zenon DEF BucketNext

\* What was taken is within what the clock allows, since no timestamp is ahead of it.
LEMMA BucketInvRate == BucketInv => RateKept
<1> SUFFICES ASSUME BucketInv, NEW k \in DOMAIN bktTaken
             PROVE  bktTaken[k] * COST <= CAPACITY + RATE * bktNow
  BY Zenon DEF RateKept
<1>1. PICK b \in Bucket : Budget(b, bktTaken[k])
  BY Zenon DEF BucketInv, Buckets
<1>2. b.t \in Nat /\ b.ts \in Nat /\ bktNow \in Nat /\ bktTaken[k] \in Nat
  BY Zenon DEF Bucket, BucketInv
<1>3. RATE * b.ts <= RATE * bktNow
  BY <1>1, <1>2, Products, BucketAssumption, Zenon DEF Budget
<1>4. bktTaken[k] * COST \in Nat /\ RATE * b.ts \in Nat /\ RATE * bktNow \in Nat
  BY <1>2, Products, BucketAssumption
<1>5. QED
  BY <1>1, <1>2, <1>3, <1>4, BucketAssumption DEF Budget

\* No bucket lets through more than its size and the rate allow, in whatever order
\* the stamped requests reach Redis and however often it fails (_BUCKET_LUA,
\* TokenBucket._refill).
THEOREM RateIsKept == BucketSpec => []RateKept
<1>1. BucketInit => BucketInv
  BY BucketInvInit
<1>2. BucketInv /\ [BucketNext]_bktVars => BucketInv'
  BY BucketInvStep
<1>3. BucketInv => RateKept
  BY BucketInvRate, Zenon
<1>4. QED
  BY <1>1, <1>2, <1>3, PTL DEF BucketSpec

-----------------------------------------------------------------------------
(* The breaker                                                             *)

\* The callers probing.
InFlight == {c \in Callers : caller[c] = "probe"}

\* Every admitted probe is counted once: in flight, lost or reported.
ProbeInv ==
  /\ admitted \in Nat /\ lost \in Nat /\ admitted <= Probes
  /\ caller \in [Callers -> {"idle", "call", "probe"}]
  /\ IsFiniteSet(InFlight)
  /\ Cardinality(InFlight) + lost <= admitted

\* A caller that ends is one probe less, if it was one.
LEMMA OneLess ==
  ASSUME ProbeInv, NEW c \in Callers, caller' = [caller EXCEPT ![c] = "idle"]
  PROVE  /\ caller' \in [Callers -> {"idle", "call", "probe"}]
         /\ IsFiniteSet(InFlight')
         /\ Cardinality(InFlight') =
              IF caller[c] = "probe" THEN Cardinality(InFlight) - 1 ELSE Cardinality(InFlight)
         /\ Cardinality(InFlight) \in Nat /\ Cardinality(InFlight') \in Nat
<1>1. caller' \in [Callers -> {"idle", "call", "probe"}] /\ InFlight' = InFlight \ {c}
  BY DEF ProbeInv, InFlight
<1>2. (c \in InFlight) = (caller[c] = "probe")
  BY DEF InFlight
<1>3. IsFiniteSet(InFlight)
  BY DEF ProbeInv
<1>4. QED
  BY <1>1, <1>2, <1>3, FS_RemoveElement, FS_CardinalityType

\* After _open and _close no call in flight is a probe of the current period.
LEMMA NoneLeft ==
  ASSUME ProbeInv, NEW c \in Callers, caller' = Forget([caller EXCEPT ![c] = "idle"])
  PROVE  /\ caller' \in [Callers -> {"idle", "call", "probe"}]
         /\ IsFiniteSet(InFlight') /\ Cardinality(InFlight') = 0
<1>1. caller' \in [Callers -> {"idle", "call", "probe"}] /\ InFlight' = {}
  BY Zenon DEF ProbeInv, InFlight, Forget
<1>2. QED
  BY <1>1, FS_EmptySet, Zenon

\* At the start nothing is in flight.
LEMMA ProbeInvInit == Init => ProbeInv
<1> SUFFICES ASSUME Init PROVE ProbeInv
  OBVIOUS
<1>1. caller = [c \in Callers |-> "idle"] /\ admitted = 0 /\ lost = 0
  BY DEF Init
<1>2. InFlight = {}
  BY <1>1 DEF InFlight
<1>3. QED
  BY <1>1, <1>2, FS_EmptySet, ParametersAssumption DEF ProbeInv

\* check, record, _open, _close and cancellation keep the count.
LEMMA ProbeInvStep == ProbeInv /\ [Next]_vars => ProbeInv'
<1> SUFFICES ASSUME ProbeInv, [Next]_vars PROVE ProbeInv'
  OBVIOUS
<1>1. ASSUME NEW c \in Callers, Open(c) \/ Close(c) PROVE ProbeInv'
  <2>1. /\ caller' = Forget([caller EXCEPT ![c] = "idle"]) /\ lost' = 0
        /\ admitted' \in {0, admitted}
    BY <1>1, Zenon DEF Open, Close
  <2>2. /\ caller' \in [Callers -> {"idle", "call", "probe"}]
        /\ IsFiniteSet(InFlight') /\ Cardinality(InFlight') = 0
    BY <2>1, NoneLeft, Zenon
  <2>3. admitted' \in Nat /\ admitted' <= Probes
    BY <2>1, ParametersAssumption DEF ProbeInv
  <2>4. lost' \in Nat /\ Cardinality(InFlight') + lost' <= admitted'
    BY <2>1, <2>2, <2>3
  <2>5. QED
    BY <2>2, <2>3, <2>4, Zenon DEF ProbeInv
<1>2. ASSUME NEW c \in Callers, caller' = [caller EXCEPT ![c] = "idle"],
             UNCHANGED <<admitted, lost>>
      PROVE  ProbeInv'
  <2>1. /\ caller' \in [Callers -> {"idle", "call", "probe"}]
        /\ IsFiniteSet(InFlight')
        /\ Cardinality(InFlight') =
             IF caller[c] = "probe" THEN Cardinality(InFlight) - 1 ELSE Cardinality(InFlight)
        /\ Cardinality(InFlight) \in Nat /\ Cardinality(InFlight') \in Nat
    BY <1>2, OneLess, Zenon
  <2>2. QED
    BY <1>2, <2>1, ParametersAssumption DEF ProbeInv
<1>3. ASSUME NEW c \in Callers, Check(c) PROVE ProbeInv'
  <2>1. CASE caller' = [caller EXCEPT ![c] = "call"] /\ UNCHANGED <<admitted, lost>>
    <3>1. InFlight' = InFlight
      BY <1>3, <2>1, Zenon DEF Check, InFlight, ProbeInv
    <3>2. QED
      BY <2>1, <3>1, Zenon DEF ProbeInv
  <2>2. CASE /\ caller' = [caller EXCEPT ![c] = "probe"] /\ admitted < Probes
             /\ admitted' = admitted + 1 /\ lost' = lost
    <3>1. InFlight' = InFlight \cup {c} /\ c \notin InFlight
      BY <1>3, <2>2, Zenon DEF Check, InFlight, ProbeInv
    <3>2. IsFiniteSet(InFlight') /\ Cardinality(InFlight') = Cardinality(InFlight) + 1
          /\ Cardinality(InFlight) \in Nat
      BY <3>1, FS_AddElement, FS_CardinalityType, Zenon DEF ProbeInv
    <3>3. caller' \in [Callers -> {"idle", "call", "probe"}]
      BY <2>2, Zenon DEF ProbeInv
    <3>4. QED
      BY <2>2, <3>2, <3>3, ParametersAssumption DEF ProbeInv
  <2>3. QED
    BY <1>3, <2>1, <2>2, Zenon DEF Check, MayProbe
<1>4. ASSUME NEW c \in Callers, NEW ok \in BOOLEAN, RecordProbe(c, ok) PROVE ProbeInv'
  BY <1>1, <1>2, <1>4, Zenon DEF RecordProbe
<1>5. ASSUME NEW c \in Callers, NEW ok \in BOOLEAN, RecordCall(c, ok) PROVE ProbeInv'
  BY <1>1, <1>2, <1>5, Zenon DEF RecordCall
<1>6. ASSUME NEW c \in Callers, Cancelled(c) PROVE ProbeInv'
  <2>1. /\ caller' = [caller EXCEPT ![c] = "idle"] /\ admitted' = admitted
        /\ lost' = lost + (IF caller[c] = "probe" THEN 1 ELSE 0)
    BY <1>6, Zenon DEF Cancelled
  <2>2. /\ caller' \in [Callers -> {"idle", "call", "probe"}]
        /\ IsFiniteSet(InFlight')
        /\ Cardinality(InFlight') =
             IF caller[c] = "probe" THEN Cardinality(InFlight) - 1 ELSE Cardinality(InFlight)
        /\ Cardinality(InFlight) \in Nat /\ Cardinality(InFlight') \in Nat
    BY <2>1, OneLess
  <2>3. QED
    BY <2>1, <2>2, ParametersAssumption DEF ProbeInv
<1>7. CASE UNCHANGED <<admitted, lost, caller>>
  BY <1>7, Zenon DEF ProbeInv, InFlight
<1>8. CASE Tick \/ Heal \/ UNCHANGED vars
  BY <1>7, <1>8, Zenon DEF Tick, Heal, vars
<1>9. QED
  BY <1>3, <1>4, <1>5, <1>6, <1>8 DEF Next, Ends

\* A set of numbers has a least one.
LEMMA LeastOf ==
  ASSUME NEW T \in SUBSET Nat, T # {}
  PROVE  \E n \in T : \A m \in T : n <= m
<1> DEFINE R == OpToRel(<, Nat)
<1>1. IsWellFoundedOn(R, Nat)
  BY NatLessThanWellFounded, Zenon
<1>2. \A x, y \in Nat : x < y => <<x, y>> \in R
  BY Zenon DEF OpToRel
<1> HIDE DEF R
<1>3. PICK n \in T : \A m \in T : ~(<<m, n>> \in R)
  BY <1>1, WFMin, Zenon
<1>4. \A m \in T : ~(m < n)
  BY <1>2, <1>3, Zenon
<1>5. QED
  BY <1>4

\* 2^n, as the number of subsets of n things, is a number above n.
LEMMA Doubling ==
  ASSUME NEW n \in Nat
  PROVE  2^n \in Nat \ {0} /\ n <= 2^n
<1> DEFINE single == [i \in 1..n |-> {i}]
<1>1. IsFiniteSet(1..n) /\ Cardinality(1..n) = n
  BY FS_Interval
<1>2. IsFiniteSet(SUBSET (1..n)) /\ Cardinality(SUBSET (1..n)) = 2^n
  BY <1>1, FS_SUBSET
<1>3. 2^n \in Nat /\ 2^n # 0
  BY <1>2, FS_CardinalityType, FS_EmptySet
<1>4. single \in Injection(1..n, SUBSET (1..n))
  <2>1. single \in [1..n -> SUBSET (1..n)]
    OBVIOUS
  <2>2. \A i, k \in 1..n : single[i] = single[k] => i = k
    OBVIOUS
  <2>3. QED
    BY <2>1, <2>2, Zenon DEF Injection, IsInjective
<1>5. Cardinality(1..n) <= Cardinality(SUBSET (1..n))
  BY <1>2, <1>4, FS_Injection, Zenon
<1>6. QED
  BY <1>1, <1>2, <1>3, <1>5

\* The open window stops growing after MaxOpens openings, and is never longer than
\* MaxOpenSeconds.
LEMMA WindowBounded ==
  /\ MaxOpens \in Nat
  /\ \A n \in Nat : WindowAfter(n) \in 0..MaxOpenSeconds
<1> DEFINE Longest == {n \in 0..MaxOpenSeconds : OpenSeconds * 2^n >= MaxOpenSeconds}
<1>1. MaxOpenSeconds \in Longest
  <2> DEFINE M == MaxOpenSeconds
             P == 2^M
  <2>1. P \in Nat /\ M <= P /\ M \in Nat
    BY Doubling, ParametersAssumption, Zenon
  <2> HIDE DEF M, P
  <2>2. P <= OpenSeconds * P
    BY <2>1, ParametersAssumption
  <2>3. OpenSeconds * P \in Nat
    BY <2>1, ParametersAssumption
  <2>4. OpenSeconds * P >= M /\ M \in 0..M
    BY <2>1, <2>2, <2>3
  <2>5. QED
    BY <2>4, Zenon DEF M, P
<1>2. \E n \in Longest : \A m \in Longest : n <= m
  <2>1. Longest \subseteq 0..MaxOpenSeconds /\ Longest # {}
    BY <1>1, Zenon
  <2> HIDE DEF Longest
  <2>2. QED
    BY <2>1, LeastOf, ParametersAssumption
<1>3. MaxOpens \in 0..MaxOpenSeconds
  BY <1>2, Zenon DEF MaxOpens
<1>4. ASSUME NEW k \in Nat PROVE WindowAfter(k) \in 0..MaxOpenSeconds
  <2> DEFINE P == 2^k
  <2>1. P \in Nat
    BY Doubling
  <2> HIDE DEF P
  <2>2. OpenSeconds * P \in Nat
    BY <2>1, ParametersAssumption
  <2>3. QED
    BY <2>2, ParametersAssumption DEF WindowAfter, P
<1>5. QED
  BY <1>3, <1>4, ParametersAssumption

\* No half-open period holds more results than probes, or more successes than
\* results.
BreakerInv ==
  /\ TypeOK
  /\ ProbeInv
  /\ results.ok <= results.all /\ results.all < Probes

\* The breaker starts closed.
LEMMA BreakerInvInit == Init => BreakerInv
<1> SUFFICES ASSUME Init PROVE BreakerInv
  OBVIOUS
<1>1. /\ outcomes \in Seq(BOOLEAN) /\ Len(outcomes) <= Window
      /\ results \in [ok : 0..Probes, all : 0..Probes]
      /\ admitted \in 0..Probes /\ lost \in 0..Probes
  BY ParametersAssumption DEF Init, NoResults
<1>2. /\ openLeft \in 0..MaxOpenSeconds /\ openFor \in 0..MaxOpenSeconds
      /\ opens \in 0..MaxOpens /\ closedAge \in -1..(Recovery + 1)
  BY ParametersAssumption, WindowBounded DEF Init
<1>3. TypeOK
  BY <1>1, <1>2, Zenon DEF Init, TypeOK
<1>4. QED
  BY <1>3, ProbeInvInit, ParametersAssumption DEF Init, BreakerInv, NoResults

\* Every step keeps the invariant.
LEMMA BreakerInvStep == BreakerInv /\ [Next]_vars => BreakerInv'
<1> SUFFICES ASSUME BreakerInv, [Next]_vars PROVE BreakerInv'
  OBVIOUS
<1> USE ParametersAssumption
<1>1. ProbeInv'
  BY ProbeInvStep, Zenon DEF BreakerInv
<1>2. /\ admitted' \in 0..Probes /\ lost' \in 0..Probes
      /\ caller' \in [Callers -> {"idle", "call", "probe"}]
  <2>1. Cardinality(InFlight') \in Nat
    BY <1>1, FS_CardinalityType, Zenon DEF ProbeInv
  <2>2. QED
    BY <1>1, <2>1 DEF ProbeInv
<1> DEFINE RestOK == /\ stored' \in {"closed", "open", "half_open"}
                     /\ outcomes' \in Seq(BOOLEAN) /\ Len(outcomes') <= Window
                     /\ results' \in [ok : 0..Probes, all : 0..Probes]
                     /\ results'.ok <= results'.all /\ results'.all < Probes
                     /\ openLeft' \in 0..MaxOpenSeconds /\ openFor' \in 0..MaxOpenSeconds
                     /\ opens' \in 0..MaxOpens
                     /\ closedAge' \in -1..(Recovery + 1)
                     /\ healthy' \in BOOLEAN
<1>3. SUFFICES RestOK
  BY <1>1, <1>2 DEF BreakerInv, TypeOK
<1>4. <<>> \in Seq(BOOLEAN) /\ Len(<<>>) <= Window
  OBVIOUS
<1>5. ASSUME NEW c \in Callers, Open(c) PROVE RestOK
  <2>1. Escalation \in 0..MaxOpens /\ Escalation \in Nat
    BY WindowBounded DEF Escalation, BreakerInv, TypeOK
  <2>2. WindowAfter(Escalation) \in 0..MaxOpenSeconds
    BY <2>1, WindowBounded, Zenon
  <2>3. opens' \in 0..MaxOpens
    BY <1>5, <2>1, WindowBounded DEF Open
  <2>4. QED
    BY <1>4, <1>5, <2>2, <2>3 DEF Open, BreakerInv, TypeOK, NoResults
<1>6. ASSUME NEW c \in Callers, Close(c) PROVE RestOK
  BY <1>4, <1>6 DEF Close, BreakerInv, TypeOK, NoResults
<1>7. ASSUME NEW c \in Callers, Check(c) PROVE RestOK
  BY <1>7, Zenon DEF Check, State, BreakerInv, TypeOK
<1>8. ASSUME NEW c \in Callers, NEW ok \in BOOLEAN, RecordProbe(c, ok) PROVE RestOK
  <2> DEFINE r == [ok |-> results.ok + (IF ok THEN 1 ELSE 0), all |-> results.all + 1]
  <2>1. CASE r.all < Probes /\ results' = r
    <3>1. results.ok \in Nat /\ results.all \in Nat /\ results.ok <= results.all
      BY DEF BreakerInv, TypeOK
    <3>2. (IF ok THEN 1 ELSE 0) \in 0..1
      OBVIOUS
    <3>3. results' \in [ok : 0..Probes, all : 0..Probes] /\ results'.ok <= results'.all
      BY <2>1, <3>1, <3>2
    <3>4. /\ stored' = "half_open"
          /\ UNCHANGED <<outcomes, openLeft, openFor, opens, closedAge, healthy>>
      BY <1>8, <2>1 DEF RecordProbe, Open, Close, NoResults
    <3>5. QED
      BY <2>1, <3>3, <3>4, Zenon DEF BreakerInv, TypeOK
  <2>2. QED
    BY <1>5, <1>6, <1>8, <2>1, Zenon DEF RecordProbe
<1>9. ASSUME NEW c \in Callers, NEW ok \in BOOLEAN, RecordCall(c, ok) PROVE RestOK
  <2>1. Recorded(ok) \in Seq(BOOLEAN) /\ Len(Recorded(ok)) <= Window
    <3>1. outcomes \in Seq(BOOLEAN) /\ Len(outcomes) <= Window
      BY Zenon DEF BreakerInv, TypeOK
    <3> DEFINE s == Append(outcomes, ok)
    <3>2. s \in Seq(BOOLEAN) /\ Len(s) = Len(outcomes) + 1
      BY <3>1
    <3>3. Recorded(ok) = IF Len(s) > Window THEN Tail(s) ELSE s
      BY Zenon DEF Recorded
    <3> HIDE DEF s
    <3>4. Len(s) > Window => Tail(s) \in Seq(BOOLEAN) /\ Len(Tail(s)) <= Window
      BY <3>1, <3>2
    <3>5. ~(Len(s) > Window) => Len(s) <= Window
      BY <3>2
    <3>6. QED
      BY <3>2, <3>3, <3>4, <3>5, Zenon
  <2>2. QED
    BY <1>5, <1>9, <2>1, Zenon DEF RecordCall, BreakerInv, TypeOK
<1>10. ASSUME NEW c \in Callers, Cancelled(c) PROVE RestOK
  BY <1>10, Zenon DEF Cancelled, BreakerInv, TypeOK
<1>11. CASE Tick
  BY <1>11 DEF Tick, BreakerInv, TypeOK
<1>12. CASE Heal
  BY <1>12, Zenon DEF Heal, BreakerInv, TypeOK
<1>13. CASE UNCHANGED vars
  BY <1>13 DEF vars, BreakerInv, TypeOK
<1>14. QED
  BY <1>7, <1>8, <1>9, <1>10, <1>11, <1>12, <1>13 DEF Next, Ends

\* What the breaker keeps stays within its bounds: outcomes within the window,
\* results within the probes, open windows within MaxOpenSeconds however often it
\* opens (_open doubles, up to max_open_seconds).
THEOREM BreakerWithinBounds == Spec => []TypeOK
<1>1. BreakerInv => TypeOK
  BY DEF BreakerInv
<1>2. QED
  BY <1>1, BreakerInvInit, BreakerInvStep, PTL DEF Spec

\* In a half-open period a place is used by a probe in flight, by one that was lost,
\* or by a result; late calls may add results, never take a place.
Accounted ==
  /\ stored = "open" => admitted = 0
  /\ stored # "closed" => admitted <= Cardinality(InFlight) + lost + results.all

\* check, record, _open, _close and cancellation keep the account.
LEMMA AccountedStep == BreakerInv /\ Accounted /\ [Next]_vars => Accounted'
<1> SUFFICES ASSUME BreakerInv, Accounted, [Next]_vars PROVE Accounted'
  OBVIOUS
<1>0. /\ ProbeInv /\ admitted \in Nat /\ lost \in Nat /\ results.all \in Nat
      /\ Cardinality(InFlight) \in Nat /\ stored \in {"closed", "open", "half_open"}
  BY FS_CardinalityType, ParametersAssumption DEF BreakerInv, TypeOK, ProbeInv
<1>1. ASSUME NEW c \in Callers, Open(c) \/ Close(c) PROVE Accounted'
  <2>1. CASE Open(c)
    <3>1. admitted' = 0 /\ lost' = 0 /\ results'.all = 0 /\ Cardinality(InFlight') = 0
      BY <1>0, <2>1, NoneLeft, Zenon DEF Open, NoResults
    <3>2. QED
      BY <3>1 DEF Accounted
  <2>2. CASE Close(c)
    BY <2>2 DEF Close, Accounted
  <2>3. QED
    BY <1>1, <2>1, <2>2, Zenon
<1>2. ASSUME NEW c \in Callers, Check(c) PROVE Accounted'
  <2>1. CASE State = "closed"
    BY <1>2, <2>1 DEF Check, Accounted
  <2>2. CASE /\ State = "half_open" /\ admitted' = admitted + 1
             /\ caller' = [caller EXCEPT ![c] = "probe"]
    <3>1. stored' = "half_open" /\ stored # "closed" /\ lost' = lost /\ results' = results
      BY <1>2, <2>2 DEF Check, State
    <3>2. InFlight' = InFlight \cup {c} /\ c \notin InFlight
      BY <1>0, <1>2, <2>2, Zenon DEF Check, InFlight, ProbeInv
    <3>3. Cardinality(InFlight') = Cardinality(InFlight) + 1
      BY <1>0, <3>2, FS_AddElement, Zenon DEF ProbeInv
    <3>4. QED
      BY <1>0, <2>2, <3>1, <3>3 DEF Accounted
  <2>3. QED
    BY <1>2, <2>1, <2>2, Zenon DEF Check
<1>3. ASSUME NEW c \in Callers, NEW ok \in BOOLEAN, RecordProbe(c, ok) PROVE Accounted'
  <2>1. CASE /\ stored' = "half_open" /\ results'.all = results.all + 1
             /\ caller' = [caller EXCEPT ![c] = "idle"] /\ UNCHANGED <<admitted, lost>>
    <3>1. /\ Cardinality(InFlight') \in Nat
          /\ Cardinality(InFlight') =
               IF caller[c] = "probe" THEN Cardinality(InFlight) - 1 ELSE Cardinality(InFlight)
      BY <1>0, <2>1, OneLess, Zenon
    <3>2. stored # "closed"
      BY <1>3, Zenon DEF RecordProbe, State
    <3>3. QED
      BY <1>0, <2>1, <3>1, <3>2 DEF Accounted
  <2>2. CASE /\ stored' = "half_open" /\ caller' = [caller EXCEPT ![c] = "idle"]
             /\ results' = [ok |-> results.ok + (IF ok THEN 1 ELSE 0), all |-> results.all + 1]
             /\ UNCHANGED <<admitted, lost>>
    BY <2>1, <2>2
  <2>3. QED
    BY <1>1, <1>3, <2>2, Zenon DEF RecordProbe
<1>4. ASSUME NEW c \in Callers, NEW ok \in BOOLEAN, RecordCall(c, ok) PROVE Accounted'
  <2>1. CASE /\ caller' = [caller EXCEPT ![c] = "idle"]
             /\ UNCHANGED <<stored, results, admitted, lost>>
    <3>1. Cardinality(InFlight') \in Nat
      BY <1>0, <2>1, OneLess, Zenon
    <3>2. stored # "half_open"
      BY <1>4, Zenon DEF RecordCall, State
    <3>3. QED
      BY <1>0, <2>1, <3>1, <3>2 DEF Accounted
  <2>2. QED
    BY <1>1, <1>4, <2>1, Zenon DEF RecordCall
<1>5. ASSUME NEW c \in Callers, Cancelled(c) PROVE Accounted'
  <2>1. /\ caller' = [caller EXCEPT ![c] = "idle"] /\ UNCHANGED <<stored, results, admitted>>
        /\ lost' = lost + (IF caller[c] = "probe" THEN 1 ELSE 0)
    BY <1>5, Zenon DEF Cancelled
  <2>2. Cardinality(InFlight') =
          IF caller[c] = "probe" THEN Cardinality(InFlight) - 1 ELSE Cardinality(InFlight)
    BY <1>0, <2>1, OneLess, Zenon
  <2>3. QED
    BY <1>0, <2>1, <2>2 DEF Accounted
<1>6. CASE Tick \/ Heal \/ UNCHANGED vars
  BY <1>6, Zenon DEF Tick, Heal, vars, Accounted, InFlight
<1>7. QED
  BY <1>2, <1>3, <1>4, <1>5, <1>6, Zenon DEF Next, Ends

\* The half-open state lets no more than the probes through at any moment, with
\* any number of calls waiting for it, late or cancelled (check, record), and its
\* places are used up only while a probe is in flight or after one was cancelled.
THEOREM ProbesAreBounded == Spec => []ProbesBounded
<1>1. Init => BreakerInv /\ Accounted
  <2>1. Init => Accounted
    BY Zenon DEF Init, Accounted
  <2>2. QED
    BY <2>1, BreakerInvInit, Zenon
<1>2. BreakerInv /\ Accounted /\ [Next]_vars => BreakerInv' /\ Accounted'
  BY BreakerInvStep, AccountedStep, Zenon
<1>3. BreakerInv /\ Accounted => ProbesBounded
  <2> SUFFICES ASSUME BreakerInv, Accounted, State = "half_open"
               PROVE  /\ Cardinality(InFlight) + lost <= admitted /\ admitted <= Probes
                      /\ admitted = Probes => Cardinality(InFlight) + lost > 0
    BY Zenon DEF ProbesBounded, InFlight
  <2>1. /\ admitted \in Nat /\ lost \in Nat /\ results.all \in Nat /\ results.all < Probes
        /\ Cardinality(InFlight) \in Nat
        /\ Cardinality(InFlight) + lost <= admitted /\ admitted <= Probes
    BY FS_CardinalityType, ParametersAssumption DEF BreakerInv, TypeOK, ProbeInv
  <2>2. stored # "closed"
    BY Zenon DEF State
  <2>3. QED
    BY <2>1, <2>2, ParametersAssumption DEF Accounted
<1>4. QED
  BY <1>1, <1>2, <1>3, PTL DEF Spec

=============================================================================
