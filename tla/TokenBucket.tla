----------------------------- MODULE TokenBucket -----------------------------
(***************************************************************************)
(* The request budget: one bucket in Redis shared by every process, and a  *)
(* local one in each process for when Redis cannot be reached.  Time is a  *)
(* number of ticks.  A process stamps a request with its clock and Redis   *)
(* runs the script later: stamps may arrive late and out of order.         *)
(***************************************************************************)
EXTENDS Integers, FiniteSets

CONSTANTS Processes,
          RATE, SLOW_RATE,    \* tokens a tick, and while penalized
          CAPACITY, COST,     \* size of the bucket, tokens of one request
          MAX_TICKS           \* bound on the clock

\* Penalizing slows down; a process is not named like the bucket in Redis.
ASSUME BucketAssumption ==
  /\ RATE \in Nat /\ SLOW_RATE \in Nat /\ SLOW_RATE <= RATE
  /\ CAPACITY \in Nat /\ COST \in Nat
  /\ "redis" \notin Processes

VARIABLES bktNow,             \* the clock
          bktShared,          \* the hash in Redis: t and ts
          bktSlow,            \* the penalty key is set
          bktStamp,           \* the stamp of each process's request, NotAsked, or Locally
          bktLocal,           \* the local buckets
          bktTaken            \* history: requests let through, by bucket

bktVars == <<bktNow, bktShared, bktSlow, bktStamp, bktLocal, bktTaken>>

NotAsked == -1
Locally == -2
Shared == "redis"

Rate == IF bktSlow THEN SLOW_RATE ELSE RATE
Capped(t) == IF t > CAPACITY THEN CAPACITY ELSE t

BucketInit ==
  /\ bktNow = 0 /\ bktSlow = FALSE
  /\ bktShared = [t |-> CAPACITY, ts |-> 0]
  /\ bktStamp = [p \in Processes |-> NotAsked]
  /\ bktLocal = [p \in Processes |-> [t |-> CAPACITY, ts |-> 0]]
  /\ bktTaken = [b \in Processes \cup {Shared} |-> 0]

BucketTick ==
  /\ bktNow < MAX_TICKS
  /\ bktNow' = bktNow + 1
  /\ UNCHANGED <<bktShared, bktSlow, bktStamp, bktLocal, bktTaken>>

\* Mutated: the timestamp follows a late request back.
RefillFollowsStamp(b, now) ==
  [t |-> IF now > b.ts THEN Capped(b.t + (now - b.ts) * Rate) ELSE b.t, ts |-> now]

\* A late stamp refills nothing and leaves the timestamp alone.
Refill(b, now) ==
  IF now > b.ts THEN [t |-> Capped(b.t + (now - b.ts) * Rate), ts |-> now] ELSE b

Enough(b) == b.t >= COST
Spend(b) == IF Enough(b) THEN [b EXCEPT !.t = @ - COST] ELSE b
Count(b, bucket) == IF Enough(b) THEN [bktTaken EXCEPT ![bucket] = @ + 1] ELSE bktTaken

\* acquire reads the clock and sends the script.
Ask(p) ==
  /\ bktStamp[p] = NotAsked
  /\ bktStamp' = [bktStamp EXCEPT ![p] = bktNow]
  /\ UNCHANGED <<bktNow, bktShared, bktSlow, bktLocal, bktTaken>>

\* Redis runs it: the tokens are taken, or the process will ask again.
RunScript(p) ==
  LET b == Refill(bktShared, bktStamp[p])
  IN  /\ bktStamp[p] >= 0
      /\ bktShared' = Spend(b)
      /\ bktTaken' = Count(b, Shared)
      /\ bktStamp' = [bktStamp EXCEPT ![p] = NotAsked]
      /\ UNCHANGED <<bktNow, bktSlow, bktLocal>>

\* Redis fails, before or after it ran the script: the process turns to its
\* own bucket.
RedisFails(p, ran) ==
  /\ bktStamp[p] >= 0
  /\ bktShared' = IF ran THEN Spend(Refill(bktShared, bktStamp[p])) ELSE bktShared
  /\ bktStamp' = [bktStamp EXCEPT ![p] = Locally]
  /\ UNCHANGED <<bktNow, bktSlow, bktLocal, bktTaken>>

\* One pass of TokenBucket.acquire, under its lock.
LocalTry(p) ==
  LET b == Refill(bktLocal[p], bktNow)
  IN  /\ bktStamp[p] = Locally
      /\ bktLocal' = [bktLocal EXCEPT ![p] = Spend(b)]
      /\ bktTaken' = Count(b, p)
      /\ bktStamp' = [bktStamp EXCEPT ![p] = IF Enough(b) THEN NotAsked ELSE Locally]
      /\ UNCHANGED <<bktNow, bktShared, bktSlow>>

\* penalize after a 429, and the end of the penalty.
Penalize ==
  /\ bktSlow' = ~bktSlow
  /\ UNCHANGED <<bktNow, bktShared, bktStamp, bktLocal, bktTaken>>

BucketNext ==
  \/ BucketTick \/ Penalize
  \/ \E p \in Processes : \/ Ask(p) \/ RunScript(p) \/ LocalTry(p)
                         \/ \E ran \in BOOLEAN : RedisFails(p, ran)

BucketSpec == BucketInit /\ [][BucketNext]_bktVars

\* Whatever the order in which requests reach Redis, no bucket lets through more
\* than a full bucket and what the rate has added since (_BUCKET_LUA, _refill).
RateKept ==
  \A b \in DOMAIN bktTaken : bktTaken[b] * COST <= CAPACITY + RATE * bktNow

=============================================================================
