----------------------------- MODULE RateLimiter -----------------------------
(***************************************************************************)
(* The shared token bucket of infra/redisRateLimit.ts, for the policies of *)
(* infra/rateLimit.ts and one identity: pods ask, a script in Redis        *)
(* refills the bucket and spends from it in one step, on Redis's clock.    *)
(*                                                                         *)
(* Tokens are counted in units, so that refilling is exact: a second adds  *)
(* Refill[p] units and a request costs Cost[p] (otp: 1 and 720; default: 5 *)
(* and 1).                                                                 *)
(***************************************************************************)
EXTENDS Integers

CONSTANTS
  Workers,        \* requests that can be in flight at the same time
  Pods, PodOf,    \* PodOf[w]: the process that serves request w
  Policies,       \* names of POLICIES
  Capacity, Cost, Refill,   \* the three numbers of each policy
  NoBucket,       \* Redis has no such key
  MaxTime,        \* bound: seconds that pass
  MaxFaults       \* bound: calls Redis does not answer, restarts, a clock that goes wrong

ASSUME RateAssumption ==
  /\ PodOf \in [Workers -> Pods]
  /\ Capacity \in [Policies -> Nat] /\ Cost \in [Policies -> Nat \ {0}]
  /\ Refill \in [Policies -> Nat \ {0}]
  /\ NoBucket \notin [tokens : Nat, ts : Int]

VARIABLES
  elapsed,        \* seconds that have really passed
  clock,          \* what TIME returns in Redis
  leapt,          \* history: seconds by which the clock has been set forward
  bucket,         \* bucket[p]: the hash of key rl:p:identity
  cached,         \* Redis has the script in its cache
  loaded,         \* loaded[pod]: scriptLoaded, the pod thinks so
  call,           \* call[w]: the policy w asks about, and how the call stands
  granted,        \* history: requests of each policy the script has let through
  restarts,       \* history: restarts of Redis that lost its keys
  faults          \* faults so far

answers == <<call, granted>>
times == <<elapsed, clock, leapt>>
limiterVars == <<times, bucket, cached, loaded, answers, restarts, faults>>

Fault == faults < MaxFaults /\ faults' = faults + 1

NoCall == [policy |-> "none", at |-> "idle"]

LimiterInit ==
  /\ elapsed = 0 /\ clock = 0 /\ leapt = 0
  /\ bucket = [p \in Policies |-> NoBucket]
  /\ cached = FALSE
  /\ loaded = [pod \in Pods |-> FALSE]
  /\ call = [w \in Workers |-> NoCall]
  /\ granted = [p \in Policies |-> 0] /\ restarts = 0 /\ faults = 0

-----------------------------------------------------------------------------
\* The script

Full(p) == Capacity[p] * Cost[p]

\* Seconds after which an idle bucket is dropped: the time a drained one takes to refill,
\* and one more.
Ttl(p) == (Full(p) + Refill[p] - 1) \div Refill[p] + 1

\* What has passed since the bucket was written; a clock that went back gives nothing.
ElapsedMut(b) ==    \* mutant: the distance to the stamp, whichever way
  IF clock - b.ts < 0 THEN b.ts - clock ELSE clock - b.ts

Elapsed(b) == IF clock - b.ts < 0 THEN 0 ELSE clock - b.ts

Refilled(p, b) ==
  LET tokens == b.tokens + Elapsed(b) * Refill[p]
  IN IF tokens < Full(p) THEN tokens ELSE Full(p)

Level(p) == IF bucket[p] = NoBucket THEN Full(p) ELSE Refilled(p, bucket[p])

Affordable(p) == Level(p) >= Cost[p]

Spend(p) ==
  bucket' = [bucket EXCEPT
               ![p] = [tokens |-> IF Affordable(p) THEN Level(p) - Cost[p] ELSE Level(p),
                       ts |-> clock]]

-----------------------------------------------------------------------------
\* check

Answer(w, at) == call' = [call EXCEPT ![w].at = at]

Ask(w, p) ==
  /\ call[w].at = "idle"
  /\ call' = [call EXCEPT ![w] = [policy |-> p, at |-> "asked"]]
  /\ UNCHANGED <<times, bucket, cached, loaded, granted, restarts, faults>>

\* EVALSHA of a script that Redis has lost: nothing has run, and the source is sent next.
NoScript(w) ==
  /\ call[w].at = "asked"
  /\ loaded[PodOf[w]] /\ ~cached
  /\ Answer(w, "resend")
  /\ loaded' = [loaded EXCEPT ![PodOf[w]] = FALSE]
  /\ UNCHANGED <<times, bucket, cached, granted, restarts, faults>>

\* EVALSHA, or EVAL with the source.  The reply is lost if the connection is: then the
\* request is let through like any other that Redis did not answer.
Decide(w) ==
  LET p == call[w].policy
      sent == call[w].at = "resend" \/ ~loaded[PodOf[w]]
  IN /\ call[w].at \in {"asked", "resend"}
     /\ sent \/ cached
     /\ Spend(p)
     /\ cached' = TRUE
     /\ \/ /\ loaded' = [loaded EXCEPT ![PodOf[w]] = TRUE]
           /\ Answer(w, IF Affordable(p) THEN "granted" ELSE "refused")
           /\ granted' = [granted EXCEPT ![p] = IF Affordable(p) THEN @ + 1 ELSE @]
           /\ faults' = faults
        \/ /\ Answer(w, "unmetered")
           /\ Fault
           /\ UNCHANGED <<loaded, granted>>
     /\ UNCHANGED <<times, restarts>>

\* failOpen: Redis is not reached; the limit is degraded and nobody refused.
Outage(w) ==
  /\ call[w].at \in {"asked", "resend"}
  /\ Fault
  /\ Answer(w, "unmetered")
  /\ UNCHANGED <<times, bucket, cached, loaded, granted, restarts>>

-----------------------------------------------------------------------------
\* Redis and time

\* Redis restarts or fails over: the script is gone, and the keys are or are not.
Restart ==
  /\ Fault
  /\ cached' = FALSE
  /\ \/ UNCHANGED <<bucket, restarts>>
     \/ /\ bucket' = [p \in Policies |-> NoBucket]
        /\ restarts' = restarts + 1
  /\ UNCHANGED <<times, loaded, answers>>

\* PEXPIRE
Expire(p) ==
  /\ bucket[p] # NoBucket
  /\ clock >= bucket[p].ts + Ttl(p)
  /\ bucket' = [bucket EXCEPT ![p] = NoBucket]
  /\ UNCHANGED <<times, cached, loaded, answers, restarts, faults>>

Tick ==
  /\ elapsed < MaxTime
  /\ elapsed' = elapsed + 1 /\ clock' = clock + 1 /\ leapt' = leapt
  /\ UNCHANGED <<bucket, cached, loaded, answers, restarts, faults>>

SetClock(now) ==
  /\ clock' = now
  /\ leapt' = leapt + IF now > clock THEN now - clock ELSE 0
  /\ UNCHANGED <<elapsed, bucket, cached, loaded, answers, restarts>>

\* The clock of Redis goes wrong, or a replica takes over whose clock is behind or ahead.
Skew == Fault /\ \E now \in {clock - 1, clock + 1} : SetClock(now)

\* A wrong clock is put right.
Synchronise == clock # elapsed /\ SetClock(elapsed) /\ faults' = faults

LimiterStep ==
  \/ \E w \in Workers : NoScript(w) \/ Decide(w) \/ Outage(w)
  \/ Restart \/ Tick \/ Skew \/ Synchronise
  \/ \E p \in Policies : Expire(p)

LimiterNext ==
  \/ LimiterStep
  \/ \E w \in Workers :
       \/ \E p \in Policies : Ask(w, p)
       \/ /\ call[w].at \in {"granted", "refused", "unmetered"}
          /\ call' = [call EXCEPT ![w] = NoCall]
          /\ UNCHANGED <<times, bucket, cached, loaded, granted, restarts, faults>>

LimiterSpec == LimiterInit /\ [][LimiterNext]_limiterVars

-----------------------------------------------------------------------------
\* The limiter of one process (rateLimit.ts), which development and the tests run on: the
\* same arithmetic over a map of buckets, on the clock of the process.

InMemoryCheck(p, stored, time) ==
  LET since == IF stored = NoBucket \/ time < stored.ts THEN 0 ELSE time - stored.ts
      held == IF stored = NoBucket THEN Full(p) ELSE stored.tokens
      tokens == IF held + since * Refill[p] < Full(p) THEN held + since * Refill[p] ELSE Full(p)
      allowed == tokens >= Cost[p]
      missing == Cost[p] - tokens
  IN [allowed |-> allowed,
      bucket |-> [tokens |-> IF allowed THEN tokens - Cost[p] ELSE tokens, ts |-> time],
      retryAfter |-> IF allowed THEN 0 ELSE (missing + Refill[p] - 1) \div Refill[p]]

\* sweep drops a bucket that has had more than the time to fill up.
Swept(p, stored, time) == (time - stored.ts) * Refill[p] > Full(p) - stored.tokens

\* Dropping a bucket changes no later decision.
SweepIsHarmless(p, stored, time, later) ==
  Swept(p, stored, time) /\ later >= time =>
    InMemoryCheck(p, stored, later) = InMemoryCheck(p, NoBucket, later)

\* A caller that waits as long as it is told to (rateLimit.ts:59) is let through.
WaitIsEnough(p, stored, time) ==
  LET answer == InMemoryCheck(p, stored, time)
  IN ~answer.allowed => InMemoryCheck(p, answer.bucket, time + answer.retryAfter).allowed

-----------------------------------------------------------------------------
\* Properties

\* The limit means what it says however many pods are running (redisRateLimit.ts:4-8):
\* what the script lets through costs no more than a full bucket and what has refilled in
\* the time that really passed, whenever a bucket is dropped.  Two things add to it: a
\* restart that loses the keys gives one bucket more, and each second the clock is set
\* forward refills like one that passed.  A clock set back mints nothing (:54), but the
\* script stamps the bucket with the earlier time, so putting the clock right again is
\* such a leap.  A request that Redis does not answer is let through and is not counted.
BudgetHolds ==
  \A p \in Policies :
    granted[p] * Cost[p] <= (1 + restarts) * Full(p) + (elapsed + leapt) * Refill[p]
=============================================================================
