----------------------------- MODULE IntakeProofs ----------------------------
(***************************************************************************)
(* The limiter never lets through more than its budget, for every policy,  *)
(* any number of pods and requests, whatever the clock of Redis does, the  *)
(* seconds it is set forward by added to the budget; nor does the intake   *)
(* that it stands before.  Whoever is thanked for an enquiry has one that  *)
(* is stored and announced, for any processes, requests, policies,         *)
(* addresses and vendors.                                                  *)
(*                                                                         *)
(* BudgetHolds alone is not inductive: what has been let through and what  *)
(* the bucket would still pay for have to be counted together (Room).      *)
(***************************************************************************)
EXTENDS Intake, SequenceTheorems, TLAPS

-----------------------------------------------------------------------------
\* The limiter

USE DEF times

Buckets == {NoBucket} \cup [tokens : Nat, ts : Int]

Numbers ==
  /\ elapsed \in Nat /\ clock \in Int /\ leapt \in Nat /\ restarts \in Nat
  /\ bucket \in [Policies -> Buckets]
  /\ granted \in [Policies -> Nat]

Room ==
  \A p \in Policies :
    granted[p] * Cost[p] + Level(p)
      <= (1 + restarts) * Full(p) + (elapsed + leapt) * Refill[p]

IInv == Numbers /\ Room

\* What the rest of the system leaves to the limiter.
budgetVars == <<times, bucket, granted, restarts>>

-----------------------------------------------------------------------------

\* Arithmetic of one step
LEMMA OneMore ==
  ASSUME NEW n \in Nat, NEW c \in Nat
  PROVE  (n + 1) * c = n * c + c
BY SMT

LEMMA ProductIsNat ==
  ASSUME NEW n \in Nat, NEW c \in Nat
  PROVE  n * c \in Nat
BY SMT

LEMMA ProductGrows ==
  ASSUME NEW m \in Nat, NEW n \in Nat, NEW c \in Nat, m <= n
  PROVE  m * c <= n * c
<1>1. PICK d \in Nat : n = m + d
  <2>1. n - m \in Nat /\ n = m + (n - m) OBVIOUS
  <2>2. QED BY <2>1
<1>2. n * c = m * c + d * c BY <1>1, SMT
<1>3. d * c \in Nat /\ m * c \in Nat BY ProductIsNat
<1>4. QED BY <1>2, <1>3

LEMMA RoundsUp ==
  ASSUME NEW n \in Nat, NEW r \in Nat, r > 0
  PROVE  /\ (n + r - 1) \div r \in Nat
         /\ ((n + r - 1) \div r) * r >= n
<1> DEFINE m == n + r - 1
<1>1. m \in Nat OBVIOUS
<1>2. m \div r \in Nat /\ m % r \in 0 .. r - 1 BY <1>1, SMT
<1>3. m = r * (m \div r) + (m % r) BY <1>1, SMT
<1>4. r * (m \div r) \in Nat BY <1>2, ProductIsNat
<1>5. r * (m \div r) = (m \div r) * r BY <1>2, SMT
<1>6. r * (m \div r) >= n
  <2>1. m = n + r - 1 OBVIOUS
  <2> HIDE DEF m
  <2>2. QED BY <1>2, <1>3, <1>4, <2>1, <1>1
<1>7. QED BY <1>2, <1>5, <1>6

LEMMA FullIsNat ==
  ASSUME NEW p \in Policies
  PROVE  Full(p) \in Nat /\ Cost[p] \in Nat /\ Refill[p] \in Nat /\ Cost[p] > 0
<1>1. Capacity[p] \in Nat /\ Cost[p] \in Nat \ {0} /\ Refill[p] \in Nat \ {0}
  BY RateAssumption
<1>2. Capacity[p] * Cost[p] \in Nat BY <1>1, ProductIsNat
<1>3. QED BY <1>1, <1>2 DEF Full

\* A bucket never pays for more than it can hold.
LEMMA LevelIsNat ==
  ASSUME Numbers, NEW p \in Policies
  PROVE  Level(p) \in Nat /\ Level(p) <= Full(p)
<1>1. Full(p) \in Nat /\ Refill[p] \in Nat BY FullIsNat
<1>2. CASE bucket[p] = NoBucket BY <1>1, <1>2 DEF Level
<1>3. CASE bucket[p] # NoBucket
  <2>1. bucket[p].tokens \in Nat /\ bucket[p].ts \in Int
    BY <1>3 DEF Numbers, Buckets
  <2>2. Elapsed(bucket[p]) \in Nat BY <2>1 DEF Elapsed, Numbers
  <2>3. Elapsed(bucket[p]) * Refill[p] \in Nat BY <2>2, <1>1, ProductIsNat
  <2>4. QED BY <1>1, <1>3, <2>1, <2>3 DEF Level, Refilled
<1>4. QED BY <1>2, <1>3

\* What has been let through fits in the budget: the property follows from the invariant.
LEMMA RoomIsBudget == IInv => BudgetHolds
<1> SUFFICES ASSUME IInv, NEW p \in Policies
             PROVE  granted[p] * Cost[p] <= (1 + restarts) * Full(p) + (elapsed + leapt) * Refill[p]
  BY DEF BudgetHolds
<1>1. Level(p) \in Nat BY LevelIsNat DEF IInv
<1>2. Full(p) \in Nat /\ Cost[p] \in Nat /\ Refill[p] \in Nat BY FullIsNat
<1>3. granted[p] \in Nat /\ restarts \in Nat /\ elapsed + leapt \in Nat BY DEF IInv, Numbers
<1>4. /\ granted[p] * Cost[p] \in Nat
      /\ (1 + restarts) * Full(p) \in Nat
      /\ (elapsed + leapt) * Refill[p] \in Nat
  BY <1>2, <1>3, ProductIsNat
<1>5. granted[p] * Cost[p] + Level(p)
        <= (1 + restarts) * Full(p) + (elapsed + leapt) * Refill[p]
  BY DEF IInv, Room
<1>6. QED BY <1>1, <1>4, <1>5

LEMMA RoomAtFirst == LimiterInit => IInv
<1> SUFFICES ASSUME LimiterInit PROVE IInv OBVIOUS
<1>1. Numbers BY DEF LimiterInit, Numbers, Buckets
<1>2. ASSUME NEW p \in Policies
      PROVE  granted[p] * Cost[p] + Level(p)
               <= (1 + restarts) * Full(p) + (elapsed + leapt) * Refill[p]
  <2>1. granted[p] = 0 /\ Level(p) = Full(p) /\ restarts = 0 /\ elapsed = 0 /\ leapt = 0
    BY DEF LimiterInit, Level
  <2>2. Full(p) \in Nat /\ Cost[p] \in Nat /\ Refill[p] \in Nat BY FullIsNat
  <2>3. QED BY <2>1, <2>2
<1>3. QED BY <1>1, <1>2 DEF IInv, Room

-----------------------------------------------------------------------------

\* The script: it writes down what it found and takes at most what it lets through.
LEMMA SpendKeepsRoom ==
  ASSUME IInv, NEW q, Spend(q), UNCHANGED <<times, restarts>>,
         \/ granted' = [granted EXCEPT ![q] = IF Affordable(q) THEN @ + 1 ELSE @]
         \/ granted' = granted
  PROVE  IInv'
<1>1. Numbers'
  <2>1. /\ elapsed' \in Nat /\ clock' \in Int /\ leapt' \in Nat /\ restarts' \in Nat
    BY DEF IInv, Numbers
  <2>2. granted' \in [Policies -> Nat] BY DEF IInv, Numbers
  <2>3. bucket' \in [Policies -> Buckets]
    <3>1. CASE q \in Policies
      <4>1. Level(q) \in Nat BY <3>1, LevelIsNat DEF IInv
      <4>2. Cost[q] \in Nat BY <3>1, FullIsNat
      <4>3. (IF Affordable(q) THEN Level(q) - Cost[q] ELSE Level(q)) \in Nat
        BY <4>1, <4>2 DEF Affordable
      <4>4. QED BY <4>3, <3>1 DEF Spend, IInv, Numbers, Buckets
    <3>2. CASE q \notin Policies
      <4>1. bucket' = bucket BY <3>2 DEF Spend, IInv, Numbers
      <4>2. QED BY <4>1 DEF IInv, Numbers
    <3>3. QED BY <3>1, <3>2
  <2>4. QED BY <2>1, <2>2, <2>3 DEF Numbers
<1>2. ASSUME NEW p \in Policies
      PROVE  (granted[p] * Cost[p] + Level(p)
                <= (1 + restarts) * Full(p) + (elapsed + leapt) * Refill[p])'
  <2>0. /\ granted[p] * Cost[p] + Level(p)
             <= (1 + restarts) * Full(p) + (elapsed + leapt) * Refill[p]
        /\ granted[p] \in Nat
    BY DEF IInv, Room, Numbers
  <2>1. Level(p) \in Nat /\ Level(p) <= Full(p) BY LevelIsNat DEF IInv
  <2>2. Full(p) \in Nat /\ Cost[p] \in Nat /\ Cost[p] > 0 /\ Refill[p] \in Nat BY FullIsNat
  <2>3. (1 + restarts) * Full(p) + (elapsed + leapt) * Refill[p] \in Nat
    BY <2>2, ProductIsNat DEF IInv, Numbers
  <2>4. granted[p] * Cost[p] \in Nat BY <2>0, <2>2, ProductIsNat
  <2>5. CASE p = q
    <3> DEFINE left == IF Affordable(p) THEN Level(p) - Cost[p] ELSE Level(p)
    <3>1. bucket'[p] = [tokens |-> left, ts |-> clock]
      BY <2>5 DEF Spend, IInv, Numbers
    <3>2. left \in Nat /\ left <= Full(p) BY <2>1, <2>2 DEF Affordable
    <3>3. bucket'[p] # NoBucket
      BY <3>1, <3>2, RateAssumption DEF IInv, Numbers
    <3>4. Elapsed(bucket[p])' = 0 BY <3>1 DEF Elapsed, IInv, Numbers
    <3>5. Refilled(p, bucket[p])' = left
      BY <3>1, <3>2, <3>4, <2>2 DEF Refilled, Full
    <3>6. Level(p)' = left BY <3>3, <3>5 DEF Level
    <3>7. CASE Affordable(p) /\ granted'[p] = granted[p] + 1
      <4>1. (granted[p] + 1) * Cost[p] = granted[p] * Cost[p] + Cost[p]
        BY <2>0, <2>2, OneMore
      <4>2. left = Level(p) - Cost[p] BY <3>7
      <4>3. granted'[p] * Cost[p] + left = granted[p] * Cost[p] + Level(p)
        BY <3>7, <4>1, <4>2, <2>1, <2>2, <2>4
      <4>4. QED BY <4>3, <3>6, <2>0 DEF Full
    <3>8. CASE granted'[p] = granted[p]
      <4>1. left <= Level(p) BY <2>1, <2>2
      <4>2. granted[p] * Cost[p] + left <= granted[p] * Cost[p] + Level(p)
        BY <4>1, <2>1, <2>4, <3>2
      <4>3. QED BY <4>2, <3>8, <3>6, <3>2, <2>0, <2>1, <2>3, <2>4 DEF Full
    <3>9. (Affordable(p) /\ granted'[p] = granted[p] + 1) \/ granted'[p] = granted[p]
      BY <2>5 DEF IInv, Numbers
    <3>10. QED BY <3>7, <3>8, <3>9
  <2>6. CASE p # q
    <3>1. bucket'[p] = bucket[p] /\ granted'[p] = granted[p]
      BY <2>6 DEF Spend, IInv, Numbers
    <3>2. Level(p)' = Level(p) BY <3>1 DEF Level, Refilled, Elapsed, Full
    <3>3. QED BY <3>1, <3>2, <2>0 DEF Full
  <2>7. QED BY <2>5, <2>6
<1>3. QED BY <1>1, <1>2 DEF IInv, Room

\* A restart gives a full bucket, and the budget counts one more.
LEMMA RestartKeepsRoom == IInv /\ Restart => IInv'
<1> SUFFICES ASSUME IInv, Restart PROVE IInv' OBVIOUS
<1>1. Numbers' BY DEF IInv, Numbers, Restart, Buckets, answers
<1>2. ASSUME NEW p \in Policies
      PROVE  (granted[p] * Cost[p] + Level(p)
                <= (1 + restarts) * Full(p) + (elapsed + leapt) * Refill[p])'
  <2>0. /\ granted[p] * Cost[p] + Level(p)
             <= (1 + restarts) * Full(p) + (elapsed + leapt) * Refill[p]
        /\ granted'[p] = granted[p] /\ UNCHANGED times
    BY DEF IInv, Room, Restart, answers
  <2>1. CASE bucket' = bucket /\ restarts' = restarts
    <3>1. Level(p)' = Level(p) BY <2>0, <2>1 DEF Level, Refilled, Elapsed, Full
    <3>2. QED BY <2>0, <2>1, <3>1 DEF Full
  <2>2. CASE bucket' = [o \in Policies |-> NoBucket] /\ restarts' = restarts + 1
    <3>1. Level(p)' = Full(p) BY <2>2 DEF Level, Full
    <3>2. /\ Level(p) \in Nat /\ Full(p) \in Nat /\ Cost[p] \in Nat /\ Refill[p] \in Nat
          /\ restarts \in Nat /\ elapsed + leapt \in Nat /\ granted[p] \in Nat
      BY LevelIsNat, FullIsNat DEF IInv, Numbers
    <3>3. (1 + restarts + 1) * Full(p) = (1 + restarts) * Full(p) + Full(p)
      BY <3>2, OneMore
    <3>4. /\ granted[p] * Cost[p] \in Nat /\ (1 + restarts) * Full(p) \in Nat
          /\ (elapsed + leapt) * Refill[p] \in Nat
      BY <3>2, ProductIsNat
    <3>5. granted[p] * Cost[p] + Full(p)
            <= (1 + restarts + 1) * Full(p) + (elapsed + leapt) * Refill[p]
      BY <2>0, <3>2, <3>3, <3>4
    <3>6. (1 + restarts)' = 1 + restarts + 1 BY <2>2, <3>2
    <3>7. QED BY <2>0, <3>1, <3>5, <3>6 DEF Full
  <2>3. QED BY <2>1, <2>2 DEF Restart
<1>3. QED BY <1>1, <1>2 DEF IInv, Room

\* A bucket is dropped when it would be full: nothing changes.
LEMMA ExpireKeepsRoom ==
  ASSUME IInv, NEW q \in Policies, Expire(q)
  PROVE  IInv'
<1>1. Numbers' BY DEF IInv, Numbers, Expire, Buckets, answers
<1>2. ASSUME NEW p \in Policies
      PROVE  (granted[p] * Cost[p] + Level(p)
                <= (1 + restarts) * Full(p) + (elapsed + leapt) * Refill[p])'
  <2>0. /\ granted[p] * Cost[p] + Level(p)
             <= (1 + restarts) * Full(p) + (elapsed + leapt) * Refill[p]
        /\ granted' = granted /\ UNCHANGED times /\ restarts' = restarts
    BY DEF IInv, Room, Expire, answers
  <2>1. CASE p # q
    <3>1. bucket'[p] = bucket[p] BY <2>1 DEF Expire, IInv, Numbers
    <3>2. Level(p)' = Level(p) BY <2>0, <3>1 DEF Level, Refilled, Elapsed, Full
    <3>3. QED BY <2>0, <3>2 DEF Full
  <2>2. CASE p = q
    <3> DEFINE F == Full(p)
               r == Refill[p]
               age == clock - bucket[p].ts
    <3>1. F \in Nat /\ r \in Nat /\ r > 0 BY FullIsNat, RateAssumption
    <3>2. /\ bucket[p] # NoBucket
          /\ bucket[p].tokens \in Nat /\ bucket[p].ts \in Int /\ clock \in Int
      BY <2>2 DEF Expire, IInv, Numbers, Buckets
    <3>3. age >= Ttl(p) BY <2>2, <3>1, <3>2 DEF Expire, Ttl
    <3> DEFINE k == (F + r - 1) \div r
    <3>4. k \in Nat /\ k * r >= F BY <3>1, RoundsUp
    <3>5. age \in Nat /\ k <= age
      BY <3>2, <3>3, <3>4, <3>1 DEF Ttl
    <3>6. age * r >= F /\ age * r \in Nat
      <4> HIDE DEF k, age, r, F
      <4>1. k * r <= age * r BY <3>1, <3>4, <3>5, ProductGrows
      <4>2. k * r \in Nat /\ age * r \in Nat BY <3>1, <3>4, <3>5, ProductIsNat
      <4>3. QED BY <4>1, <4>2, <3>1, <3>4
    <3>7. Elapsed(bucket[p]) = age BY <3>5, <3>2 DEF Elapsed
    <3>8. Level(p) = F BY <3>1, <3>2, <3>6, <3>7 DEF Level, Refilled
    <3>9. Level(p)' = F
      <4>1. bucket'[p] = NoBucket BY <2>2 DEF Expire, IInv, Numbers
      <4>2. QED BY <4>1 DEF Level, Full
    <3>10. Level(p)' = Level(p) BY <3>8, <3>9
    <3>11. QED BY <2>0, <3>10 DEF Full
  <2>3. QED BY <2>1, <2>2
<1>3. QED BY <1>1, <1>2 DEF IInv, Room

\* A clock that changes by d refills no more than the budget gains by it, which is gain
\* seconds: none if the clock goes back.
LEMMA ClockKeepsRoom ==
  ASSUME IInv, NEW d \in Int, NEW gain \in Nat, d <= gain,
         clock' = clock + d, elapsed' \in Nat, leapt' \in Nat,
         elapsed' + leapt' = elapsed + leapt + gain,
         UNCHANGED <<bucket, granted, restarts>>
  PROVE  IInv'
<1>1. Numbers' BY DEF IInv, Numbers
<1>2. ASSUME NEW p \in Policies
      PROVE  (granted[p] * Cost[p] + Level(p)
                <= (1 + restarts) * Full(p) + (elapsed + leapt) * Refill[p])'
  <2>0. granted[p] * Cost[p] + Level(p)
          <= (1 + restarts) * Full(p) + (elapsed + leapt) * Refill[p]
    BY DEF IInv, Room
  <2>1. /\ Full(p) \in Nat /\ Cost[p] \in Nat /\ Refill[p] \in Nat
        /\ granted[p] \in Nat /\ elapsed \in Nat /\ leapt \in Nat /\ restarts \in Nat
        /\ clock \in Int
    BY FullIsNat DEF IInv, Numbers
  <2>2. PICK passed \in Nat, r \in Nat, more \in Nat :
          passed = elapsed + leapt /\ r = Refill[p] /\ more = gain * Refill[p]
    <3>1. elapsed + leapt \in Nat /\ gain * Refill[p] \in Nat BY <2>1, ProductIsNat
    <3>2. QED BY <2>1, <3>1
  <2>7. (passed + gain) * r = passed * r + more
    <3>1. (passed + gain) * r = passed * r + gain * r BY SMT
    <3>2. QED BY <3>1, <2>2
  <2>3. Level(p)' <= Level(p) + more /\ Level(p) \in Nat /\ Level(p)' \in Nat
    <3>0. Level(p) \in Nat BY LevelIsNat DEF IInv
    <3>1. CASE bucket[p] = NoBucket
      <4>1. Level(p) = Full(p) /\ Level(p)' = Full(p) BY <3>1 DEF Level, Full
      <4>2. QED BY <4>1, <2>1, <2>2
    <3>2. CASE bucket[p] # NoBucket
      <4> DEFINE e == Elapsed(bucket[p])
                 f == Elapsed(bucket[p])'
                 t == bucket[p].tokens
      <4>1. t \in Nat /\ bucket[p].ts \in Int BY <3>2 DEF IInv, Numbers, Buckets
      <4>2. e \in Nat /\ f \in Nat /\ f <= e + gain
        BY <4>1, <2>1 DEF Elapsed
      <4>3. f * r <= e * r + more /\ f * r \in Nat /\ e * r \in Nat
        <5> HIDE DEF e, f
        <5>1. f * r <= (e + gain) * r BY <4>2, ProductGrows
        <5>2. (e + gain) * r = e * r + gain * r BY <4>2, SMT
        <5>3. f * r \in Nat /\ e * r \in Nat BY <4>2, ProductIsNat
        <5>4. gain * r = more BY <2>2
        <5>5. QED BY <5>1, <5>2, <5>3, <5>4
      <4>4. Level(p) = (IF t + e * r < Full(p) THEN t + e * r ELSE Full(p))
        BY <3>2, <2>2 DEF Level, Refilled
      <4>5. Level(p)' = (IF t + f * r < Full(p) THEN t + f * r ELSE Full(p))
        BY <3>2, <2>2 DEF Level, Refilled, Full
      <4>6. QED
        <5> HIDE DEF e, f, t
        <5>1. PICK x \in Nat, y \in Nat : x = e * r /\ y = f * r BY <4>3
        <5>2. y <= x + more BY <5>1, <4>3
        <5>3. Level(p) = (IF t + x < Full(p) THEN t + x ELSE Full(p)) BY <4>4, <5>1
        <5>4. Level(p)' = (IF t + y < Full(p) THEN t + y ELSE Full(p)) BY <4>5, <5>1
        <5>5. QED BY <5>2, <5>3, <5>4, <4>1, <2>1, <3>0
    <3>3. QED BY <3>1, <3>2
  <2>4. /\ granted[p] * Cost[p] \in Nat /\ (1 + restarts) * Full(p) \in Nat
        /\ passed * r \in Nat
    BY <2>1, ProductIsNat
  <2>5. granted[p] * Cost[p] + Level(p)'
          <= (1 + restarts) * Full(p) + (passed + gain) * r
    BY <2>0, <2>1, <2>2, <2>3, <2>4, <2>7
  <2>6. elapsed' + leapt' = passed + gain BY <2>2
  <2>8. QED BY <2>5, <2>6, <2>2 DEF Full
<1>3. QED BY <1>1, <1>2 DEF IInv, Room

\* Time passes, by the clock and really.
LEMMA TickKeepsRoom == IInv /\ Tick => IInv'
<1> SUFFICES ASSUME IInv, Tick PROVE IInv' OBVIOUS
<1>1. elapsed \in Nat /\ leapt \in Nat BY DEF IInv, Numbers
<1>2. /\ clock' = clock + 1 /\ elapsed' = elapsed + 1 /\ leapt' = leapt
      /\ UNCHANGED <<bucket, granted, restarts>>
  BY DEF Tick, answers
<1>3. elapsed' + leapt' = elapsed + leapt + 1 /\ elapsed' \in Nat /\ leapt' \in Nat
  BY <1>1, <1>2
<1>4. QED BY <1>2, <1>3, ClockKeepsRoom

\* The clock is set, forward or back, wrong or right.
LEMMA SetClockKeepsRoom ==
  ASSUME IInv, NEW now \in Int, SetClock(now)
  PROVE  IInv'
<1>1. elapsed \in Nat /\ leapt \in Nat /\ clock \in Int BY DEF IInv, Numbers
<1>2. PICK gain \in Nat : gain = IF now > clock THEN now - clock ELSE 0
  <2>1. (IF now > clock THEN now - clock ELSE 0) \in Nat BY <1>1
  <2>2. QED BY <2>1
<1>3. /\ clock' = clock + (now - clock) /\ now - clock \in Int /\ now - clock <= gain
      /\ elapsed' = elapsed /\ leapt' = leapt + gain
      /\ UNCHANGED <<bucket, granted, restarts>>
  BY <1>1, <1>2 DEF SetClock, answers
<1>4. elapsed' + leapt' = elapsed + leapt + gain /\ elapsed' \in Nat /\ leapt' \in Nat
  BY <1>1, <1>3
<1>5. QED BY <1>3, <1>4, ClockKeepsRoom

LEMMA OthersKeepRoom == IInv /\ UNCHANGED budgetVars => IInv'
<1> SUFFICES ASSUME IInv, UNCHANGED budgetVars PROVE IInv' OBVIOUS
<1>1. Numbers' BY DEF IInv, Numbers, budgetVars
<1>2. ASSUME NEW p \in Policies
      PROVE  (granted[p] * Cost[p] + Level(p)
                <= (1 + restarts) * Full(p) + (elapsed + leapt) * Refill[p])'
  <2>1. granted[p] * Cost[p] + Level(p)
          <= (1 + restarts) * Full(p) + (elapsed + leapt) * Refill[p]
    BY DEF IInv, Room
  <2>2. Level(p)' = Level(p) BY DEF budgetVars, Level, Refilled, Elapsed, Full
  <2>3. QED BY <2>1, <2>2 DEF budgetVars, Full
<1>3. QED BY <1>1, <1>2 DEF IInv, Room

\* Every step of the limiter keeps the invariant.
LEMMA StepKeepsRoom == IInv /\ LimiterStep => IInv'
<1> SUFFICES ASSUME IInv, LimiterStep PROVE IInv' OBVIOUS
<1>1. ASSUME NEW w \in Workers, NoScript(w) \/ Outage(w) PROVE IInv'
  <2>1. UNCHANGED budgetVars BY <1>1 DEF NoScript, Outage, budgetVars
  <2>2. QED BY <2>1, OthersKeepRoom
<1>2. ASSUME NEW w \in Workers, Decide(w) PROVE IInv'
  <2> DEFINE q == call[w].policy
  <2>1. /\ Spend(q) /\ UNCHANGED <<times, restarts>>
        /\ \/ granted' = [granted EXCEPT ![q] = IF Affordable(q) THEN @ + 1 ELSE @]
           \/ granted' = granted
    BY <1>2 DEF Decide
  <2> HIDE DEF q
  <2>2. QED BY <2>1, SpendKeepsRoom
<1>3. ASSUME Skew \/ Synchronise PROVE IInv'
  <2>1. clock \in Int /\ elapsed \in Int BY DEF IInv, Numbers
  <2>2. PICK now \in Int : SetClock(now) BY <1>3, <2>1 DEF Skew, Synchronise
  <2>3. QED BY <2>2, SetClockKeepsRoom
<1>4. QED
  BY <1>1, <1>2, <1>3, RestartKeepsRoom, TickKeepsRoom, ExpireKeepsRoom DEF LimiterStep

\* The limit means what it says: see BudgetHolds.
THEOREM LimiterBudget == LimiterSpec => []BudgetHolds
<1>1. LimiterInit => IInv BY RoomAtFirst
<1>2. IInv /\ [LimiterNext]_limiterVars => IInv'
  <2> SUFFICES ASSUME IInv, [LimiterNext]_limiterVars PROVE IInv' OBVIOUS
  <2>1. CASE LimiterStep BY <2>1, StepKeepsRoom
  <2>2. CASE LimiterNext /\ ~LimiterStep
    <3>1. UNCHANGED budgetVars BY <2>2 DEF LimiterNext, Ask, budgetVars
    <3>2. QED BY <3>1, OthersKeepRoom
  <2>3. CASE UNCHANGED limiterVars
    <3>1. UNCHANGED budgetVars BY <2>3 DEF limiterVars, answers, budgetVars
    <3>2. QED BY <3>1, OthersKeepRoom
  <2>4. QED BY <2>1, <2>2, <2>3
<1>3. IInv => BudgetHolds BY RoomIsBudget
<1>4. QED BY <1>1, <1>2, <1>3, PTL DEF LimiterSpec

-----------------------------------------------------------------------------

\* The limiter of one process may drop what it sweeps: see SweepIsHarmless.
THEOREM SweepChangesNothing ==
  ASSUME NEW p \in Policies, NEW stored \in [tokens : Nat, ts : Int],
         NEW time \in Int, NEW later \in Int
  PROVE  SweepIsHarmless(p, stored, time, later)
<1> DEFINE gain == (later - stored.ts) * Refill[p]
<1> SUFFICES ASSUME Swept(p, stored, time), later >= time
             PROVE  InMemoryCheck(p, stored, later) = InMemoryCheck(p, NoBucket, later)
  BY DEF SweepIsHarmless
<1>1. stored # NoBucket /\ Refill[p] \in Nat /\ Full(p) \in Nat
  BY RateAssumption DEF Full
<1>2. gain >= (time - stored.ts) * Refill[p] BY <1>1
<1>3. gain > Full(p) - stored.tokens BY <1>1, <1>2 DEF Swept
<1>4. CASE later >= stored.ts
  <2>1. stored.tokens + gain >= Full(p) BY <1>1, <1>3
  <2>2. gain \in Int BY <1>1
  <2> HIDE DEF gain
  <2>3. ~(stored.tokens + gain < Full(p)) BY <2>1, <2>2, <1>1
  <2>4. QED BY <2>3, <1>1, <1>4 DEF InMemoryCheck, gain
<1>5. CASE later < stored.ts
  <2>1. gain <= 0 BY <1>1, <1>5
  <2>2. stored.tokens > Full(p) BY <2>1, <1>1, <1>3
  <2>3. QED BY <2>2, <1>1, <1>5 DEF InMemoryCheck
<1>6. QED BY <1>4, <1>5

-----------------------------------------------------------------------------
\* Intake

\* All steps but the limiter's own leave its numbers alone.
LEMMA OnlyTheLimiterSpends == [Next]_vars => LimiterStep \/ UNCHANGED budgetVars
<1> SUFFICES ASSUME [Next]_vars PROVE LimiterStep \/ UNCHANGED budgetVars OBVIOUS
<1> USE DEF budgetVars, limiterRest
<1>1. CASE UNCHANGED vars BY <1>1 DEF vars, limiterVars, answers
<1>2. ASSUME NEW w \in Workers, NEW request, Enter(w, request) PROVE UNCHANGED budgetVars
  BY <1>2 DEF Enter, Ask
<1>3. ASSUME NEW w \in Workers,
             \/ \E form \in Forms : StartDraft(w, form)
             \/ \E body \in Bodies : StartEnquiry(w, body)
             \/ StartPublish(w)
      PROVE  UNCHANGED budgetVars
  BY <1>3, <1>2 DEF StartDraft, StartEnquiry, StartPublish
<1>4. ASSUME NEW w \in Workers,
             \/ Refused(w) \/ RefuseBrief(w) \/ TakeCoordinates(w)
             \/ Lookup(w) \/ Fill(w) \/ Unavailable(w) \/ CreateDraft(w)
      PROVE  UNCHANGED budgetVars
  BY <1>4 DEF Refused, RefuseBrief, TakeCoordinates, Lookup, Fill, Unavailable, CreateDraft,
              limiterVars, answers
<1>5. ASSUME NEW w \in Workers, CensusReads(w) \/ TellEnquiry(w) PROVE UNCHANGED budgetVars
  BY <1>5 DEF CensusReads, TellEnquiry, limiterVars, answers
<1>6. ASSUME NEW w \in Workers,
             \/ ReadDraft(w) \/ Publish(w)
             \/ AskEnquiry(w) \/ CreateEnquiry(w) \/ AnswerEnquiry(w)
      PROVE  UNCHANGED budgetVars
  BY <1>6 DEF ReadDraft, Publish, AskEnquiry, CreateEnquiry, AnswerEnquiry
<1>7. ASSUME NEW a \in Addresses, Correct(a) PROVE UNCHANGED budgetVars
  BY <1>7 DEF Correct, limiterVars, answers
<1>8. ASSUME NEW pod \in Pods, CrashPod(pod) PROVE UNCHANGED budgetVars
  BY <1>8 DEF CrashPod
<1>9. CASE Next
  <2> HIDE DEF budgetVars
  <2>1. QED BY <1>9, <1>3, <1>4, <1>5, <1>6, <1>7, <1>8 DEF Next
<1>10. QED BY <1>1, <1>9

\* The limit holds for the whole of intake, crashes of processes included: see BudgetHolds.
THEOREM IntakeBudget == Spec => []BudgetHolds
<1>1. Init => IInv BY RoomAtFirst DEF Init
<1>2. IInv /\ [Next]_vars => IInv' BY OnlyTheLimiterSpends, StepKeepsRoom, OthersKeepRoom
<1>3. IInv => BudgetHolds BY RoomIsBudget
<1>4. QED BY <1>1, <1>2, <1>3, PTL DEF Spec

-----------------------------------------------------------------------------

\* A request that tells of an enquiry, or is about to answer, has stored it.
Telling(w) == job[w].op = "enquiry" /\ job[w].at \in {"tell", "answer"}

Told ==
  /\ job = [w \in Workers |-> job[w]]
  /\ \A w \in Workers :
       Telling(w) =>
         /\ job[w] \in [op : {"enquiry"}, at : {"tell", "answer"}, row : enquiries]
         /\ job[w].at = "answer" => job[w].row \in received
  /\ EnquiryIsTold

\* A step that replaces the jobs of some requests by ones that tell of nothing.
LEMMA NothingToTell ==
  ASSUME Told, NEW S \in SUBSET Workers,
         job' = [w \in Workers |-> IF w \in S THEN job'[w] ELSE job[w]],
         \A w \in S : ~Telling(w)',
         UNCHANGED <<enquiries, received, thanked>>
  PROVE  Told'
<1>1. \A w \in Workers \ S : job'[w] = job[w] OBVIOUS
<1>2. ASSUME NEW w \in Workers, Telling(w)'
      PROVE  /\ job'[w] \in [op : {"enquiry"}, at : {"tell", "answer"}, row : enquiries']
             /\ job'[w].at = "answer" => job'[w].row \in received'
  <2>1. w \notin S BY <1>2
  <2>2. job'[w] = job[w] BY <2>1, <1>1
  <2>3. Telling(w) BY <1>2, <2>2 DEF Telling
  <2>4. QED BY <2>2, <2>3 DEF Told
<1>3. job' = [w \in Workers |-> job'[w]] OBVIOUS
<1>4. EnquiryIsTold' BY DEF Told, EnquiryIsTold
<1>5. QED BY <1>2, <1>3, <1>4 DEF Told

\* The case of one request.
LEMMA NothingToTellOf ==
  ASSUME Told, NEW v \in Workers, NEW j, job' = [job EXCEPT ![v] = j],
         j.op # "enquiry" \/ j.at \notin {"tell", "answer"},
         UNCHANGED <<enquiries, received, thanked>>
  PROVE  Told'
<1>1. job = [w \in Workers |-> job[w]] BY DEF Told
<1>2. job'[v] = j BY <1>1
<1>3. job' = [w \in Workers |-> IF w \in {v} THEN job'[w] ELSE job[w]] BY <1>1, <1>2
<1>4. ~Telling(v)' BY <1>2 DEF Telling
<1>5. QED BY <1>3, <1>4, NothingToTell

LEMMA ToldStays ==
  ASSUME Told, UNCHANGED <<job, enquiries, received, thanked>>
  PROVE  Told'
BY DEF Told, Telling, EnquiryIsTold

LEMMA StepTells == Told /\ [Next]_vars => Told'
<1> SUFFICES ASSUME Told, [Next]_vars PROVE Told' OBVIOUS
<1> USE DEF tables, announcing
<1>1. CASE UNCHANGED vars BY <1>1, ToldStays DEF vars, intakeVars
<1>2. CASE LimiterStep /\ UNCHANGED intakeVars BY <1>2, ToldStays DEF intakeVars
<1>3. ASSUME NEW w \in Workers, NEW form \in Forms, StartDraft(w, form) PROVE Told'
  <2> DEFINE j == [op |-> "draft", at |-> "limit", form |-> form]
  <2>1. job' = [job EXCEPT ![w] = j] /\ UNCHANGED <<enquiries, received, thanked>>
    BY <1>3 DEF StartDraft, Enter
  <2>2. j.op # "enquiry" OBVIOUS
  <2> HIDE DEF j
  <2>3. QED BY <2>1, <2>2, NothingToTellOf
<1>4. ASSUME NEW w \in Workers, NEW body \in Bodies, StartEnquiry(w, body) PROVE Told'
  <2> DEFINE j == [op |-> "enquiry", at |-> "limit", body |-> body]
  <2>1. job' = [job EXCEPT ![w] = j] /\ UNCHANGED <<enquiries, received, thanked>>
    BY <1>4 DEF StartEnquiry, Enter
  <2>2. j.at \notin {"tell", "answer"} OBVIOUS
  <2> HIDE DEF j
  <2>3. QED BY <2>1, <2>2, NothingToTellOf
<1>5. ASSUME NEW w \in Workers, StartPublish(w) PROVE Told'
  <2> DEFINE j == [op |-> "publish", at |-> "limit"]
  <2>1. job' = [job EXCEPT ![w] = j] /\ UNCHANGED <<enquiries, received, thanked>>
    BY <1>5 DEF StartPublish, Enter
  <2>2. j.op # "enquiry" OBVIOUS
  <2> HIDE DEF j
  <2>3. QED BY <2>1, <2>2, NothingToTellOf
<1>6. ASSUME NEW w \in Workers, End(w), UNCHANGED <<enquiries, received, thanked>>
      PROVE  Told'
  <2>1. job' = [job EXCEPT ![w] = Idle] BY <1>6 DEF End
  <2>2. Idle.op # "enquiry" BY DEF Idle
  <2>3. QED BY <2>1, <2>2, <1>6, NothingToTellOf
<1>7. ASSUME NEW w \in Workers,
             \/ Refused(w) \/ RefuseBrief(w) \/ Unavailable(w)
             \/ CreateDraft(w) \/ Publish(w)
      PROVE  Told'
  <2>1. End(w) /\ UNCHANGED <<enquiries, received, thanked>>
    BY <1>7 DEF Refused, RefuseBrief, Unavailable, CreateDraft, Publish
  <2>2. QED BY <2>1, <1>6
<1>18. ASSUME NEW w \in Workers, NEW place, NEW version, Resolve(w, place, version),
              UNCHANGED <<enquiries, received, thanked>>
       PROVE  Told'
  <2> DEFINE j == [op |-> "draft", at |-> "insert", form |-> job[w].form,
                   place |-> place, version |-> version, resolved |-> elapsed]
  <2>1. job' = [job EXCEPT ![w] = j] BY <1>18 DEF Resolve
  <2>2. j.op # "enquiry" OBVIOUS
  <2> HIDE DEF j
  <2>3. QED BY <2>1, <2>2, <1>18, NothingToTellOf
<1>19. ASSUME NEW w \in Workers, TakeCoordinates(w) PROVE Told'
  BY <1>19, <1>18 DEF TakeCoordinates
<1>8. ASSUME NEW w \in Workers, Lookup(w) PROVE Told'
  <2> DEFINE a == job[w].form.address
             hit == Cached(cache[PodOf[w]], a, elapsed)
             e == EntryOf(cache[PodOf[w]], a)
  <2>1. UNCHANGED <<enquiries, received, thanked>> BY <1>8 DEF Lookup
  <2>2. CASE hit
    <3>1. Resolve(w, e.point, e.version) BY <1>8, <2>2 DEF Lookup
    <3>2. QED BY <2>1, <3>1, <1>18
  <2>3. CASE ~hit /\ a \in Vague
    <3>1. End(w) BY <1>8, <2>3 DEF Lookup
    <3>2. QED BY <2>1, <3>1, <1>6
  <2>4. CASE ~hit /\ a \notin Vague
    <3>1. PICK j : j.op = "draft" /\ job' = [job EXCEPT ![w] = j]
      BY <1>8, <2>4 DEF Lookup
    <3>2. QED BY <2>1, <3>1, NothingToTellOf
  <2>5. QED BY <2>2, <2>3, <2>4
<1>9. ASSUME NEW w \in Workers, CensusReads(w) PROVE Told'
  <2>1. UNCHANGED <<enquiries, received, thanked>> BY <1>9 DEF CensusReads
  <2> DEFINE j == [op |-> "draft", at |-> "reply", form |-> job[w].form,
                   version |-> IF corrected[job[w].form.address] = -1 THEN 1 ELSE 2,
                   asked |-> job[w].asked]
  <2>2. job' = [job EXCEPT ![w] = j] BY <1>9 DEF CensusReads
  <2>3. j.op # "enquiry" OBVIOUS
  <2> HIDE DEF j
  <2>4. QED BY <2>1, <2>2, <2>3, NothingToTellOf
<1>10. ASSUME NEW w \in Workers, Fill(w) PROVE Told'
  <2> DEFINE result == ParseCensusResponse(Census[job[w].form.address][job[w].version])
  <2>1. UNCHANGED <<enquiries, received, thanked>> BY <1>10 DEF Fill
  <2>2. CASE result.ok
    <3>1. Resolve(w, result.point, job[w].version) BY <1>10, <2>2 DEF Fill
    <3>2. QED BY <2>1, <3>1, <1>18
  <2>3. CASE ~result.ok
    <3>1. End(w) BY <1>10, <2>3 DEF Fill
    <3>2. QED BY <2>1, <3>1, <1>6
  <2>4. QED BY <2>2, <2>3
<1>11. ASSUME NEW w \in Workers, AskEnquiry(w) PROVE Told'
  <2> DEFINE j == [op |-> "enquiry", at |-> "own", body |-> job[w].body]
  <2>1. job' = [job EXCEPT ![w] = j] /\ UNCHANGED <<enquiries, received, thanked>>
    BY <1>11 DEF AskEnquiry
  <2>2. j.at \notin {"tell", "answer"} OBVIOUS
  <2> HIDE DEF j
  <2>3. QED BY <2>1, <2>2, NothingToTellOf
<1>12. ASSUME NEW w \in Workers, CreateEnquiry(w) PROVE Told'
  <2> DEFINE id == Cardinality(enquiries) + 1
  <2>1. CASE Accepts(job[w].body) /\ TableTakes(NormaliseEnquiry(job[w].body))
    <3>1. /\ enquiries' = enquiries \cup {id} /\ UNCHANGED <<received, thanked>>
          /\ job' = [job EXCEPT ![w] = [op |-> "enquiry", at |-> "tell", row |-> id]]
      BY <1>12, <2>1 DEF CreateEnquiry
    <3> HIDE DEF id
    <3>2. job = [v \in Workers |-> job[v]] BY DEF Told
    <3>3. ASSUME NEW v \in Workers, Telling(v)'
          PROVE  /\ job'[v] \in [op : {"enquiry"}, at : {"tell", "answer"}, row : enquiries']
                 /\ job'[v].at = "answer" => job'[v].row \in received'
      <4>1. CASE v = w
        <5>1. job'[v] = [op |-> "enquiry", at |-> "tell", row |-> id] BY <3>1, <3>2, <4>1
        <5>2. QED BY <5>1, <3>1
      <4>2. CASE v # w
        <5>1. job'[v] = job[v] BY <3>1, <3>2, <4>2
        <5>2. Telling(v) BY <3>3, <5>1 DEF Telling
        <5>3. QED BY <5>1, <5>2, <3>1 DEF Told
      <4>3. QED BY <4>1, <4>2
    <3>4. job' = [v \in Workers |-> job'[v]] BY <3>1, <3>2
    <3>5. EnquiryIsTold' BY <3>1 DEF Told, EnquiryIsTold
    <3>6. QED BY <3>3, <3>4, <3>5 DEF Told
  <2>2. CASE ~(Accepts(job[w].body) /\ TableTakes(NormaliseEnquiry(job[w].body)))
    <3>1. End(w) /\ UNCHANGED <<enquiries, received, thanked>>
      BY <1>12, <2>2 DEF CreateEnquiry
    <3>2. QED BY <3>1, <1>6
  <2>3. QED BY <2>1, <2>2
<1>13. ASSUME NEW w \in Workers, TellEnquiry(w) PROVE Told'
  <2>1. /\ Telling(w) /\ received' = received \cup {job[w].row}
        /\ job' = [job EXCEPT ![w].at = "answer"] /\ UNCHANGED <<enquiries, thanked>>
    BY <1>13 DEF TellEnquiry, At, Telling
  <2>2. job = [v \in Workers |-> job[v]] BY DEF Told
  <2>3. job[w] \in [op : {"enquiry"}, at : {"tell", "answer"}, row : enquiries]
    BY <2>1 DEF Told
  <2>4. ASSUME NEW v \in Workers, Telling(v)'
        PROVE  /\ job'[v] \in [op : {"enquiry"}, at : {"tell", "answer"}, row : enquiries']
               /\ job'[v].at = "answer" => job'[v].row \in received'
    <3>1. CASE v = w
      <4>1. job'[v] = [job[w] EXCEPT !.at = "answer"] BY <2>1, <2>2, <3>1
      <4>2. job'[v].row = job[w].row BY <4>1, <2>3
      <4>3. QED BY <4>1, <4>2, <2>1, <2>3
    <3>2. CASE v # w
      <4>1. job'[v] = job[v] BY <2>1, <2>2, <3>2
      <4>2. Telling(v) BY <2>4, <4>1 DEF Telling
      <4>3. QED BY <4>1, <4>2, <2>1 DEF Told
    <3>3. QED BY <3>1, <3>2
  <2>5. job' = [v \in Workers |-> job'[v]] BY <2>1, <2>2
  <2>6. EnquiryIsTold' BY <2>1, <2>3 DEF Told, EnquiryIsTold
  <2>7. QED BY <2>4, <2>5, <2>6 DEF Told
<1>14. ASSUME NEW w \in Workers, AnswerEnquiry(w) PROVE Told'
  <2>1. /\ Telling(w) /\ job[w].at = "answer" /\ thanked' = thanked \cup {job[w].row}
        /\ job' = [job EXCEPT ![w] = Idle] /\ UNCHANGED <<enquiries, received>>
    BY <1>14 DEF AnswerEnquiry, At, Telling, End
  <2>2. job = [v \in Workers |-> job[v]] BY DEF Told
  <2>3. EnquiryIsTold' BY <2>1 DEF Told, EnquiryIsTold
  <2>4. ASSUME NEW v \in Workers, Telling(v)'
        PROVE  /\ job'[v] \in [op : {"enquiry"}, at : {"tell", "answer"}, row : enquiries']
               /\ job'[v].at = "answer" => job'[v].row \in received'
    <3>1. v # w BY <2>4, <2>1, <2>2 DEF Telling, Idle
    <3>2. job'[v] = job[v] BY <2>1, <2>2, <3>1
    <3>3. Telling(v) BY <2>4, <3>2 DEF Telling
    <3>4. QED BY <3>2, <3>3, <2>1 DEF Told
  <2>5. job' = [v \in Workers |-> job'[v]] BY <2>1, <2>2
  <2>6. QED BY <2>3, <2>4, <2>5 DEF Told
<1>20. ASSUME NEW w \in Workers, ReadDraft(w) PROVE Told'
  <2>1. UNCHANGED <<enquiries, received, thanked>> BY <1>20 DEF ReadDraft
  <2>2. CASE draft = Nothing
    <3>1. End(w) BY <1>20, <2>2 DEF ReadDraft
    <3>2. QED BY <2>1, <3>1, <1>6
  <2>3. CASE draft # Nothing
    <3>1. PICK j : j.op = "publish" /\ job' = [job EXCEPT ![w] = j]
      BY <1>20, <2>3 DEF ReadDraft
    <3>2. QED BY <2>1, <3>1, NothingToTellOf
  <2>4. QED BY <2>2, <2>3
<1>15. ASSUME NEW a \in Addresses, Correct(a) PROVE Told'
  BY <1>15, ToldStays DEF Correct
<1>16. ASSUME NEW pod \in Pods, CrashPod(pod) PROVE Told'
  <2> DEFINE S == {w \in Workers : PodOf[w] = pod}
  <2>1. /\ job' = [w \in Workers |-> IF PodOf[w] = pod THEN Idle ELSE job[w]]
        /\ UNCHANGED <<enquiries, received, thanked>>
    BY <1>16 DEF CrashPod
  <2>2. job' = [w \in Workers |-> IF w \in S THEN job'[w] ELSE job[w]] BY <2>1
  <2>3. \A w \in S : ~Telling(w)' BY <2>1 DEF Telling, Idle
  <2>4. S \in SUBSET Workers OBVIOUS
  <2> HIDE DEF S
  <2>5. QED BY <2>1, <2>2, <2>3, <2>4, NothingToTell
<1>17. QED
  BY <1>1, <1>2, <1>3, <1>4, <1>5, <1>7, <1>8, <1>9, <1>10, <1>11, <1>12, <1>13, <1>14,
     <1>15, <1>16, <1>19, <1>20
  DEF Next

\* Thanked means stored and announced: see EnquiryIsTold.
THEOREM IntakeTells == Spec => []EnquiryIsTold
<1>1. Init => Told BY DEF Init, Told, Telling, Idle, EnquiryIsTold
<1>2. Told /\ [Next]_vars => Told' BY StepTells
<1>3. Told => EnquiryIsTold BY DEF Told
<1>4. QED BY <1>1, <1>2, <1>3, PTL DEF Spec

-----------------------------------------------------------------------------
\* The cache of one process

\* A Map: every key once.
Mapping(c) ==
  /\ \E S : c \in Seq(S)
  /\ \A i, j \in DOMAIN c : c[i].key = c[j].key => i = j

\* The entries of c are entries of d.
Within(c, d) == \A i \in DOMAIN c : \E j \in DOMAIN d : c[i] = d[j]

\* Dropping a key leaves a map without it.
LEMMA WithoutKey ==
  ASSUME NEW c, Mapping(c), NEW key
  PROVE  /\ Mapping(Without(c, key)) /\ Within(Without(c, key), c)
         /\ \A i \in DOMAIN Without(c, key) : Without(c, key)[i].key # key
<1> DEFINE place == {i \in DOMAIN c : c[i].key = key}
           d == Without(c, key)
<1>1. PICK S : c \in Seq(S) BY DEF Mapping
<1>2. Len(c) \in Nat /\ DOMAIN c = 1 .. Len(c) /\ \A i \in 1 .. Len(c) : c[i] \in S BY <1>1
<1>3. CASE place = {}
  <2>1. d = c BY <1>3 DEF Without
  <2>2. \A i \in DOMAIN c : c[i].key # key BY <1>3
  <2>3. QED BY <2>1, <2>2 DEF Within
<1>4. CASE place # {}
  <2>1. PICK k : k = (CHOOSE i \in place : TRUE) OBVIOUS
  <2>2. k \in place BY <1>4, <2>1
  <2>3. k \in 1 .. Len(c) /\ c[k].key = key BY <2>2, <1>2
  <2>4. d = [i \in 1 .. Len(c) - 1 |-> IF i < k THEN c[i] ELSE c[i + 1]]
    BY <1>4, <2>1 DEF Without
  <2> HIDE DEF d, place
  <2>5. Len(c) - 1 \in Nat BY <1>2, <2>3
  <2>6. \A i \in 1 .. Len(c) - 1 : i + 1 \in 1 .. Len(c) /\ i \in 1 .. Len(c) BY <1>2
  <2>7. \A i \in 1 .. Len(c) - 1 : d[i] = c[IF i < k THEN i ELSE i + 1] BY <2>4
  <2>8. d \in Seq(S)
    <3>1. \A i \in 1 .. Len(c) - 1 : d[i] \in S BY <2>7, <2>6, <1>2
    <3>2. d \in [1 .. Len(c) - 1 -> S] BY <3>1, <2>4
    <3>3. QED BY <3>2, <2>5
  <2>9. DOMAIN d = 1 .. Len(c) - 1 BY <2>4
  <2>10. \A i \in DOMAIN d : (IF i < k THEN i ELSE i + 1) \in DOMAIN c \ {k}
    BY <2>9, <2>6, <1>2, <2>3
  <2>11. ASSUME NEW i \in DOMAIN d, NEW j \in DOMAIN d, d[i].key = d[j].key PROVE i = j
    <3>1. PICK x, y : /\ x = (IF i < k THEN i ELSE i + 1) /\ y = (IF j < k THEN j ELSE j + 1)
                      /\ x \in DOMAIN c /\ y \in DOMAIN c
      BY <2>10
    <3>2. c[x].key = c[y].key BY <2>7, <2>9, <2>11, <3>1
    <3>3. x = y BY <3>1, <3>2 DEF Mapping
    <3>4. QED BY <3>1, <3>3, <2>9, <2>3, <1>2
  <2>12. \A i \in DOMAIN d : d[i].key # key
    <3> SUFFICES ASSUME NEW i \in DOMAIN d PROVE d[i].key # key OBVIOUS
    <3>1. PICK x : x = (IF i < k THEN i ELSE i + 1) /\ x \in DOMAIN c /\ x # k BY <2>10
    <3>2. d[i] = c[x] BY <2>7, <2>9, <3>1
    <3>3. k \in DOMAIN c BY <2>3, <1>2
    <3>4. QED BY <3>1, <3>2, <3>3, <2>3 DEF Mapping
  <2>13. Within(d, c)
    <3> SUFFICES ASSUME NEW i \in DOMAIN d PROVE \E j \in DOMAIN c : d[i] = c[j] BY DEF Within
    <3>1. PICK x : x = (IF i < k THEN i ELSE i + 1) /\ x \in DOMAIN c BY <2>10
    <3>2. d[i] = c[x] BY <2>7, <2>9, <3>1
    <3>3. QED BY <3>1, <3>2
  <2>14. QED BY <2>8, <2>11, <2>12, <2>13 DEF Mapping, d
<1>5. QED BY <1>3, <1>4

\* A hit only moves.
LEMMA TouchedKeeps ==
  ASSUME NEW c, Mapping(c), NEW key, \E i \in DOMAIN c : c[i].key = key
  PROVE  Mapping(Touched(c, key)) /\ Within(Touched(c, key), c)
<1> DEFINE d == Without(c, key)
           e == EntryOf(c, key)
<1>1. /\ Mapping(d) /\ Within(d, c) /\ \A i \in DOMAIN d : d[i].key # key BY WithoutKey
<1>2. PICK k \in DOMAIN c : c[k].key = key /\ e = c[k] BY DEF EntryOf
<1>3. Touched(c, key) = Append(d, e) BY DEF Touched
<1>4. PICK S : d \in Seq(S) BY <1>1 DEF Mapping
<1> HIDE DEF d, e
<1>5. d \in Seq(S \cup {e}) BY <1>4
<1>6. /\ Append(d, e) \in Seq(S \cup {e})
      /\ DOMAIN Append(d, e) = 1 .. Len(d) + 1 /\ DOMAIN d = 1 .. Len(d) /\ Len(d) \in Nat
      /\ \A i \in 1 .. Len(d) : Append(d, e)[i] = d[i]
      /\ Append(d, e)[Len(d) + 1] = e
  BY <1>5
<1>7. \A i \in DOMAIN Append(d, e) : i \in DOMAIN d \/ i = Len(d) + 1 BY <1>6
<1>8. ASSUME NEW i \in DOMAIN Append(d, e), NEW j \in DOMAIN Append(d, e),
             Append(d, e)[i].key = Append(d, e)[j].key
      PROVE  i = j
  <2>1. CASE i \in DOMAIN d /\ j \in DOMAIN d BY <2>1, <1>8, <1>6, <1>1 DEF Mapping
  <2>2. CASE i \in DOMAIN d /\ j = Len(d) + 1 BY <2>2, <1>8, <1>6, <1>1, <1>2
  <2>3. CASE i = Len(d) + 1 /\ j \in DOMAIN d BY <2>3, <1>8, <1>6, <1>1, <1>2
  <2>4. QED BY <2>1, <2>2, <2>3, <1>7
<1>9. ASSUME NEW i \in DOMAIN Append(d, e)
      PROVE  \E j \in DOMAIN c : Append(d, e)[i] = c[j]
  <2>1. CASE i \in DOMAIN d BY <2>1, <1>6, <1>1 DEF Within
  <2>2. CASE i = Len(d) + 1 BY <2>2, <1>6, <1>2
  <2>3. QED BY <2>1, <2>2, <1>7
<1>10. QED BY <1>3, <1>6, <1>8, <1>9 DEF Mapping, Within

\* What is stored is the new entry, or was there before.
LEMMA StoredKeeps ==
  ASSUME NEW c, Mapping(c), NEW entry, NEW max \in Nat
  PROVE  /\ Mapping(Stored(c, entry, max))
         /\ \A i \in DOMAIN Stored(c, entry, max) :
              \/ Stored(c, entry, max)[i] = entry
              \/ \E j \in DOMAIN c : Stored(c, entry, max)[i] = c[j]
<1>1. PICK S : c \in Seq(S) BY DEF Mapping
<1> DEFINE present == \E i \in DOMAIN c : c[i].key = entry.key
           d == IF present
                  THEN [i \in DOMAIN c |-> IF c[i].key = entry.key THEN entry ELSE c[i]]
                  ELSE Append(c, entry)
           T == S \cup {entry}
<1>2. c \in Seq(T) /\ Len(c) \in Nat /\ DOMAIN c = 1 .. Len(c) BY <1>1
<1>3. /\ d \in Seq(T)
      /\ \A i, j \in DOMAIN d : d[i].key = d[j].key => i = j
      /\ \A i \in DOMAIN d : d[i] = entry \/ \E j \in DOMAIN c : d[i] = c[j]
  <2>1. CASE present
    <3>1. d = [i \in DOMAIN c |-> IF c[i].key = entry.key THEN entry ELSE c[i]] BY <2>1
    <3> HIDE DEF d, present
    <3>2. \A i \in DOMAIN c : d[i] \in T /\ d[i].key = c[i].key BY <3>1, <1>2
    <3>3. d \in [1 .. Len(c) -> T] BY <3>1, <3>2, <1>2
    <3>4. d \in Seq(T) BY <3>3, <1>2
    <3>5. DOMAIN d = DOMAIN c BY <3>1
    <3>6. QED BY <3>1, <3>2, <3>4, <3>5 DEF Mapping
  <2>2. CASE ~present
    <3>1. d = Append(c, entry) BY <2>2
    <3>2. \A i \in DOMAIN c : c[i].key # entry.key BY <2>2
    <3> HIDE DEF d, present
    <3>3. /\ d \in Seq(T) /\ DOMAIN d = 1 .. Len(c) + 1
          /\ \A i \in DOMAIN c : d[i] = c[i]
          /\ d[Len(c) + 1] = entry
      BY <3>1, <1>2
    <3>4. \A i \in DOMAIN d : i \in DOMAIN c \/ i = Len(c) + 1 BY <3>3, <1>2
    <3>5. ASSUME NEW i \in DOMAIN d, NEW j \in DOMAIN d, d[i].key = d[j].key PROVE i = j
      <4>1. CASE i \in DOMAIN c /\ j \in DOMAIN c BY <4>1, <3>3, <3>5 DEF Mapping
      <4>2. CASE i = Len(c) + 1 /\ j \in DOMAIN c BY <4>2, <3>2, <3>3, <3>5
      <4>3. CASE i \in DOMAIN c /\ j = Len(c) + 1 BY <4>3, <3>2, <3>3, <3>5
      <4>4. QED BY <4>1, <4>2, <4>3, <3>4
    <3>6. QED BY <3>3, <3>4, <3>5
  <2>3. QED BY <2>1, <2>2
<1>4. Stored(c, entry, max)
        = IF Len(d) > max THEN SubSeq(d, Len(d) - max + 1, Len(d)) ELSE d
  BY DEF Stored
<1> HIDE DEF d
<1>5. CASE Len(d) > max
  <2> DEFINE m == Len(d) - max + 1
             s == SubSeq(d, m, Len(d))
  <2>1. /\ m \in 1 .. Len(d) + 1 /\ Len(d) \in Nat /\ DOMAIN d = 1 .. Len(d)
    BY <1>5, <1>3
  <2>2. s \in Seq(T) /\ Len(s) = max /\ \A i \in 1 .. Len(s) : s[i] = d[m + i - 1]
    <3> HIDE DEF m
    <3>1. \A i \in m .. Len(d) : d[i] \in T BY <2>1, <1>3
    <3>2. s \in Seq(T) BY <3>1, <2>1, <1>3, SubSeqProperties
    <3>3. Len(s) = Len(d) - m + 1 BY <2>1, <1>3, SubSeqProperties
    <3>4. \A i \in 1 .. Len(s) : s[i] = d[m + i - 1] BY <2>1, <3>3, <1>3, SubSeqProperties
    <3>5. Len(d) - m + 1 = max BY <2>1 DEF m
    <3>6. QED BY <3>2, <3>3, <3>4, <3>5
  <2>3. DOMAIN s = 1 .. max BY <2>2
  <2>4. \A i \in 1 .. max : m + i - 1 \in DOMAIN d BY <2>1, <1>5
  <2> HIDE DEF s
  <2>5. ASSUME NEW i \in DOMAIN s, NEW j \in DOMAIN s, s[i].key = s[j].key PROVE i = j
    <3>1. PICK x, y : x = m + i - 1 /\ y = m + j - 1 /\ x \in DOMAIN d /\ y \in DOMAIN d
      BY <2>3, <2>4
    <3>2. s[i] = d[x] /\ s[j] = d[y] BY <3>1, <2>2, <2>3
    <3>3. x = y BY <3>1, <3>2, <2>5, <1>3
    <3>4. i \in Int /\ j \in Int BY <2>3
    <3>5. m \in Int BY <2>1
    <3> HIDE DEF m
    <3>6. QED BY <3>1, <3>3, <3>4, <3>5
  <2>6. ASSUME NEW i \in DOMAIN s PROVE s[i] = entry \/ \E j \in DOMAIN c : s[i] = c[j]
    <3>1. PICK x : x = m + i - 1 /\ x \in DOMAIN d BY <2>3, <2>4
    <3>2. s[i] = d[x] BY <3>1, <2>2, <2>3
    <3>3. d[x] = entry \/ \E j \in DOMAIN c : d[x] = c[j] BY <3>1, <1>3
    <3> HIDE DEF m
    <3>4. QED BY <3>2, <3>3
  <2>7. Stored(c, entry, max) = s BY <1>4, <1>5 DEF s
  <2>8. QED BY <2>2, <2>5, <2>6, <2>7 DEF Mapping
<1>6. CASE ~(Len(d) > max) BY <1>3, <1>4, <1>6 DEF Mapping
<1>7. QED BY <1>5, <1>6
-----------------------------------------------------------------------------
\* How old an answer may be

\* Taken at a time, of an address that has been corrected or not.
InTime(a, time) == corrected[a] # -1 => time < corrected[a] + CacheTtl + Timeout

\* A venue that was found, from an answer before the correction.
Venue(a, version, resolved) ==
  version = 1 =>
    /\ a \in Addresses /\ resolved \in Nat /\ resolved <= elapsed
    /\ InTime(a, resolved)

\* An entry of a cache.
Entry(e) ==
  e.version = 1 =>
    /\ e.key \in Addresses
    /\ e.expiresAt \in Nat /\ e.expiresAt <= elapsed + CacheTtl
    /\ corrected[e.key] # -1 => e.expiresAt <= corrected[e.key] + CacheTtl + Timeout

\* What a request for a draft holds.
Asking(j) ==
  /\ j.at = "limit" => j.form \in Forms
  /\ j.at \in {"fetch", "reply"} =>
       j.form.address \in Addresses /\ j.asked \in Nat /\ j.asked <= elapsed
  /\ j.at = "reply" /\ j.version = 1 =>
       corrected[j.form.address] = -1 \/ j.asked <= corrected[j.form.address]
  /\ j.at = "insert" => Venue(j.form.address, j.version, j.resolved)

Dates ==
  /\ elapsed \in Nat
  /\ corrected = [a \in Addresses |-> corrected[a]]
  /\ \A a \in Addresses :
       corrected[a] = -1 \/ (corrected[a] \in Nat /\ corrected[a] <= elapsed)

Caches ==
  /\ cache = [pod \in Pods |-> cache[pod]]
  /\ \A pod \in Pods :
       Mapping(cache[pod]) /\ \A i \in DOMAIN cache[pod] : Entry(cache[pod][i])

Recent(w) == job[w].op = "draft" => Asking(job[w])

Askers == job = [w \in Workers |-> job[w]] /\ \A w \in Workers : Recent(w)

Drafted == draft # Nothing => Venue(draft.address, draft.version, draft.resolved)

Timely == Dates /\ Caches /\ Askers /\ Drafted

\* Time only adds to what is recent, and so does a correction, which is made now.
LEMMA TimePasses ==
  ASSUME Dates, elapsed' \in Nat, elapsed <= elapsed',
         \/ corrected' = corrected
         \/ \E a \in Addresses : corrected[a] = -1 /\ elapsed' = elapsed
                                 /\ corrected' = [corrected EXCEPT ![a] = elapsed]
  PROVE  /\ Dates'
         /\ \A a, version, resolved :
              Venue(a, version, resolved) => Venue(a, version, resolved)'
         /\ \A e : Entry(e) => Entry(e)'
         /\ \A j : Asking(j) => Asking(j)'
<1>1. CacheTtl \in Nat /\ CacheTtl > 0 /\ Timeout \in Nat BY IntakeAssumption
<1>2. \A a \in Addresses :
        \/ corrected'[a] = corrected[a]
        \/ corrected[a] = -1 /\ corrected'[a] = elapsed
  BY DEF Dates
<1>3. Dates' BY <1>2 DEF Dates
<1>4. ASSUME NEW a, NEW version, NEW resolved, Venue(a, version, resolved)
      PROVE  Venue(a, version, resolved)'
  BY <1>1, <1>2, <1>4 DEF Venue, InTime, Dates
<1>5. ASSUME NEW e, Entry(e) PROVE Entry(e)'
  BY <1>1, <1>2, <1>5 DEF Entry, Dates
<1>6. ASSUME NEW j, Asking(j) PROVE Asking(j)'
  <2>1. j.at = "insert" => Venue(j.form.address, j.version, j.resolved)'
    BY <1>4, <1>6 DEF Asking
  <2>2. j.at \in {"fetch", "reply"} =>
          j.form.address \in Addresses /\ j.asked \in Nat /\ j.asked <= elapsed'
    BY <1>6 DEF Asking, Dates
  <2>3. j.at = "reply" /\ j.version = 1 =>
          corrected'[j.form.address] = -1 \/ j.asked <= corrected'[j.form.address]
    BY <1>6, <1>2, <2>2 DEF Asking, Dates
  <2>4. j.at = "limit" => j.form \in Forms BY <1>6 DEF Asking
  <2>5. QED BY <2>1, <2>2, <2>3, <2>4 DEF Asking
<1>7. QED BY <1>3, <1>4, <1>5, <1>6

\* A step that gives some requests other jobs, and touches nothing else of this.
LEMMA OtherJobs ==
  ASSUME Timely, NEW S \in SUBSET Workers,
         job' = [w \in Workers |-> IF w \in S THEN job'[w] ELSE job[w]],
         \A w \in S : Recent(w)',
         UNCHANGED <<elapsed, corrected>>
  PROVE  Dates' /\ Askers'
<1>1. Dates' /\ \A j : Asking(j) => Asking(j)'
  <2>1. Dates /\ elapsed' \in Nat /\ elapsed <= elapsed' BY DEF Timely, Dates
  <2>2. QED BY <2>1, TimePasses
<1>2. \A w \in Workers \ S : job'[w] = job[w] OBVIOUS
<1>3. ASSUME NEW w \in Workers PROVE Recent(w)'
  <2>1. CASE w \in S BY <2>1
  <2>2. CASE w \notin S
    <3>1. job'[w] = job[w] BY <2>2, <1>2
    <3>2. Recent(w) BY DEF Timely, Askers
    <3>3. PICK j : j = job[w] OBVIOUS
    <3>4. j.op = "draft" => Asking(j)' BY <3>2, <3>3, <1>1 DEF Recent
    <3>5. job'[w] = j BY <3>1, <3>3
    <3>6. QED BY <3>4, <3>5 DEF Recent, Asking, Venue, InTime
  <2>3. QED BY <2>1, <2>2
<1>4. job' = [w \in Workers |-> job'[w]] OBVIOUS
<1>5. QED BY <1>1, <1>3, <1>4 DEF Askers

LEMMA OneJob ==
  ASSUME Timely, NEW v \in Workers, NEW j, job' = [job EXCEPT ![v] = j],
         j.op = "draft" => Asking(j), UNCHANGED <<elapsed, corrected>>
  PROVE  Dates' /\ Askers'
<1>1. job = [w \in Workers |-> job[w]] BY DEF Timely, Askers
<1>2. job'[v] = j BY <1>1
<1>3. job' = [w \in Workers |-> IF w \in {v} THEN job'[w] ELSE job[w]] BY <1>1, <1>2
<1>4. Recent(v)' BY <1>2 DEF Recent, Asking, Venue, InTime
<1>5. QED BY <1>3, <1>4, OtherJobs

LEMMA OneCache ==
  ASSUME Timely, NEW pod \in Pods, NEW c, cache' = [cache EXCEPT ![pod] = c],
         Mapping(c), \A i \in DOMAIN c : Entry(c[i]), UNCHANGED <<elapsed, corrected>>
  PROVE  Caches'
<1>1. cache = [p \in Pods |-> cache[p]] BY DEF Timely, Caches
<1>2. \A e : Entry(e) => Entry(e)' BY DEF Entry
<1>3. ASSUME NEW p \in Pods
      PROVE  (Mapping(cache[p]) /\ \A i \in DOMAIN cache[p] : Entry(cache[p][i]))'
  <2>1. PICK d : d = IF p = pod THEN c ELSE cache[p] OBVIOUS
  <2>2. cache'[p] = d BY <1>1, <2>1
  <2>3. Mapping(d) /\ \A i \in DOMAIN d : Entry(d[i]) BY <2>1 DEF Timely, Caches
  <2>4. \A i \in DOMAIN d : Entry(d[i])' BY <2>3, <1>2
  <2>5. QED BY <2>2, <2>3, <2>4 DEF Mapping, Entry
<1>4. cache' = [p \in Pods |-> cache'[p]] BY <1>1
<1>5. QED BY <1>3, <1>4 DEF Caches

LEMMA CachesStay ==
  ASSUME Timely, cache' = cache, \A e : Entry(e) => Entry(e)'
  PROVE  Caches'
<1>1. ASSUME NEW p \in Pods
      PROVE  (Mapping(cache[p]) /\ \A i \in DOMAIN cache[p] : Entry(cache[p][i]))'
  <2>1. PICK d : d = cache[p] OBVIOUS
  <2>2. Mapping(d) /\ \A i \in DOMAIN d : Entry(d[i])' BY <2>1 DEF Timely, Caches
  <2>3. cache'[p] = d BY <2>1
  <2>4. QED BY <2>2, <2>3 DEF Mapping, Entry
<1>2. QED BY <1>1 DEF Caches, Timely

LEMMA DraftStays ==
  ASSUME Timely, draft' \in {draft, Nothing},
         \A a, version, resolved :
           Venue(a, version, resolved) => Venue(a, version, resolved)'
  PROVE  Drafted'
<1>1. CASE draft' = Nothing BY <1>1 DEF Drafted
<1>2. CASE draft' = draft /\ draft # Nothing
  <2>1. Venue(draft.address, draft.version, draft.resolved) BY <1>2 DEF Timely, Drafted
  <2>2. PICK a, version, resolved :
          a = draft.address /\ version = draft.version /\ resolved = draft.resolved
    OBVIOUS
  <2>3. Venue(a, version, resolved)' BY <2>1, <2>2
  <2>4. QED BY <2>2, <2>3, <1>2 DEF Drafted, Venue, InTime
<1>3. QED BY <1>1, <1>2

\* The clock, and the service that corrects an address.
LEMMA WorldStays ==
  ASSUME Timely, elapsed' \in Nat, elapsed <= elapsed', UNCHANGED <<job, cache, draft>>,
         \/ corrected' = corrected
         \/ \E a \in Addresses : corrected[a] = -1 /\ elapsed' = elapsed
                                 /\ corrected' = [corrected EXCEPT ![a] = elapsed]
  PROVE  Timely'
<1>1. Dates BY DEF Timely
<1>2. /\ Dates'
      /\ \A a, version, resolved :
           Venue(a, version, resolved) => Venue(a, version, resolved)'
      /\ \A e : Entry(e) => Entry(e)'
      /\ \A j : Asking(j) => Asking(j)'
  BY <1>1, TimePasses
<1>3. Caches' BY <1>2, CachesStay
<1>4. Drafted' BY <1>2, DraftStays
<1>5. Askers'
  <2>1. ASSUME NEW w \in Workers PROVE Recent(w)'
    <3>1. Recent(w) BY DEF Timely, Askers
    <3>2. PICK j : j = job[w] OBVIOUS
    <3>3. j.op = "draft" => Asking(j)' BY <1>2, <3>1, <3>2 DEF Recent
    <3>4. job'[w] = j BY <3>2
    <3>5. QED BY <3>3, <3>4 DEF Recent, Asking, Venue, InTime
  <2>2. QED BY <2>1 DEF Askers, Timely
<1>6. QED BY <1>2, <1>3, <1>4, <1>5 DEF Timely

\* A request gets another job, and nothing else happens.
LEMMA JobOnly ==
  ASSUME Timely, NEW v \in Workers, NEW j, job' = [job EXCEPT ![v] = j],
         j.op = "draft" => Asking(j), draft' \in {draft, Nothing},
         UNCHANGED <<elapsed, corrected, cache>>
  PROVE  Timely'
<1>1. Dates' /\ Askers' BY OneJob
<1>2. \A e : Entry(e) => Entry(e)' BY DEF Entry
<1>3. \A a, version, resolved :
        Venue(a, version, resolved) => Venue(a, version, resolved)'
  BY DEF Venue, InTime
<1>4. Caches' BY <1>2, CachesStay
<1>5. Drafted' BY <1>3, DraftStays
<1>6. QED BY <1>1, <1>4, <1>5 DEF Timely

\* A request gets another job, and the cache of its process changes.
LEMMA JobAndCache ==
  ASSUME Timely, NEW v \in Workers, NEW j, job' = [job EXCEPT ![v] = j],
         j.op = "draft" => Asking(j), NEW c, cache' = [cache EXCEPT ![PodOf[v]] = c],
         Mapping(c), \A i \in DOMAIN c : Entry(c[i]),
         UNCHANGED <<elapsed, corrected, draft>>
  PROVE  Timely'
<1>1. Dates' /\ Askers' BY OneJob
<1>2. PodOf[v] \in Pods BY RateAssumption
<1>3. Caches' BY <1>2, OneCache
<1>4. \A a, version, resolved :
        Venue(a, version, resolved) => Venue(a, version, resolved)'
  BY DEF Venue, InTime
<1>5. Drafted' BY <1>4, DraftStays
<1>6. QED BY <1>1, <1>3, <1>5 DEF Timely

LEMMA StepTimely == Timely /\ [Next]_vars => Timely'
<1> SUFFICES ASSUME Timely, [Next]_vars PROVE Timely' OBVIOUS
<1> USE DEF tables, announcing
<1>0. /\ elapsed \in Nat
      /\ CacheTtl \in Nat /\ CacheTtl > 0 /\ CacheMax \in Nat /\ Timeout \in Nat
      /\ \A form \in Forms : form.venue = Absent => form.address \in Addresses
      /\ \A w \in Workers : job[w].op = "draft" => Asking(job[w])
  BY IntakeAssumption DEF Timely, Dates, Askers, Recent
<1>1. CASE UNCHANGED vars
  <2>1. UNCHANGED <<elapsed, corrected, job, cache, draft>>
    BY <1>1 DEF vars, limiterVars, intakeVars
  <2>2. QED BY <2>1, <1>0, WorldStays
<1>2. CASE LimiterStep /\ UNCHANGED intakeVars
  <2>1. elapsed' = elapsed \/ elapsed' = elapsed + 1
    BY <1>2 DEF LimiterStep, NoScript, Decide, Outage, Restart, Tick, SetClock,
              Skew, Synchronise, Expire
  <2>2. elapsed' \in Nat /\ elapsed <= elapsed' BY <2>1, <1>0
  <2>3. UNCHANGED <<corrected, job, cache, draft>> BY <1>2 DEF intakeVars
  <2>4. QED BY <2>2, <2>3, WorldStays
<1>3. ASSUME NEW w \in Workers, NEW form \in Forms, StartDraft(w, form) PROVE Timely'
  <2> DEFINE j == [op |-> "draft", at |-> "limit", form |-> form]
  <2>1. job' = [job EXCEPT ![w] = j] /\ UNCHANGED <<elapsed, corrected, cache, draft>>
    BY <1>3 DEF StartDraft, Enter, Ask
  <2>2. Asking(j) BY DEF Asking
  <2> HIDE DEF j
  <2>3. QED BY <2>1, <2>2, JobOnly
<1>4. ASSUME NEW w \in Workers, NEW body \in Bodies, StartEnquiry(w, body) PROVE Timely'
  <2> DEFINE j == [op |-> "enquiry", at |-> "limit", body |-> body]
  <2>1. job' = [job EXCEPT ![w] = j] /\ UNCHANGED <<elapsed, corrected, cache, draft>>
    BY <1>4 DEF StartEnquiry, Enter, Ask
  <2>2. j.op # "draft" OBVIOUS
  <2> HIDE DEF j
  <2>3. QED BY <2>1, <2>2, JobOnly
<1>5. ASSUME NEW w \in Workers, StartPublish(w) PROVE Timely'
  <2> DEFINE j == [op |-> "publish", at |-> "limit"]
  <2>1. job' = [job EXCEPT ![w] = j] /\ UNCHANGED <<elapsed, corrected, cache, draft>>
    BY <1>5 DEF StartPublish, Enter, Ask
  <2>2. j.op # "draft" OBVIOUS
  <2> HIDE DEF j
  <2>3. QED BY <2>1, <2>2, JobOnly
<1>6. Idle.op # "draft" BY DEF Idle
<1>7. ASSUME NEW w \in Workers,
             Refused(w) \/ RefuseBrief(w) \/ Unavailable(w) \/ AnswerEnquiry(w)
      PROVE  Timely'
  <2>1. job' = [job EXCEPT ![w] = Idle] /\ UNCHANGED <<elapsed, corrected, cache, draft>>
    BY <1>7 DEF Refused, RefuseBrief, Unavailable, AnswerEnquiry, End, limiterRest
  <2>2. QED BY <2>1, <1>6, JobOnly
<1>19. ASSUME NEW w \in Workers, Publish(w) PROVE Timely'
  <2>1. draft' = draft \/ draft' = Nothing BY <1>19 DEF Publish
  <2>2. End(w) /\ UNCHANGED <<elapsed, corrected, cache>> BY <1>19 DEF Publish, limiterRest
  <2>3. job' = [job EXCEPT ![w] = Idle] /\ UNCHANGED <<elapsed, corrected, cache>>
    BY <2>2 DEF End, limiterRest
  <2>4. QED BY <2>1, <2>3, <1>6, JobOnly
<1>20. ASSUME NEW w \in Workers, ReadDraft(w) PROVE Timely'
  <2>1. UNCHANGED <<elapsed, corrected, cache, draft>> BY <1>20 DEF ReadDraft, limiterRest
  <2>2. CASE draft = Nothing
    <3>1. job' = [job EXCEPT ![w] = Idle] BY <1>20, <2>2 DEF ReadDraft, End
    <3>2. QED BY <2>1, <3>1, <1>6, JobOnly
  <2>3. CASE draft # Nothing
    <3>1. PICK j : j.op = "publish" /\ job' = [job EXCEPT ![w] = j]
      BY <1>20, <2>3 DEF ReadDraft
    <3>2. QED BY <2>1, <3>1, JobOnly
  <2>4. QED BY <2>2, <2>3
<1>8. ASSUME NEW w \in Workers, TakeCoordinates(w) PROVE Timely'
  <2> DEFINE j == [op |-> "draft", at |-> "insert", form |-> job[w].form,
                   place |-> job[w].form.venue, version |-> 0, resolved |-> elapsed]
  <2>1. job' = [job EXCEPT ![w] = j] /\ UNCHANGED <<elapsed, corrected, cache, draft>>
    BY <1>8 DEF TakeCoordinates, Resolve, limiterVars
  <2>2. Asking(j) BY DEF Asking, Venue
  <2> HIDE DEF j
  <2>3. QED BY <2>1, <2>2, JobOnly
<1>9. ASSUME NEW w \in Workers, Lookup(w) PROVE Timely'
  <2>1. PICK a, c : a = job[w].form.address /\ c = cache[PodOf[w]] OBVIOUS
  <2>2. PodOf[w] \in Pods BY RateAssumption
  <2>3. Mapping(c) /\ \A i \in DOMAIN c : Entry(c[i]) BY <2>1, <2>2 DEF Timely, Caches
  <2>4. job[w].form \in Forms /\ a \in Addresses
    BY <1>0, <1>9, <2>1 DEF Lookup, At, Asking
  <2>5. cache = [p \in Pods |-> cache[p]] BY DEF Timely, Caches
  <2>6. UNCHANGED <<elapsed, corrected, draft>> BY <1>9 DEF Lookup, limiterRest
  <2>7. CASE Cached(c, a, elapsed)
    <3> DEFINE e == EntryOf(c, a)
               j == [op |-> "draft", at |-> "insert", form |-> job[w].form,
                     place |-> e.point, version |-> e.version, resolved |-> elapsed]
    <3>1. PICK d : d = Touched(c, a) OBVIOUS
    <3>2. /\ job' = [job EXCEPT ![w] = j]
          /\ cache' = [cache EXCEPT ![PodOf[w]] = Touched(@, a)]
      BY <1>9, <2>1, <2>7 DEF Lookup, Resolve
    <3>3. cache' = [cache EXCEPT ![PodOf[w]] = d] BY <3>1, <3>2, <2>1
    <3>4. PICK i \in DOMAIN c : c[i].key = a /\ c[i].expiresAt > elapsed
      BY <2>7 DEF Cached
    <3>5. Mapping(d) /\ Within(d, c) BY <2>3, <3>1, <3>4, TouchedKeeps
    <3>6. \A k \in DOMAIN d : Entry(d[k]) BY <3>5, <2>3 DEF Within
    <3>7. e = c[i]
      <4>1. \A k \in DOMAIN c : c[k].key = a => k = i BY <2>3, <3>4 DEF Mapping
      <4>2. QED BY <4>1, <3>4 DEF EntryOf
    <3>8. Entry(e) /\ e.key = a /\ e.expiresAt > elapsed BY <3>7, <3>4, <2>3
    <3> HIDE DEF e
    <3>9. Venue(a, e.version, elapsed)
      <4>1. corrected[a] = -1 \/ corrected[a] \in Nat BY <2>4 DEF Timely, Dates
      <4>2. QED BY <3>8, <4>1, <1>0, <2>4 DEF Entry, Venue, InTime
    <3>10. Asking(j) BY <3>9, <2>1 DEF Asking
    <3> HIDE DEF j
    <3>11. QED BY <3>2, <3>3, <3>5, <3>6, <3>10, <2>6, JobAndCache
  <2>8. CASE ~Cached(c, a, elapsed)
    <3>1. PICK d : d = Without(c, a) OBVIOUS
    <3>2. cache' = [cache EXCEPT ![PodOf[w]] = Without(@, a)] BY <1>9, <2>1, <2>8 DEF Lookup
    <3>3. cache' = [cache EXCEPT ![PodOf[w]] = d] BY <3>1, <3>2, <2>1
    <3>4. Mapping(d) /\ Within(d, c) BY <2>3, <3>1, WithoutKey
    <3>5. \A k \in DOMAIN d : Entry(d[k]) BY <3>4, <2>3 DEF Within
    <3>6. PICK j : job' = [job EXCEPT ![w] = j] /\ (j.op = "draft" => Asking(j))
      <4>1. CASE a \in Vague
        <5>1. job' = [job EXCEPT ![w] = Idle] BY <1>9, <2>1, <2>8, <4>1 DEF Lookup, End
        <5>2. QED BY <5>1, <1>6
      <4>2. CASE a \notin Vague
        <5> DEFINE j == [op |-> "draft", at |-> "fetch", form |-> job[w].form,
                         asked |-> elapsed]
        <5>1. job' = [job EXCEPT ![w] = j] BY <1>9, <2>1, <2>8, <4>2 DEF Lookup
        <5>2. Asking(j) BY <2>1, <2>4, <1>0 DEF Asking
        <5> HIDE DEF j
        <5>3. QED BY <5>1, <5>2
      <4>3. QED BY <4>1, <4>2
    <3>7. QED BY <3>3, <3>4, <3>5, <3>6, <2>6, JobAndCache
  <2>9. QED BY <2>7, <2>8
<1>10. ASSUME NEW w \in Workers, CensusReads(w) PROVE Timely'
  <2> DEFINE a == job[w].form.address
             j == [op |-> "draft", at |-> "reply", form |-> job[w].form,
                   version |-> IF corrected[a] = -1 THEN 1 ELSE 2, asked |-> job[w].asked]
  <2>1. job' = [job EXCEPT ![w] = j] /\ UNCHANGED <<elapsed, corrected, cache, draft>>
    BY <1>10 DEF CensusReads, limiterVars
  <2>2. a \in Addresses /\ job[w].asked \in Nat /\ job[w].asked <= elapsed
    BY <1>0, <1>10 DEF CensusReads, At, Asking
  <2>3. Asking(j) BY <2>2 DEF Asking
  <2> HIDE DEF j
  <2>4. QED BY <2>1, <2>3, JobOnly
<1>11. ASSUME NEW w \in Workers, Fill(w) PROVE Timely'
  <2>1. PICK a, c, version, result :
          /\ a = job[w].form.address /\ c = cache[PodOf[w]] /\ version = job[w].version
          /\ result = ParseCensusResponse(Census[a][version])
    OBVIOUS
  <2>2. UNCHANGED <<elapsed, corrected, draft>> BY <1>11 DEF Fill, limiterRest
  <2>3. CASE ~result.ok
    <3>1. job' = [job EXCEPT ![w] = Idle] /\ cache' = cache
      BY <1>11, <2>1, <2>3 DEF Fill, End
    <3>2. QED BY <3>1, <2>2, <1>6, JobOnly
  <2>4. CASE result.ok
    <3> DEFINE e == [point |-> result.point, version |-> version, key |-> a,
                     expiresAt |-> elapsed + CacheTtl]
               j == [op |-> "draft", at |-> "insert", form |-> job[w].form,
                     place |-> result.point, version |-> version, resolved |-> elapsed]
    <3>0. /\ cache' = [cache EXCEPT ![PodOf[w]] = Stored(@, e, CacheMax)]
          /\ Resolve(w, result.point, version)
      <4>1. ParseCensusResponse(Census[job[w].form.address][job[w].version]) = result
        BY <2>1
      <4>2. QED BY <1>11, <2>1, <2>4, <4>1, Zenon DEF Fill
    <3>1. job' = [job EXCEPT ![w] = j] BY <3>0 DEF Resolve
    <3>2. /\ a \in Addresses /\ job[w].asked \in Nat /\ elapsed <= job[w].asked + Timeout
          /\ version = 1 => corrected[a] = -1 \/ job[w].asked <= corrected[a]
      BY <1>0, <1>11, <2>1 DEF Fill, At, Asking
    <3>3. corrected[a] = -1 \/ corrected[a] \in Nat BY <3>2 DEF Timely, Dates
    <3>4. Entry(e) BY <3>2, <3>3, <1>0 DEF Entry
    <3>5. Venue(a, version, elapsed) BY <3>2, <3>3, <1>0 DEF Venue, InTime
    <3>6. Asking(j) BY <3>5, <2>1 DEF Asking
    <3> HIDE DEF e, j
    <3>7. PICK d : d = Stored(c, e, CacheMax) OBVIOUS
    <3>8. cache' = [cache EXCEPT ![PodOf[w]] = d] BY <3>0, <3>7, <2>1
    <3>9. PodOf[w] \in Pods BY RateAssumption
    <3>10. Mapping(c) /\ \A i \in DOMAIN c : Entry(c[i]) BY <2>1, <3>9 DEF Timely, Caches
    <3>11. /\ Mapping(d)
           /\ \A i \in DOMAIN d : d[i] = e \/ \E k \in DOMAIN c : d[i] = c[k]
      BY <3>7, <3>10, <1>0, StoredKeeps
    <3>12. \A i \in DOMAIN d : Entry(d[i]) BY <3>11, <3>10, <3>4
    <3>13. Mapping(d) /\ UNCHANGED <<elapsed, corrected, draft>> BY <3>11, <2>2
    <3>14. j.op = "draft" => Asking(j) BY <3>6
    <3>15. QED BY <3>1, <3>14, <3>8, <3>13, <3>12, JobAndCache, Zenon
  <2>5. QED BY <2>3, <2>4
<1>12. ASSUME NEW w \in Workers, CreateDraft(w) PROVE Timely'
  <2>1. job' = [job EXCEPT ![w] = Idle] /\ UNCHANGED <<elapsed, corrected, cache>>
    BY <1>12 DEF CreateDraft, End, limiterRest
  <2>2. CASE draft' = draft BY <2>1, <2>2, <1>6, JobOnly
  <2>3. CASE draft' # draft
    <3>1. PICK a, version, resolved :
            a = job[w].form.address /\ version = job[w].version /\ resolved = job[w].resolved
      OBVIOUS
    <3>2. draft' = [point |-> job[w].place, address |-> a, version |-> version,
                    resolved |-> resolved, gig |-> gigs + 1]
      BY <1>12, <2>3, <3>1 DEF CreateDraft
    <3>3. Venue(a, version, resolved) BY <1>0, <1>12, <3>1 DEF CreateDraft, At, Asking
    <3>4. Venue(a, version, resolved)' BY <3>3, <2>1 DEF Venue, InTime
    <3>5. Drafted' BY <3>2, <3>4 DEF Drafted, Venue, InTime
    <3>6. Dates' /\ Askers' BY <2>1, <1>6, OneJob
    <3>7. \A e : Entry(e) => Entry(e)' BY <2>1 DEF Entry
    <3>8. Caches' BY <2>1, <3>7, CachesStay
    <3>9. QED BY <3>5, <3>6, <3>8 DEF Timely
  <2>4. QED BY <2>2, <2>3
<1>13. ASSUME NEW w \in Workers, AskEnquiry(w) PROVE Timely'
  <2> DEFINE j == [op |-> "enquiry", at |-> "own", body |-> job[w].body]
  <2>1. job' = [job EXCEPT ![w] = j] /\ UNCHANGED <<elapsed, corrected, cache, draft>>
    BY <1>13 DEF AskEnquiry, limiterRest
  <2>2. j.op # "draft" OBVIOUS
  <2> HIDE DEF j
  <2>3. QED BY <2>1, <2>2, JobOnly
<1>14. ASSUME NEW w \in Workers, CreateEnquiry(w) PROVE Timely'
  <2>1. UNCHANGED <<elapsed, corrected, cache, draft>> BY <1>14 DEF CreateEnquiry, limiterRest
  <2>2. PICK j : job' = [job EXCEPT ![w] = j] /\ j.op # "draft"
    <3>1. CASE Accepts(job[w].body) /\ TableTakes(NormaliseEnquiry(job[w].body))
      <4> DEFINE j == [op |-> "enquiry", at |-> "tell", row |-> Cardinality(enquiries) + 1]
      <4>1. job' = [job EXCEPT ![w] = j] BY <1>14, <3>1 DEF CreateEnquiry
      <4>2. j.op # "draft" OBVIOUS
      <4> HIDE DEF j
      <4>3. QED BY <4>1, <4>2
    <3>2. CASE ~(Accepts(job[w].body) /\ TableTakes(NormaliseEnquiry(job[w].body)))
      <4>1. job' = [job EXCEPT ![w] = Idle] BY <1>14, <3>2 DEF CreateEnquiry, End
      <4>2. QED BY <4>1, <1>6
    <3>3. QED BY <3>1, <3>2
  <2>3. QED BY <2>1, <2>2, JobOnly
<1>15. ASSUME NEW w \in Workers, TellEnquiry(w) PROVE Timely'
  <2>1. PICK j : j = [job[w] EXCEPT !.at = "answer"] OBVIOUS
  <2>2. job' = [job EXCEPT ![w] = j] /\ UNCHANGED <<elapsed, corrected, cache, draft>>
    BY <1>15, <2>1 DEF TellEnquiry, limiterVars
  <2>3. job[w].op = "enquiry" BY <1>15 DEF TellEnquiry, At
  <2>4. j.op # "draft" BY <2>1, <2>3
  <2>5. QED BY <2>2, <2>4, JobOnly
<1>16. ASSUME NEW a \in Addresses, Correct(a) PROVE Timely'
  <2>1. /\ corrected[a] = -1 /\ corrected' = [corrected EXCEPT ![a] = elapsed]
        /\ UNCHANGED <<elapsed, job, cache, draft>>
    BY <1>16 DEF Correct, limiterVars
  <2>2. elapsed' \in Nat /\ elapsed <= elapsed' BY <2>1, <1>0
  <2>3. \E b \in Addresses : corrected[b] = -1 /\ elapsed' = elapsed
                             /\ corrected' = [corrected EXCEPT ![b] = elapsed]
    BY <2>1
  <2>4. UNCHANGED <<job, cache, draft>> BY <2>1
  <2>5. QED BY <2>2, <2>3, <2>4, WorldStays
<1>17. ASSUME NEW pod \in Pods, CrashPod(pod) PROVE Timely'
  <2> DEFINE S == {w \in Workers : PodOf[w] = pod}
  <2>1. /\ job' = [w \in Workers |-> IF PodOf[w] = pod THEN Idle ELSE job[w]]
        /\ cache' = [cache EXCEPT ![pod] = <<>>]
        /\ UNCHANGED <<elapsed, corrected, draft>>
    BY <1>17 DEF CrashPod
  <2>2. job' = [w \in Workers |-> IF w \in S THEN job'[w] ELSE job[w]] BY <2>1
  <2>3. \A w \in S : Recent(w)' BY <2>1, <1>6 DEF Recent
  <2>4. S \in SUBSET Workers OBVIOUS
  <2> HIDE DEF S
  <2>5. Dates' /\ Askers' BY <2>1, <2>2, <2>3, <2>4, OtherJobs
  <2>6. Mapping(<<>>) /\ \A i \in DOMAIN <<>> : Entry(<<>>[i])
    <3>1. <<>> \in Seq({}) /\ DOMAIN <<>> = {} OBVIOUS
    <3>2. QED BY <3>1 DEF Mapping
  <2>7. Caches' BY <2>1, <2>6, OneCache
  <2>8. \A a, version, resolved :
          Venue(a, version, resolved) => Venue(a, version, resolved)'
    BY <2>1 DEF Venue, InTime
  <2>9. Drafted' BY <2>1, <2>8, DraftStays
  <2>10. QED BY <2>5, <2>7, <2>9 DEF Timely
<1>18. QED
  BY <1>1, <1>2, <1>3, <1>4, <1>5, <1>7, <1>8, <1>9, <1>10, <1>11, <1>12, <1>13, <1>14,
     <1>15, <1>16, <1>17, <1>19, <1>20
  DEF Next

\* A venue is never older than its entry may be, and a fetch: see DraftIsRecent.
THEOREM VenueIsRecent == Spec => []DraftIsRecent
<1>1. Init => Timely
  <2> SUFFICES ASSUME Init PROVE Timely OBVIOUS
  <2>1. Mapping(<<>>) /\ \A i \in DOMAIN <<>> : Entry(<<>>[i])
    <3>1. <<>> \in Seq({}) /\ DOMAIN <<>> = {} OBVIOUS
    <3>2. QED BY <3>1 DEF Mapping
  <2>2. Dates BY DEF Init, LimiterInit, Dates
  <2>3. Caches BY <2>1 DEF Init, Caches
  <2>4. Askers BY DEF Init, Askers, Recent, Idle
  <2>5. Drafted BY DEF Init, Drafted
  <2>6. QED BY <2>2, <2>3, <2>4, <2>5 DEF Timely
<1>2. Timely /\ [Next]_vars => Timely' BY StepTimely
<1>3. Timely => DraftIsRecent BY DEF Timely, Drafted, Venue, InTime, DraftIsRecent
<1>4. QED BY <1>1, <1>2, <1>3, PTL DEF Spec

-----------------------------------------------------------------------------

\* Whatever the service accepts of plain texts and real dates, the table takes: see
\* TheTwoAgree.
THEOREM ServiceAndTableAgree == \A body \in Inputs(Texts) : TheTwoAgree(body)
<1> SUFFICES ASSUME NEW body \in Inputs(Texts), Plain(body), Accepts(body)
             PROVE  TableTakes(NormaliseEnquiry(body))
  BY DEF TheTwoAgree
<1> DEFINE n == NormaliseEnquiry(body)
<1>1. ValidateEnquiry(n) BY DEF Accepts
<1>2. /\ n.name = body.name /\ n.message = body.message /\ n.email = body.email
      /\ n.date = body.date
      /\ n.phone = NotEmpty(body.phone) /\ n.source = NotEmpty(body.source)
      /\ n.eventType = Ours(body.eventType) /\ n.metroCode = Ours(body.metroCode)
  BY DEF NormaliseEnquiry, Inputs
<1>3. n.phone # Absent => n.phone = body.phone /\ body.phone # Absent
  BY <1>2 DEF NotEmpty
<1>4. n.source # Absent => n.source = body.source /\ body.source # Absent
  BY <1>2 DEF NotEmpty
<1>5. /\ body.name.units = body.name.chars /\ body.message.units = body.message.chars
      /\ body.phone # Absent => body.phone.units = body.phone.chars
      /\ body.source # Absent => body.source.units = body.source.chars
  <2>1. body.name # Absent /\ body.message # Absent
    BY EnquiryAssumption DEF Inputs, Texts
  <2>2. \A field \in {"name", "phone", "message", "source"} :
          body[field] # Absent => body[field].units = body[field].chars
    BY DEF Plain
  <2>3. QED BY <2>1, <2>2
<1>6. n.eventType \in {Absent, "known"} /\ n.metroCode \in {Absent, "known"}
  BY <1>2 DEF Ours, Inputs
<1>7. body.date # "unreal" BY DEF Plain
<1> HIDE DEF n
<1>8. TableTakes(n) BY <1>1, <1>2, <1>3, <1>4, <1>5, <1>6, <1>7 DEF ValidateEnquiry, TableTakes
<1>9. QED BY <1>8 DEF n
=============================================================================
