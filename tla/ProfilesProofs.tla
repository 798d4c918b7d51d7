---------------------------- MODULE ProfilesProofs ---------------------------
(***************************************************************************)
(* What profiles, the match engine and the money arithmetic promise, for   *)
(* any vendors, bodies, briefs and requests in flight.                     *)
(*                                                                         *)
(* The readers of Profiles take several statements, between which any save *)
(* may come.  What carries them is Kept: no row is ever deleted, no        *)
(* account unlinked, no verified vendor unverified.  So what a request has *)
(* found out (Sound) stays true while it waits, although the text it will  *)
(* read may be another by then.  The invariant IInv is Sound of every      *)
(* request, what the tables keep of the last decision to publish (Tables), *)
(* what has been answered (Answers) and the types.                         *)
(*                                                                         *)
(* A shortlist is of candidates that passed the filters only if every rank *)
(* it takes is somebody's: RankCandidates picks the candidate of each rank *)
(* with CHOOSE.  RanksFill is that, RankedAreFound its use.                *)
(***************************************************************************)
EXTENDS Profiles, FiniteSetTheorems, TLAPS

-----------------------------------------------------------------------------
\* Money: see Quotes.

\* Half a cent up or down: a rate of at most 100% of an amount is between nothing and all of it.
LEMMA RateBounds ==
  ASSUME NEW base \in Nat, NEW hundredths \in 0 .. 100
  PROVE  ApplyRate(base, hundredths) \in 0 .. base
<1>1. base * hundredths \in Nat /\ base * hundredths <= 100 * base OBVIOUS
<1>2. \A n \in Nat : n <= 100 * base => (n + 50) \div 100 \in 0 .. base OBVIOUS
<1>3. QED BY <1>1, <1>2 DEF ApplyRate

LEMMA TotalIsCents ==
  ASSUME NEW service \in Nat, NEW travel \in Nat
  PROVE  HostTotal(service, travel) \in Nat /\ HostTotal(service, travel) >= service + travel
<1>1. ApplyRate(service + travel, 5) \in 0 .. service + travel BY RateBounds
<1>2. QED BY <1>1 DEF HostTotal

\* Every quote adds up and fits: deposit and balance make the host's total and neither is
\* negative; the vendor is paid his travel at least and never more than the host pays, so
\* the platform never pays in (quoteBooking).
THEOREM QuoteAddsUp ==
  ASSUME NEW service \in Nat, NEW travel \in Nat
  PROVE  LET q == QuoteBooking(service, travel)
         IN /\ q.depositDue + q.balanceDue = q.hostTotal
            /\ q.depositDue \in 0 .. q.hostTotal /\ q.balanceDue \in 0 .. q.hostTotal
            /\ q.vendorPayout \in travel .. q.hostTotal
            /\ q.platformRevenue = q.hostTotal - q.vendorPayout /\ q.platformRevenue >= 0
<1> DEFINE total == HostTotal(service, travel)
           payout == VendorPayout(service, travel)
           commission == VendorCommission(service)
<1>1. total \in Nat /\ total >= service + travel BY TotalIsCents
<1>2. ApplyRate(total, 30) \in 0 .. total
  <2>1. ASSUME NEW n \in Nat PROVE ApplyRate(n, 30) \in 0 .. n BY RateBounds
  <2>2. QED BY <1>1, <2>1
<1>3. DepositDue(total) \in 0 .. total BY <1>1, <1>2 DEF DepositDue, Lesser
<1>4. ApplyRate(service, 12) \in 0 .. service BY RateBounds
<1>5. commission \in 0 .. service
  BY <1>4 DEF VendorCommission, Lesser, Greater, MinPlatformFee
<1>6. payout \in travel .. service + travel BY <1>5 DEF VendorPayout
<1> HIDE DEF total, payout, commission
<1>7. QuoteBooking(service, travel) =
        [hostTotal |-> total, depositDue |-> DepositDue(total),
         balanceDue |-> total - DepositDue(total), vendorPayout |-> payout,
         platformRevenue |-> total - payout]
  BY DEF QuoteBooking, total, payout
<1>8. QED BY <1>1, <1>3, <1>6, <1>7

\* A refund of no more than was charged comes out of the two legs in full, and of neither
\* more than it holds: the balance first, the rest from the deposit (splitRefund).
THEOREM RefundFits ==
  ASSUME NEW service \in Nat, NEW travel \in Nat,
         NEW refund \in 0 .. QuoteBooking(service, travel).hostTotal
  PROVE  LET q == QuoteBooking(service, travel)
             parts == SplitRefund(q, refund)
         IN /\ parts.fromDeposit + parts.fromBalance = refund
            /\ parts.fromDeposit \in 0 .. q.depositDue
            /\ parts.fromBalance \in 0 .. q.balanceDue
<1> DEFINE q == QuoteBooking(service, travel)
<1>1. /\ q.depositDue + q.balanceDue = q.hostTotal
      /\ q.depositDue \in 0 .. q.hostTotal /\ q.balanceDue \in 0 .. q.hostTotal
  BY QuoteAddsUp
<1>2. q.hostTotal \in Nat BY TotalIsCents DEF QuoteBooking
<1> HIDE DEF q
<1>3. SplitRefund(q, refund) =
        [fromDeposit |-> refund - Lesser(refund, q.balanceDue),
         fromBalance |-> Lesser(refund, q.balanceDue)]
  BY DEF SplitRefund
<1>4. refund \in 0 .. q.hostTotal BY DEF q
<1>5. /\ SplitRefund(q, refund).fromDeposit + SplitRefund(q, refund).fromBalance = refund
      /\ SplitRefund(q, refund).fromDeposit \in 0 .. q.depositDue
      /\ SplitRefund(q, refund).fromBalance \in 0 .. q.balanceDue
  BY <1>1, <1>2, <1>3, <1>4 DEF Lesser
<1>6. QED BY <1>5 DEF q

\* Within a vendor's reach a longer way never costs less, whatever policy was accepted:
\* ranking by price cannot prefer a vendor for being farther away (quoteTravel).
THEOREM FartherIsNoCheaper ==
  ASSUME NEW policy \in [free : Int, perMile : Int, max : Int, overnightFrom : Int, overnight : Int],
         PolicyAccepted(policy),
         NEW near \in Nat, NEW far \in Nat, near <= far, far <= policy.max
  PROVE  /\ ~QuoteTravel(near, policy).outOfRange /\ ~QuoteTravel(far, policy).outOfRange
         /\ QuoteTravel(near, policy).totalCents <= QuoteTravel(far, policy).totalCents
<1> DEFINE beyond(m) == Greater(0, m - policy.free)
           mileage(m) == (2 * beyond(m) * policy.perMile + 5) \div 10
           night(m) == IF m >= policy.overnightFrom THEN policy.overnight ELSE 0
<1>1. policy.perMile \in Nat /\ policy.overnight \in Nat /\ policy.free \in Nat
      /\ policy.max \in Int /\ policy.overnightFrom \in Int
  <2>1. \A n \in Int : IsCents(n) => n \in Nat BY DEF IsCents
  <2>2. QED BY <2>1 DEF PolicyAccepted
<1>2. beyond(near) \in Nat /\ beyond(far) \in Nat /\ beyond(near) <= beyond(far)
  BY <1>1 DEF Greater
<1>3. mileage(near) \in Int /\ mileage(far) \in Int /\ mileage(near) <= mileage(far)
  <2>1. \A b \in Nat, c \in Nat, p \in Nat : b <= c => b * p <= c * p OBVIOUS
  <2>2. beyond(near) * policy.perMile <= beyond(far) * policy.perMile BY <1>1, <1>2, <2>1
  <2>3. \A m, n \in Nat : m <= n => (2 * m + 5) \div 10 <= (2 * n + 5) \div 10 OBVIOUS
  <2>4. \A b, p \in Nat : b * p \in Nat /\ 2 * b * p = 2 * (b * p) OBVIOUS
  <2> DEFINE b == beyond(near)  c == beyond(far)  p == policy.perMile
  <2>5. b \in Nat /\ c \in Nat /\ p \in Nat /\ b * p <= c * p BY <1>1, <1>2, <2>2
  <2> HIDE DEF b, c, p
  <2>6. b * p \in Nat /\ c * p \in Nat /\ 2 * b * p = 2 * (b * p) /\ 2 * c * p = 2 * (c * p)
    BY <2>4, <2>5
  <2>7. (2 * b * p + 5) \div 10 <= (2 * c * p + 5) \div 10 BY <2>3, <2>5, <2>6
  <2>8. \A n \in Nat : (2 * n + 5) \div 10 \in Int OBVIOUS
  <2>9. QED BY <2>6, <2>7, <2>8 DEF b, c, p
<1>4. night(near) \in Nat /\ night(far) \in Nat /\ night(near) <= night(far) BY <1>1
<1>5. ~(near > policy.max) /\ ~(far > policy.max) BY <1>1
<1>6. \A m : ~(m > policy.max) =>
        /\ ~QuoteTravel(m, policy).outOfRange
        /\ QuoteTravel(m, policy).totalCents = mileage(m) + night(m)
  BY DEF QuoteTravel
<1> HIDE DEF mileage, night
<1>7. QED BY <1>3, <1>4, <1>5, <1>6

-----------------------------------------------------------------------------
\* Ranking: in a finite set in strict order, everybody's rank is one more than the number
\* of those who come first, and no rank is empty or shared.

Ordered(S, R) ==
  /\ \A c \in S : <<c, c>> \notin R
  /\ \A c, d, e \in S : <<c, d>> \in R /\ <<d, e>> \in R => <<c, e>> \in R
  /\ \A c, d \in S : c # d => <<c, d>> \in R \/ <<d, c>> \in R

Rank(S, R) == [c \in S |-> Cardinality({d \in S : <<d, c>> \in R}) + 1]

LEMMA RankGrows ==
  ASSUME NEW S, IsFiniteSet(S), NEW R, Ordered(S, R),
         NEW c \in S, NEW d \in S, <<c, d>> \in R
  PROVE  Rank(S, R)[c] < Rank(S, R)[d]
<1> DEFINE A == {x \in S : <<x, c>> \in R}
           B == {x \in S : <<x, d>> \in R}
<1>1. A \subseteq B /\ c \in B /\ c \notin A BY DEF Ordered
<1>2. IsFiniteSet(B)
  <2>1. B \in SUBSET S OBVIOUS
  <2> QED BY <2>1, FS_Subset
<1>3. A \in SUBSET B /\ A # B BY <1>1
<1>4. Rank(S, R)[c] = Cardinality(A) + 1 /\ Rank(S, R)[d] = Cardinality(B) + 1 BY DEF Rank
<1> HIDE DEF A, B
<1>5. IsFiniteSet(A) /\ Cardinality(A) <= Cardinality(B) /\ Cardinality(A) # Cardinality(B)
  BY <1>2, <1>3, FS_Subset
<1>6. Cardinality(A) \in Nat /\ Cardinality(B) \in Nat BY <1>2, <1>5, FS_CardinalityType
<1> QED BY <1>4, <1>5, <1>6

LEMMA RanksFill ==
  ASSUME NEW S, IsFiniteSet(S), NEW R, Ordered(S, R)
  PROVE  \A r \in 1 .. Cardinality(S) : \E c \in S : Rank(S, R)[c] = r
<1> DEFINE n == Cardinality(S)
           f == Rank(S, R)
<1>1. n \in Nat BY FS_CardinalityType
<1>2. ASSUME NEW c \in S PROVE f[c] \in 1 .. n
  <2> DEFINE A == {x \in S : <<x, c>> \in R}
  <2>1. A \in SUBSET (S \ {c}) BY DEF Ordered
  <2>2. IsFiniteSet(S \ {c}) /\ Cardinality(S \ {c}) = n - 1 BY FS_RemoveElement
  <2>3. f[c] = Cardinality(A) + 1 BY DEF Rank
  <2> HIDE DEF A, f
  <2>4. IsFiniteSet(A) /\ Cardinality(A) <= n - 1 BY <2>1, <2>2, FS_Subset
  <2>5. Cardinality(A) \in Nat BY <2>4, FS_CardinalityType
  <2> QED BY <2>3, <2>4, <2>5, <1>1
<1>3. f \in [S -> 1 .. n]
  <2>1. f = [c \in S |-> f[c]] BY DEF Rank
  <2> HIDE DEF f, n
  <2> QED BY <2>1, <1>2
<1>4. ASSUME NEW c \in S, NEW d \in S, f[c] = f[d] PROVE c = d
  <2>1. f[c] \in Int /\ f[d] \in Int
    <3>1. f[c] \in 1 .. n /\ f[d] \in 1 .. n BY <1>2
    <3> HIDE DEF f, n
    <3> QED BY <3>1, <1>1
  <2>2. <<c, d>> \notin R
    <3>1. ASSUME <<c, d>> \in R PROVE FALSE
      <4>1. f[c] < f[d] BY <3>1, RankGrows
      <4> HIDE DEF f
      <4> QED BY <4>1, <2>1, <1>4
    <3> QED BY <3>1
  <2>3. <<d, c>> \notin R
    <3>1. ASSUME <<d, c>> \in R PROVE FALSE
      <4>1. f[d] < f[c] BY <3>1, RankGrows
      <4> HIDE DEF f
      <4> QED BY <4>1, <2>1, <1>4
    <3> QED BY <3>1
  <2> QED BY <2>2, <2>3 DEF Ordered
<1>5. IsFiniteSet(1 .. n) /\ Cardinality(1 .. n) = n BY <1>1, FS_Interval
<1> HIDE DEF f, n
<1>6. f \in Injection(S, 1 .. n) BY <1>3, <1>4 DEF Injection, IsInjective
<1>7. f \in Surjection(S, 1 .. n)
  BY <1>5, <1>6, FS_Injection DEF n
<1> QED BY <1>7 DEF Surjection, f, n

-----------------------------------------------------------------------------
\* The match engine: a short list has nobody whom it was not given or whom a hard filter
\* rules out.

\* What a candidate and a brief are made of.
Scorable(c) ==
  /\ c.miles \in Nat /\ c.rate \in Nat /\ c.id \in Nat
  /\ {c.proximity, c.reputation, c.responsiveness} \subseteq Nat
  /\ c.events = NotSaid \/ c.events \in Worked

Asked(brief) ==
  /\ IsFiniteSet(brief.tags) /\ IsFiniteSet(brief.languages)
  /\ brief.budgetMin \in Nat /\ brief.budgetMax \in Nat

LEMMA DivIsInt ==
  ASSUME NEW a \in Int, NEW b \in Int, b > 0
  PROVE  a \div b \in Int
OBVIOUS

LEMMA ShareIsInt ==
  ASSUME NEW S, IsFiniteSet(S), S # {}, NEW a \in Int
  PROVE  a \div Cardinality(S) \in Int
<1>1. Cardinality(S) \in Nat /\ Cardinality(S) # 0 BY FS_CardinalityType, FS_EmptySet
<1> QED BY <1>1, DivIsInt

LEMMA ScoreIsInt ==
  ASSUME NEW c, Scorable(c), NEW brief, Asked(brief)
  PROVE  Score(c, brief) \in Int
<1>1. EventFitScore(brief.eventType, c.events) \in Int
  <2>1. CASE c.events = NotSaid BY <2>1 DEF EventFitScore
  <2>2. CASE c.events # NotSaid
    <3>1. ASSUME brief.eventType \in DOMAIN c.events
          PROVE  c.events[brief.eventType] \in Nat
      <4>1. PICK types : c.events \in [types -> Nat] BY <2>2 DEF Scorable, Worked
      <4> QED BY <3>1, <4>1
    <3>2. ASSUME NEW n \in Nat PROVE 7500 + 125 * Lesser(20, n) \in Int BY DEF Lesser
    <3> QED BY <2>2, <3>1, <3>2 DEF EventFitScore
  <2> QED BY <2>1, <2>2
<1>2. CulturalScore(brief.tags, c.tags) \in Int
  <2>1. CASE brief.tags = {} BY <2>1 DEF CulturalScore
  <2>2. CASE brief.tags # {}
    <3> DEFINE exact == brief.tags \cap c.tags
               related == {tag \in brief.tags \ c.tags :
                             \E o \in c.tags : TagAffinity(tag, o) = 1}
               share == 5000 * (2 * Cardinality(exact) + Cardinality(related))
    <3>1. exact \in SUBSET brief.tags /\ related \in SUBSET brief.tags OBVIOUS
    <3>2. CulturalScore(brief.tags, c.tags) = share \div Cardinality(brief.tags)
      BY <2>2 DEF CulturalScore
    <3> HIDE DEF exact, related
    <3>3. IsFiniteSet(brief.tags) BY DEF Asked
    <3>4. IsFiniteSet(exact) /\ IsFiniteSet(related) BY <3>1, <3>3, FS_Subset
    <3>5. Cardinality(exact) \in Nat /\ Cardinality(related) \in Nat
      BY <3>4, FS_CardinalityType
    <3>6. share \in Int BY <3>5
    <3> HIDE DEF share
    <3> QED BY <2>2, <3>2, <3>3, <3>6, ShareIsInt
  <2> QED BY <2>1, <2>2
<1>3. BudgetScore(c.rate, brief) \in Int
  <2> DEFINE min == brief.budgetMin
             max == brief.budgetMax
             rate == c.rate
  <2>1. min \in Nat /\ max \in Nat /\ rate \in Nat BY DEF Asked, Scorable
  <2>2. BudgetScore(rate, brief) =
          IF max <= 0 THEN 5000
          ELSE IF rate <= min THEN 10000
          ELSE IF rate <= max THEN 10000 - (3500 * (rate - min)) \div Greater(1, max - min)
          ELSE Greater(0, 6500 - (30000 * (rate - max)) \div max)
    BY DEF BudgetScore
  <2> HIDE DEF min, max, rate
  <2>3. Greater(1, max - min) \in Int /\ Greater(1, max - min) > 0 BY <2>1 DEF Greater
  <2>4. (3500 * (rate - min)) \div Greater(1, max - min) \in Int
    <3>1. 3500 * (rate - min) \in Int BY <2>1
    <3> QED BY <2>3, <3>1, DivIsInt
  <2>5. ASSUME max > 0 PROVE (30000 * (rate - max)) \div max \in Int
    <3>1. 30000 * (rate - max) \in Int BY <2>1
    <3> QED BY <2>5, <3>1, <2>1, DivIsInt
  <2>6. ASSUME max > 0 PROVE Greater(0, 6500 - (30000 * (rate - max)) \div max) \in Int
    <3> DEFINE q == (30000 * (rate - max)) \div max
    <3>1. q \in Int BY <2>5, <2>6
    <3> HIDE DEF q
    <3>2. Greater(0, 6500 - q) \in Int BY <3>1 DEF Greater
    <3> QED BY <3>2 DEF q
  <2>7. BudgetScore(rate, brief) \in Int
    <3>1. CASE max <= 0 BY <3>1, <2>2
    <3>2. CASE max > 0 /\ rate <= min BY <3>2, <2>2, <2>1
    <3>3. CASE max > 0 /\ rate > min /\ rate <= max
      <4> DEFINE q == (3500 * (rate - min)) \div Greater(1, max - min)
      <4>1. BudgetScore(rate, brief) = 10000 - q BY <3>3, <2>2, <2>1
      <4>2. q \in Int BY <2>4
      <4> HIDE DEF q
      <4> QED BY <4>1, <4>2
    <3>4. CASE max > 0 /\ rate > min /\ rate > max
      <4>1. BudgetScore(rate, brief) = Greater(0, 6500 - (30000 * (rate - max)) \div max)
        BY <3>4, <2>2, <2>1
      <4> QED BY <4>1, <2>6, <3>4
    <3> QED BY <3>1, <3>2, <3>3, <3>4, <2>1
  <2> QED BY <2>7 DEF rate
<1>4. LanguageScore(brief.languages, c.languages) \in Int
  <2>1. CASE brief.languages = {} BY <2>1 DEF LanguageScore
  <2>2. CASE brief.languages # {}
    <3> DEFINE spoken == brief.languages \cap c.languages
    <3>1. IsFiniteSet(brief.languages) /\ spoken \in SUBSET brief.languages BY DEF Asked
    <3>2. LanguageScore(brief.languages, c.languages) =
            (10000 * Cardinality(spoken)) \div Cardinality(brief.languages)
      BY <2>2 DEF LanguageScore
    <3> HIDE DEF spoken
    <3>3. IsFiniteSet(spoken) BY <3>1, FS_Subset
    <3>4. Cardinality(spoken) \in Nat BY <3>3, FS_CardinalityType
    <3>5. 10000 * Cardinality(spoken) \in Int BY <3>4
    <3> QED BY <2>2, <3>1, <3>2, <3>5, ShareIsInt
  <2> QED BY <2>1, <2>2
<1>5. c.proximity \in Int /\ c.reputation \in Int /\ c.responsiveness \in Int
  BY DEF Scorable
<1>6. ASSUME NEW a \in Int, NEW b \in Int, NEW d \in Int, NEW f \in Int, NEW g \in Int,
             NEW h \in Int, NEW k \in Int
      PROVE  (28 * a + 24 * b + 17 * d + 12 * f + 7 * g + 7 * h + 5 * k + 5000) \div 10000 \in Int
  OBVIOUS
<1> QED BY <1>1, <1>2, <1>3, <1>4, <1>5, <1>6 DEF Score

\* Candidates that can be told apart, and those of them that are good enough.
Rankable(found, brief) ==
  /\ IsFiniteSet(found) /\ Asked(brief)
  /\ \A c \in found : Scorable(c)
  /\ \A c, d \in found : c.id = d.id => c = d
GoodEnough(found, brief) ==
  {c \in found : ~Disqualified(c, brief) /\ Score(c, brief) >= MinScore}

\* The order of rankCandidates is total among candidates of different ids, so every place of
\* the list is somebody's, nobody has two, and whoever has the better score is before.
LEMMA PlacesAreRanks ==
  ASSUME NEW found, NEW brief, Rankable(found, brief)
  PROVE  LET ranked == RankCandidates(found, brief)
             good == GoodEnough(found, brief)
         IN /\ IsFiniteSet(good) /\ Cardinality(good) \in Nat
            /\ ranked = [i \in 1 .. Lesser(ShortList, Cardinality(good)) |-> ranked[i]]
            /\ \A i \in DOMAIN ranked : ranked[i] \in good
            /\ \A i, j \in DOMAIN ranked : ranked[i] = ranked[j] => i = j
            /\ \A i \in DOMAIN ranked, c \in good :
                 Score(c, brief) > Score(ranked[i], brief) =>
                   \E j \in DOMAIN ranked : j < i /\ ranked[j] = c
<1> DEFINE passed == {c \in found : ~Disqualified(c, brief)}
           score == [c \in passed |-> Score(c, brief)]
           eligible == {c \in passed : score[c] >= MinScore}
           Precedes(c, d) ==
             \/ score[c] > score[d]
             \/ /\ score[c] = score[d]
                /\ c.miles < d.miles \/ (c.miles = d.miles /\ c.id < d.id)
           rank == [c \in eligible |-> Cardinality({d \in eligible : Precedes(d, c)}) + 1]
           R == {p \in eligible \X eligible : Precedes(p[1], p[2])}
<1>1. RankCandidates(found, brief) =
        [r \in 1 .. Lesser(ShortList, Cardinality(eligible)) |->
           CHOOSE c \in eligible : rank[c] = r]
  BY DEF RankCandidates
<1>2. IsFiniteSet(eligible)
  <2>1. eligible \in SUBSET found OBVIOUS
  <2> HIDE DEF eligible
  <2> QED BY <2>1, FS_Subset DEF Rankable
<1>3. \A c, d \in eligible : <<c, d>> \in R <=> Precedes(c, d) OBVIOUS
<1>4. ASSUME NEW c \in eligible PROVE score[c] \in Int /\ c.miles \in Int /\ c.id \in Int
  <2>1. c \in found /\ score[c] = Score(c, brief) OBVIOUS
  <2>2. Scorable(c) BY <2>1 DEF Rankable
  <2>3. Score(c, brief) \in Int BY <2>2, ScoreIsInt DEF Rankable
  <2>4. c.miles \in Int /\ c.id \in Int BY <2>2 DEF Scorable
  <2> HIDE DEF score
  <2> QED BY <2>1, <2>3, <2>4
<1>5. \A c, d \in eligible : c.id = d.id => c = d BY DEF Rankable
<1>0. Asked(brief) /\ IsFiniteSet(found) BY DEF Rankable
<1>6. rank = Rank(eligible, R)
  <2>1. \A c \in eligible : {d \in eligible : Precedes(d, c)} = {d \in eligible : <<d, c>> \in R}
    <3> HIDE DEF eligible, score
    <3> QED OBVIOUS
  <2> HIDE DEF eligible, R, Precedes
  <2> QED BY <2>1 DEF Rank
<1>7. Ordered(eligible, R)
  <2> HIDE DEF eligible, score, R
  <2>1. \A c \in eligible : <<c, c>> \notin R BY <1>3, <1>4
  <2>2. \A c, d, e \in eligible : <<c, d>> \in R /\ <<d, e>> \in R => <<c, e>> \in R
    <3> SUFFICES ASSUME NEW c \in eligible, NEW d \in eligible, NEW e \in eligible,
                        Precedes(c, d), Precedes(d, e)
                 PROVE  Precedes(c, e)
      BY <1>3
    <3>1. score[c] \in Int /\ score[d] \in Int /\ score[e] \in Int BY <1>4
    <3>2. /\ c.miles \in Int /\ c.id \in Int /\ d.miles \in Int /\ d.id \in Int
          /\ e.miles \in Int /\ e.id \in Int
      BY <1>4
    <3> QED BY <3>1, <3>2
  <2>3. \A c, d \in eligible : c # d => <<c, d>> \in R \/ <<d, c>> \in R
    <3> SUFFICES ASSUME NEW c \in eligible, NEW d \in eligible, c # d
                 PROVE  Precedes(c, d) \/ Precedes(d, c)
      BY <1>3
    <3>1. score[c] \in Int /\ score[d] \in Int BY <1>4
    <3>2. c.miles \in Int /\ c.id \in Int /\ d.miles \in Int /\ d.id \in Int BY <1>4
    <3>3. c.id # d.id BY <1>5
    <3> QED BY <3>1, <3>2, <3>3
  <2> QED BY <2>1, <2>2, <2>3 DEF Ordered
<1>9. eligible = GoodEnough(found, brief) BY DEF GoodEnough
<1>15. \A c \in eligible : score[c] = Score(c, brief) OBVIOUS
<1> HIDE DEF eligible, rank, R
<1>10. Cardinality(eligible) \in Nat BY <1>2, FS_CardinalityType
<1> DEFINE n == Cardinality(eligible)
           ranked == RankCandidates(found, brief)
<1>11. ASSUME NEW i \in 1 .. n PROVE (CHOOSE c \in eligible : rank[c] = i) \in eligible
                                    /\ rank[CHOOSE c \in eligible : rank[c] = i] = i
  <2>1. \E c \in eligible : rank[c] = i BY <1>2, <1>6, <1>7, RanksFill
  <2> QED BY <2>1
<1>12. \A i \in DOMAIN ranked : i \in 1 .. n /\ i \in 1 .. Lesser(ShortList, n)
  <2>1. \A i \in DOMAIN ranked : i \in 1 .. Lesser(ShortList, n) BY <1>1
  <2> HIDE DEF n
  <2> QED BY <2>1, <1>10 DEF Lesser, ShortList, n
<1>13. \A i \in DOMAIN ranked : ranked[i] \in eligible /\ rank[ranked[i]] = i
  <2> SUFFICES ASSUME NEW i \in DOMAIN ranked
               PROVE  ranked[i] \in eligible /\ rank[ranked[i]] = i
    OBVIOUS
  <2>1. i \in 1 .. n /\ i \in 1 .. Lesser(ShortList, n) BY <1>12
  <2>2. ranked[i] = CHOOSE c \in eligible : rank[c] = i BY <1>1, <2>1
  <2> QED BY <2>1, <2>2, <1>11
<1>14. ASSUME NEW i \in DOMAIN ranked, NEW c \in eligible,
              Score(c, brief) > Score(ranked[i], brief)
       PROVE  \E j \in DOMAIN ranked : j < i /\ ranked[j] = c
  <2>1. PICK d : d = ranked[i] /\ d \in eligible /\ rank[d] = i BY <1>13
  <2>2. Precedes(c, d) /\ <<c, d>> \in R
    <3>1. score[c] = Score(c, brief) /\ score[d] = Score(d, brief) BY <2>1, <1>15
    <3> QED BY <3>1, <1>14, <2>1, <1>3
  <2>3. rank[c] < rank[d] BY <2>1, <2>2, <1>2, <1>6, <1>7, RankGrows
  <2>4. rank[c] \in Nat /\ rank[c] >= 1
    <3> DEFINE A == {x \in eligible : <<x, c>> \in R}
    <3>1. A \in SUBSET eligible OBVIOUS
    <3>2. rank[c] = Cardinality(A) + 1 BY <1>6 DEF Rank
    <3> HIDE DEF A
    <3>3. Cardinality(A) \in Nat BY <3>1, <1>2, FS_Subset, FS_CardinalityType
    <3> QED BY <3>2, <3>3
  <2>5. rank[c] \in DOMAIN ranked /\ rank[c] < i
    <3>1. DOMAIN ranked = 1 .. Lesser(ShortList, n) BY <1>1
    <3> HIDE DEF ranked, n, Precedes, score
    <3>2. i \in 1 .. Lesser(ShortList, n) /\ i \in 1 .. n BY <1>12
    <3>3. Lesser(ShortList, n) \in Int BY <1>10 DEF Lesser, ShortList, n
    <3> QED BY <3>1, <3>2, <3>3, <2>1, <2>3, <2>4
  <2>6. PICK e : e = ranked[rank[c]] /\ e \in eligible /\ rank[e] = rank[c] BY <2>5, <1>13
  <2>7. e = c
    <3>1. ASSUME NEW x \in eligible, NEW y \in eligible, <<x, y>> \in R PROVE rank[x] < rank[y]
      BY <3>1, <1>2, <1>6, <1>7, RankGrows
    <3>2. e # c => <<e, c>> \in R \/ <<c, e>> \in R BY <2>6, <1>7 DEF Ordered
    <3> HIDE DEF Precedes, score, ranked
    <3> QED BY <3>1, <3>2, <2>4, <2>6
  <2> QED BY <2>5, <2>6, <2>7
<1>16. ranked = [i \in 1 .. Lesser(ShortList, n) |-> ranked[i]] BY <1>1
<1>17. \A i, j \in DOMAIN ranked : ranked[i] = ranked[j] => i = j
  <2> HIDE DEF ranked
  <2> QED BY <1>13
<1> HIDE DEF ranked
<1> QED BY <1>2, <1>9, <1>10, <1>13, <1>14, <1>16, <1>17 DEF ranked

LEMMA RankedAreFound ==
  ASSUME NEW found, IsFiniteSet(found), NEW brief, Asked(brief),
         \A c \in found : Scorable(c),
         \A c, d \in found : c.id = d.id => c = d,
         NEW i \in DOMAIN RankCandidates(found, brief)
  PROVE  /\ RankCandidates(found, brief)[i] \in found
         /\ ~Disqualified(RankCandidates(found, brief)[i], brief)
<1>1. Rankable(found, brief) BY DEF Rankable
<1>2. RankCandidates(found, brief)[i] \in GoodEnough(found, brief) BY <1>1, PlacesAreRanks
<1> QED BY <1>2 DEF GoodEnough

-----------------------------------------------------------------------------
\* The waves: consecutive stretches of the list.

LEMMA CutsAre ==
  ASSUME NEW n \in Nat, NEW urgent \in BOOLEAN, NEW target \in Nat
  PROVE  LET last == IF urgent THEN 1 ELSE 3
             C(i) == Cut(i, n, urgent, target)
         IN /\ C(0) = 0 /\ C(last) = n
            /\ \A i \in 0 .. last : C(i) \in 0 .. n
            /\ \A i, j \in 0 .. last : i <= j => C(i) <= C(j)
<1>1. Greater(target, 3) \in Nat BY DEF Greater
<1> DEFINE first == Greater(target, 3)
<1>2. /\ Lesser(n, first) \in 0 .. n /\ Lesser(n, first + 2 * target) \in 0 .. n
      /\ Lesser(n, first) <= Lesser(n, first + 2 * target)
  <2> HIDE DEF first
  <2> QED BY <1>1 DEF Lesser, first
<1>3. /\ Cut(0, n, urgent, target) = 0 /\ Cut(3, n, urgent, target) = n
      /\ Cut(1, n, urgent, target) = IF urgent THEN n ELSE Lesser(n, first)
      /\ ~urgent => Cut(2, n, urgent, target) = Lesser(n, first + 2 * target)
  BY DEF Cut
<1> HIDE DEF first
<1>4. CASE urgent
  <2>1. Cut(0, n, urgent, target) = 0 /\ Cut(1, n, urgent, target) = n BY <1>3, <1>4
  <2>2. \A i \in 0 .. 1 : i = 0 \/ i = 1 OBVIOUS
  <2>3. \A i \in 0 .. 1 : Cut(i, n, urgent, target) \in 0 .. n BY <2>1, <2>2
  <2>4. ASSUME NEW i \in 0 .. 1, NEW j \in 0 .. 1, i <= j
        PROVE  Cut(i, n, urgent, target) <= Cut(j, n, urgent, target)
    <3>1. (i = 0 /\ j = 0) \/ (i = 0 /\ j = 1) \/ (i = 1 /\ j = 1) BY <2>2, <2>4
    <3> QED BY <3>1, <2>1
  <2> QED BY <1>4, <2>1, <2>3, <2>4
<1>5. CASE ~urgent
  <2>1. PICK C : C = [i \in 0 .. 3 |-> Cut(i, n, urgent, target)] OBVIOUS
  <2>2. PICK a, b : a = Lesser(n, first) /\ b = Lesser(n, first + 2 * target) OBVIOUS
  <2>3. a \in 0 .. n /\ b \in 0 .. n /\ a <= b BY <1>2, <2>2
  <2>4. C[0] = 0 /\ C[1] = a /\ C[2] = b /\ C[3] = n BY <1>3, <1>5, <2>1, <2>2
  <2>5. \A i \in 0 .. 3 : i = 0 \/ i = 1 \/ i = 2 \/ i = 3 OBVIOUS
  <2>6. \A i \in 0 .. 3 : C[i] \in 0 .. n BY <2>3, <2>4, <2>5
  <2>7. ASSUME NEW i \in 0 .. 3, NEW j \in 0 .. 3, i <= j PROVE C[i] <= C[j]
    <3>1. i = j \/ i = 0 \/ j = 3 \/ (i = 1 /\ j = 2) BY <2>5, <2>7
    <3> QED BY <3>1, <2>3, <2>4, <2>6
  <2>8. \A i \in 0 .. 3 : C[i] = Cut(i, n, urgent, target) BY <2>1
  <2> QED BY <1>3, <1>5, <2>6, <2>7, <2>8
<1> QED BY <1>4, <1>5

\* Every place is in exactly one wave, and an earlier place is in no later wave.
LEMMA PlacesInWaves ==
  ASSUME NEW n \in Nat, NEW urgent \in BOOLEAN, NEW target \in Nat
  PROVE  LET last == IF urgent THEN 1 ELSE 3
             C(i) == Cut(i, n, urgent, target)
             Waves == {i \in 1 .. last : C(i - 1) < n}
         IN /\ \A r \in 1 .. n : \E i \in Waves : C(i - 1) < r /\ r <= C(i)
            /\ \A i, j \in Waves, r, s \in 1 .. n :
                 C(i - 1) < r /\ r <= C(i) /\ C(j - 1) < s /\ s <= C(j) /\ r <= s => i <= j
<1> DEFINE last == IF urgent THEN 1 ELSE 3
           C(i) == Cut(i, n, urgent, target)
           Waves == {i \in 1 .. last : C(i - 1) < n}
<1>1. /\ C(0) = 0 /\ C(last) = n
      /\ \A i \in 0 .. last : C(i) \in 0 .. n
      /\ \A i, j \in 0 .. last : i <= j => C(i) <= C(j)
  BY CutsAre
<1>2. last = 1 \/ last = 3 OBVIOUS
<1> HIDE DEF C, last
<1>3. ASSUME NEW r \in 1 .. n PROVE \E i \in Waves : C(i - 1) < r /\ r <= C(i)
  <2>1. CASE last = 1
    <3>1. 1 \in 1 .. last /\ 1 - 1 = 0 BY <2>1
    <3>2. C(1 - 1) < r /\ r <= C(1) /\ C(1 - 1) < n BY <2>1, <1>1, <3>1
    <3> QED BY <3>1, <3>2
  <2>2. CASE last = 3
    <3>1. PICK i \in 1 .. 3 : C(i - 1) < r /\ r <= C(i)
      <4>1. C(1) \in 0 .. n /\ C(2) \in 0 .. n /\ C(0) = 0 /\ C(3) = n BY <2>2, <1>1
      <4>2. r <= C(1) \/ (C(1) < r /\ r <= C(2)) \/ (C(2) < r /\ r <= C(3)) BY <4>1
      <4>3. 1 - 1 = 0 /\ 2 - 1 = 1 /\ 3 - 1 = 2 OBVIOUS
      <4>4. C(1 - 1) = C(0) /\ C(2 - 1) = C(1) /\ C(3 - 1) = C(2) BY <4>3
      <4>5. C(0) < r BY <4>1
      <4>6. 1 \in 1 .. 3 /\ 2 \in 1 .. 3 /\ 3 \in 1 .. 3 OBVIOUS
      <4> QED BY <4>2, <4>4, <4>5, <4>6
    <3>2. C(i - 1) \in 0 .. n BY <2>2, <1>1, <3>1
    <3>3. C(i - 1) < n BY <3>1, <3>2
    <3> QED BY <3>1, <3>3, <2>2
  <2> QED BY <2>1, <2>2, <1>2
<1>4. ASSUME NEW i \in Waves, NEW j \in Waves, NEW r \in 1 .. n, NEW s \in 1 .. n,
             C(i - 1) < r, r <= C(i), C(j - 1) < s, s <= C(j), r <= s
      PROVE  i <= j
  <2>1. i \in 1 .. last /\ j \in 1 .. last /\ last \in Int BY <1>2
  <2>2. i \in Int /\ j \in Int BY <2>1
  <2> SUFFICES ASSUME j < i PROVE FALSE BY <2>2
  <2>3. j \in 0 .. last /\ i - 1 \in 0 .. last /\ j <= i - 1 BY <2>1, <2>2
  <2>4. C(j) <= C(i - 1) /\ C(j) \in Int /\ C(i - 1) \in Int BY <2>3, <1>1
  <2> QED BY <2>4, <1>4
<1> QED BY <1>3, <1>4 DEF C, last

\* Two sets of which each element of one has its own of the other are of one size.
LEMMA SameSize ==
  ASSUME NEW S, IsFiniteSet(S), NEW T, NEW f \in [S -> T],
         \A x, y \in S : f[x] = f[y] => x = y,
         \A z \in T : \E x \in S : f[x] = z
  PROVE  IsFiniteSet(T) /\ Cardinality(T) = Cardinality(S)
<1>1. f \in Bijection(S, T) BY DEF Bijection, Injection, IsInjective, Surjection
<1>2. ExistsBijection(S, T) BY <1>1 DEF ExistsBijection
<1>3. QED BY <1>2, FS_Bijection

\* Every good match is told of a gig, or as many of the best as the short list takes; nobody
\* else is and nobody twice, nobody is told after a weaker match, and an urgent gig is told
\* to all at once: see WavesFollow, for every set of candidates, every brief and every
\* number of applications hoped for.
THEOREM WavesFollowMatches ==
  ASSUME NEW found, NEW brief, Rankable(found, brief),
         NEW urgent \in BOOLEAN, NEW target \in Nat
  PROVE  WavesFollow(PlanNotificationWaves(RankCandidates(found, brief), urgent, target),
                     ScoresOf(found, brief), urgent)
<1> DEFINE ranked == RankCandidates(found, brief)
           good == GoodEnough(found, brief)
           n == Len(ranked)
           last == IF urgent THEN 1 ELSE 3
           C(i) == Cut(i, n, urgent, target)
           Waves == {i \in 1 .. last : C(i - 1) < n}
           waves == PlanNotificationWaves(ranked, urgent, target)
           score == ScoresOf(found, brief)
           Told == {v \in DOMAIN score : WavesOf(waves, v) # {}}
<1>1. /\ ranked = [i \in 1 .. Lesser(ShortList, Cardinality(good)) |-> ranked[i]]
      /\ IsFiniteSet(good) /\ Cardinality(good) \in Nat
      /\ \A i \in DOMAIN ranked : ranked[i] \in good
      /\ \A i, j \in DOMAIN ranked : ranked[i] = ranked[j] => i = j
      /\ \A i \in DOMAIN ranked, c \in good :
           Score(c, brief) > Score(ranked[i], brief) =>
             \E j \in DOMAIN ranked : j < i /\ ranked[j] = c
  BY PlacesAreRanks
<1>2. \A c, d \in good : c.id = d.id => c = d BY DEF Rankable, GoodEnough
<1>3. n \in Nat /\ DOMAIN ranked = 1 .. n /\ n = Lesser(ShortList, Cardinality(good))
  <2> HIDE DEF ranked, good
  <2>1. Lesser(ShortList, Cardinality(good)) \in Nat BY <1>1 DEF Lesser, ShortList
  <2>2. ranked \in [1 .. Lesser(ShortList, Cardinality(good)) -> good] BY <1>1
  <2>3. ranked \in Seq(good) BY <2>1, <2>2
  <2>4. Len(ranked) = Lesser(ShortList, Cardinality(good)) BY <2>1, <2>2
  <2> QED BY <2>3, <2>4
<1>4. waves =
        [i \in Waves |-> [ids |-> [k \in 1 .. C(i) - C(i - 1) |-> ranked[C(i - 1) + k].id],
                          delay |-> Delays[i]]]
  BY DEF PlanNotificationWaves
<1>5. DOMAIN score = {c.id : c \in good} /\ \A c \in good : score[c.id] = Score(c, brief)
  <2>1. score = [v \in {c.id : c \in good} |->
                   Score(CHOOSE c \in good : c.id = v, brief)]
    BY DEF ScoresOf, GoodEnough
  <2> HIDE DEF score, good
  <2>2. ASSUME NEW c \in good PROVE score[c.id] = Score(c, brief)
    <3>1. (CHOOSE d \in good : d.id = c.id) = c BY <1>2
    <3> QED BY <2>1, <3>1
  <2> QED BY <2>1, <2>2
<1>6. /\ \A r \in 1 .. n : \E i \in Waves : C(i - 1) < r /\ r <= C(i)
      /\ \A i, j \in Waves, r, s \in 1 .. n :
           C(i - 1) < r /\ r <= C(i) /\ C(j - 1) < s /\ s <= C(j) /\ r <= s => i <= j
  BY <1>3, PlacesInWaves
<1>7. \A i \in Waves : /\ i \in 1 .. 3 /\ (urgent => i = 1)
                       /\ C(i) \in 0 .. n /\ C(i - 1) \in 0 .. n
  <2>1. \A i \in 0 .. last : C(i) \in 0 .. n BY <1>3, CutsAre
  <2>2. \A i \in 1 .. last : i \in 0 .. last /\ i - 1 \in 0 .. last OBVIOUS
  <2>3. \A i \in 1 .. last : i \in 1 .. 3 /\ (urgent => i = 1) OBVIOUS
  <2> HIDE DEF C, n, last
  <2> QED BY <2>1, <2>2, <2>3
<1> HIDE DEF ranked, good, n, last, C, waves, score, Waves, Told
<1>8. DOMAIN waves = Waves BY <1>4
<1>9. \A i \in Waves :
        /\ waves[i].delay = Delays[i]
        /\ DOMAIN waves[i].ids = 1 .. C(i) - C(i - 1)
        /\ \A k \in 1 .. C(i) - C(i - 1) : waves[i].ids[k] = ranked[C(i - 1) + k].id
  BY <1>4
\* The place of an entry of a wave.
<1>10. \A i \in Waves : \A k \in 1 .. C(i) - C(i - 1) :
         /\ C(i - 1) + k \in 1 .. n
         /\ C(i - 1) < C(i - 1) + k /\ C(i - 1) + k <= C(i)
  <2> SUFFICES ASSUME NEW i \in Waves, NEW k \in 1 .. C(i) - C(i - 1)
               PROVE  /\ C(i - 1) + k \in 1 .. n
                      /\ C(i - 1) < C(i - 1) + k /\ C(i - 1) + k <= C(i)
    OBVIOUS
  <2>1. C(i) \in 0 .. n /\ C(i - 1) \in 0 .. n BY <1>7
  <2> QED BY <2>1, <1>3
\* A wave tells v exactly if the place of v is in its stretch.
<1>11. ASSUME NEW v, NEW i \in WavesOf(waves, v)
       PROVE  i \in Waves /\ \E r \in 1 .. n : ranked[r].id = v /\ C(i - 1) < r /\ r <= C(i)
  <2>1. PICK k \in DOMAIN waves[i].ids : waves[i].ids[k] = v BY DEF WavesOf
  <2>2. i \in Waves BY <1>8 DEF WavesOf
  <2>3. k \in 1 .. C(i) - C(i - 1) /\ ranked[C(i - 1) + k].id = v BY <2>1, <2>2, <1>9
  <2> QED BY <2>2, <2>3, <1>10
<1>12. ASSUME NEW r \in 1 .. n, NEW i \in Waves, C(i - 1) < r, r <= C(i)
       PROVE  i \in WavesOf(waves, ranked[r].id)
  <2>1. C(i) \in 0 .. n /\ C(i - 1) \in 0 .. n BY <1>7
  <2>2. PICK k : k = r - C(i - 1) OBVIOUS
  <2>3. k \in 1 .. C(i) - C(i - 1) /\ C(i - 1) + k = r BY <2>1, <2>2, <1>12, <1>3
  <2>4. k \in DOMAIN waves[i].ids /\ waves[i].ids[k] = ranked[r].id BY <2>3, <1>9
  <2> QED BY <2>4, <1>8 DEF WavesOf
<1>13. ASSUME NEW r \in 1 .. n, NEW s \in 1 .. n, ranked[r].id = ranked[s].id PROVE r = s
  <2>1. ranked[r] \in good /\ ranked[s] \in good BY <1>1, <1>3
  <2>2. ranked[r] = ranked[s] BY <2>1, <1>2, <1>13
  <2> QED BY <2>2, <1>1, <1>3
<1>14. ASSUME NEW i \in Waves
       PROVE  /\ \A k, l \in DOMAIN waves[i].ids : waves[i].ids[k] = waves[i].ids[l] => k = l
              /\ \A k \in DOMAIN waves[i].ids : waves[i].ids[k] \in DOMAIN score
              /\ urgent => i = 1 /\ waves[i].delay = 0
  <2>1. DOMAIN waves[i].ids = 1 .. C(i) - C(i - 1) BY <1>9
  <2>2. ASSUME NEW k \in 1 .. C(i) - C(i - 1), NEW l \in 1 .. C(i) - C(i - 1),
               waves[i].ids[k] = waves[i].ids[l]
        PROVE  k = l
    <3>1. C(i - 1) + k = C(i - 1) + l BY <2>2, <1>9, <1>10, <1>13
    <3>2. C(i - 1) \in Int /\ C(i) \in Int BY <1>7, <1>3
    <3> QED BY <3>1, <3>2
  <2>3. ASSUME NEW k \in 1 .. C(i) - C(i - 1) PROVE waves[i].ids[k] \in DOMAIN score
    <3>1. PICK r \in 1 .. n : r = C(i - 1) + k BY <1>10
    <3>2. ranked[r] \in good BY <1>1, <1>3
    <3> QED BY <3>1, <3>2, <1>5, <1>9
  <2>4. urgent => i = 1 /\ waves[i].delay = 0
    <3>1. urgent => i = 1 BY <1>7
    <3>2. Delays[1] = 0 BY DEF Delays
    <3> QED BY <3>1, <3>2, <1>9
  <2> QED BY <2>1, <2>2, <2>3, <2>4
<1>15. ASSUME NEW v, NEW i \in WavesOf(waves, v), NEW j \in WavesOf(waves, v) PROVE i = j
  <2>1. PICK r \in 1 .. n : ranked[r].id = v /\ C(i - 1) < r /\ r <= C(i) BY <1>11
  <2>2. PICK s \in 1 .. n : ranked[s].id = v /\ C(j - 1) < s /\ s <= C(j) BY <1>11
  <2>3. r = s BY <2>1, <2>2, <1>13
  <2>4. i \in Waves /\ j \in Waves BY <1>11
  <2>5. r <= s /\ s <= r BY <2>3, <1>3
  <2>6. i <= j BY <1>6, <2>1, <2>2, <2>4, <2>5
  <2>7. j <= i BY <1>6, <2>1, <2>2, <2>4, <2>5
  <2>8. i \in Int /\ j \in Int BY <2>4, <1>7
  <2> QED BY <2>6, <2>7, <2>8
<1>16. ASSUME NEW v \in DOMAIN score, NEW u \in Told, score[v] > score[u]
       PROVE  v \in Told /\ DelayOf(waves, v) <= DelayOf(waves, u)
  <2>0. u \in DOMAIN score /\ WavesOf(waves, u) # {} BY DEF Told
  <2>1. PICK i : i = (CHOOSE x \in WavesOf(waves, u) : TRUE) OBVIOUS
  <2>2. i \in WavesOf(waves, u) BY <2>0, <2>1
  <2>3. PICK r \in 1 .. n : ranked[r].id = u /\ C(i - 1) < r /\ r <= C(i) BY <2>2, <1>11
  <2>4. PICK c \in good : c.id = v BY <1>5
  <2>5. ranked[r] \in good BY <1>1, <1>3
  <2>6. Score(c, brief) > Score(ranked[r], brief) BY <1>5, <1>16, <2>3, <2>4, <2>5
  <2>7. PICK s \in 1 .. n : s < r /\ ranked[s] = c
    <3>1. r \in DOMAIN ranked BY <1>3
    <3>2. \E s \in DOMAIN ranked : s < r /\ ranked[s] = c
      <4>1. \A x \in DOMAIN ranked : \A d \in good :
              Score(d, brief) > Score(ranked[x], brief) =>
                \E s \in DOMAIN ranked : s < x /\ ranked[s] = d
        BY <1>1
      <4> HIDE DEF good
      <4> QED BY <3>1, <4>1, <2>4, <2>6, Zenon
    <3> QED BY <3>2, <1>3
  <2>8. PICK j \in Waves : C(j - 1) < s /\ s <= C(j) BY <1>6
  <2>9. j \in WavesOf(waves, v)
    <3>1. j \in WavesOf(waves, ranked[s].id) BY <2>8, <1>12
    <3> QED BY <3>1, <2>4, <2>7
  <2>10. (CHOOSE x \in WavesOf(waves, v) : TRUE) = j BY <2>9, <1>15
  <2>11. i \in Waves BY <2>2, <1>11
  <2>12. s <= r BY <2>7, <1>3
  <2>13. j <= i BY <1>6, <2>3, <2>8, <2>11, <2>12
  <2>14. i \in 1 .. 3 /\ j \in 1 .. 3 BY <2>8, <2>11, <1>7
  <2>15. Delays[j] <= Delays[i]
    <3>1. Delays[1] = 0 /\ Delays[2] = 15 /\ Delays[3] = 40 BY DEF Delays
    <3>2. (i = 1 \/ i = 2 \/ i = 3) /\ (j = 1 \/ j = 2 \/ j = 3) BY <2>14
    <3> QED BY <3>1, <3>2, <2>13
  <2>16. DelayOf(waves, v) = Delays[j] /\ DelayOf(waves, u) = Delays[i]
    BY <2>1, <2>8, <2>10, <2>11, <1>9 DEF DelayOf
  <2> QED BY <2>9, <2>15, <2>16 DEF Told
\* Each place of the list is told, and nobody without one.
<1>17. Cardinality(Told) = Lesser(ShortList, Cardinality(DOMAIN score))
  <2> DEFINE f == [r \in 1 .. n |-> ranked[r].id]
             g == [c \in good |-> c.id]
  <2>1. ASSUME NEW r \in 1 .. n PROVE ranked[r].id \in Told
    <3>1. ranked[r].id \in DOMAIN score BY <1>1, <1>3, <1>5
    <3>2. PICK i \in Waves : C(i - 1) < r /\ r <= C(i) BY <1>6
    <3>3. i \in WavesOf(waves, ranked[r].id) BY <3>2, <1>12
    <3> QED BY <3>1, <3>3 DEF Told
  <2>2. ASSUME NEW v \in Told PROVE \E r \in 1 .. n : ranked[r].id = v
    <3>1. PICK i : i \in WavesOf(waves, v) BY DEF Told
    <3> QED BY <3>1, <1>11
  <2>3. f \in [1 .. n -> Told] BY <2>1
  <2>4. \A x, y \in 1 .. n : f[x] = f[y] => x = y BY <1>13
  <2>5. \A v \in Told : \E r \in 1 .. n : f[r] = v BY <2>2
  <2>6. IsFiniteSet(1 .. n) /\ Cardinality(1 .. n) = n BY <1>3, FS_Interval
  <2>7. Cardinality(Told) = n
    <3> HIDE DEF f
    <3> QED BY <2>3, <2>4, <2>5, <2>6, SameSize
  <2>8. g \in [good -> DOMAIN score] BY <1>5
  <2>9. \A c, d \in good : g[c] = g[d] => c = d BY <1>2
  <2>10. \A v \in DOMAIN score : \E c \in good : g[c] = v BY <1>5
  <2>11. Cardinality(DOMAIN score) = Cardinality(good)
    <3> HIDE DEF g
    <3> QED BY <2>8, <2>9, <2>10, <1>1, SameSize
  <2> QED BY <2>7, <2>11, <1>3
<1>18. WavesFollow(waves, score, urgent)
  BY <1>8, <1>14, <1>15, <1>16, <1>17 DEF WavesFollow, Told
<1> QED BY <1>18 DEF waves, score, ranked

-----------------------------------------------------------------------------
\* The invariant

Copies ==
  [who : Vendors, account : Vendors \cup {NoAccount}, offers : BOOLEAN,
   events : Worked \cup {NotSaid}, whole : BOOLEAN]
Candidates == {ToCandidate(v, c, payable) : v \in Vendors, c \in Copies, payable \in BOOLEAN}

\* What a request carries from its body: nothing, a form, or the address of a visit.
CardsCarried ==
  {NoLinks} \cup [slug : Slugs \cup {NoSlug}, full : BOOLEAN, offers : BOOLEAN,
                  events : Worked \cup {NotSaid}, text : Nat]

Requests ==
  [op : {"none", "save", "publish", "unpublish", "visit", "onboard", "search"},
   at : {"idle", "read", "put", "set", "find", "load", "link", "pool"},
   who : Vendors \cup {0}, card : CardsCarried, copy : ProfileRows \cup {NoRow},
   pool : SUBSET Vendors, copies : SUBSET Copies, found : SUBSET Candidates]

Typed ==
  /\ row \in [Vendors -> ProfileRows \cup {NoRow}]
  /\ links \in [Vendors -> [offers : BOOLEAN, events : Worked]]
  /\ ready \subseteq Vendors
  /\ req \in [Workers -> Requests]
  /\ served \in Nat

\* Rows are never deleted, an account is never unlinked, a verified vendor stays verified:
\* what a request has found out about a vendor keeps its worth while the request waits.
Kept(rows, able, rows2, able2) ==
  /\ able \subseteq able2
  /\ \A v \in Vendors :
       rows[v] # NoRow =>
         rows2[v] # NoRow /\ (rows[v].account # NoAccount => rows2[v].account # NoAccount)

Payable(v, rows, able) ==
  v \in Vendors /\ rows[v] # NoRow /\ v \in able /\ rows[v].account # NoAccount

\* The form of a save: that of an accepted body, and a text of its own.
FormOf(card) ==
  [slug |-> card.slug, full |-> card.full, offers |-> card.offers, events |-> card.events]
Carried(card) ==
  /\ FormOf(card) \in Cards /\ card.text \in 1 .. MaxRequests
  /\ card = [slug |-> card.slug, full |-> card.full, offers |-> card.offers,
             events |-> card.events, text |-> card.text]

\* A search has every vendor of its pool once, yet to load, loaded or joined.
Distinct(r) ==
  /\ IsFiniteSet(r.found)
  /\ \A c, d \in r.copies : c.who = d.who => c = d
  /\ \A c, d \in r.found : c.id = d.id => c = d
  /\ \A c \in r.copies : c.who \notin r.pool
  /\ \A c \in r.found : c.id \notin r.pool /\ \A d \in r.copies : d.who # c.id

\* What a request has found out, in a world of rows and verified vendors.
Sound(r, rows, able) ==
  /\ r.op \in {"save", "publish", "unpublish", "onboard"} => r.who \in Vendors
  /\ r.op = "save" => Carried(r.card)
  /\ r.op \in {"publish", "unpublish"} /\ r.at = "set" => rows[r.who] # NoRow
  /\ r.op = "visit" /\ r.at = "load" => r.who \in Vendors /\ rows[r.who] # NoRow
  /\ r.at = "pool" => r.copies = {} /\ r.found = {}
  /\ \A v \in r.pool : rows[v] # NoRow
  /\ \A c \in r.copies :
       c.account # NoAccount => rows[c.who] # NoRow /\ rows[c.who].account # NoAccount
  /\ \A c \in r.found : c.payoutReady = TRUE => Payable(c.id, rows, able)
  /\ Distinct(r)

\* The tables: links without a row are empty, a page is public if it was decided so, and its
\* text is one that stood there.
Tables ==
  \A v \in Vendors :
    /\ row[v] = NoRow => links[v] = NoLinks /\ v \notin decided
    /\ row[v] # NoRow => (row[v].published <=> v \in decided)
    /\ row[v] # NoRow /\ row[v].published => <<v, row[v].text>> \in wasPublic

Answers ==
  /\ VisitorSeesPublic
  /\ \A i \in DOMAIN shortlist : Payable(shortlist[i].id, row, ready)

IInv ==
  /\ Typed /\ Tables /\ Answers
  /\ \A w \in Workers : Sound(req[w], row, ready)

-----------------------------------------------------------------------------
\* Types

LEMMA NoneIsWorked == None \in Worked /\ DOMAIN None = {}
<1>1. None \in [{} -> Nat] BY DEF None
<1>2. {} \in SUBSET UNION EventGroups OBVIOUS
<1> QED BY <1>1, <1>2 DEF Worked, None

LEMMA FormsTyped ==
  ASSUME NEW c \in Cards
  PROVE  /\ c.slug \in Slugs \cup {NoSlug} /\ c.full \in BOOLEAN /\ c.offers \in BOOLEAN
         /\ c.events \in Worked \cup {NotSaid}
         /\ c = [slug |-> c.slug, full |-> c.full, offers |-> c.offers, events |-> c.events]
<1>1. PICK body \in AcceptedBodies :
        c = [slug |-> body.slug, full |-> body.full,
             offers |-> Brief.specialty \in body.specialties,
             events |-> IF body.eventTypes = NotSaid THEN NotSaid
                        ELSE Claims(body.eventTypes)]
  BY DEF Cards
<1>2. body \in Bodies /\ (body.eventTypes # NotSaid => EventTypesAccepted(body.eventTypes))
  BY DEF AcceptedBodies
<1>3. c.slug = body.slug /\ c.full = body.full /\ c.offers \in BOOLEAN BY <1>1
<1>4. c.slug \in Slugs \cup {NoSlug} /\ c.full \in BOOLEAN
  BY <1>2, <1>3, ProfilesAssumption
<1>5. ASSUME body.eventTypes # NotSaid PROVE Claims(body.eventTypes) \in Worked
  <2> DEFINE list == body.eventTypes
             types == {list[i].eventType : i \in DOMAIN list}
  <2>1. /\ \A i \in DOMAIN list : list[i].eventType \in UNION EventGroups
        /\ \A i \in DOMAIN list : list[i].claimed \in Nat \cup {NotSaid}
    BY <1>2, <1>5 DEF EventTypesAccepted
  <2>2. types \in SUBSET UNION EventGroups BY <2>1
  <2>3. ASSUME NEW e \in types
        PROVE  LET entry == list[CHOOSE i \in DOMAIN list : list[i].eventType = e]
               IN (IF entry.claimed = NotSaid THEN 0 ELSE entry.claimed) \in Nat
    <3>1. \E i \in DOMAIN list : list[i].eventType = e OBVIOUS
    <3> DEFINE i == CHOOSE i \in DOMAIN list : list[i].eventType = e
    <3>2. i \in DOMAIN list BY <3>1
    <3> HIDE DEF i
    <3>3. list[i].claimed \in Nat \cup {NotSaid} BY <2>1, <3>2
    <3> QED BY <3>3 DEF i
  <2>4. Claims(list) \in [types -> Nat] BY <2>3 DEF Claims
  <2> HIDE DEF types, list
  <2>5. Claims(list) \in Worked BY <2>2, <2>4 DEF Worked
  <2> QED BY <2>5 DEF list
<1>6. c.events \in Worked \cup {NotSaid} BY <1>1, <1>5
<1> QED BY <1>1, <1>3, <1>4, <1>6

LEMMA IdleIsRequest == Idle \in Requests
<1>1. {} \in SUBSET Vendors /\ {} \in SUBSET Copies /\ {} \in SUBSET Candidates OBVIOUS
<1> QED BY <1>1 DEF Idle, Requests, CardsCarried

LEMMA EventsTyped ==
  ASSUME Typed, NEW v \in Vendors
  PROVE  Events(v) \in Worked \cup {NotSaid}
BY DEF Typed, Events

LEMMA CandidateTyped ==
  ASSUME NEW c \in Candidates
  PROVE  Scorable(c) /\ c.id \in Vendors /\ c.payoutReady \in BOOLEAN
<1>1. PICK v \in Vendors, p \in Copies, payable \in BOOLEAN : c = ToCandidate(v, p, payable)
  BY DEF Candidates
<1>2. /\ c.id = v /\ c.payoutReady = payable /\ c.events = p.events /\ c.miles = Fit[v].miles
      /\ c.rate = Fit[v].rate /\ c.proximity = Fit[v].proximity
      /\ c.reputation = Fit[v].reputation /\ c.responsiveness = Fit[v].responsiveness
  BY <1>1 DEF ToCandidate
<1>3. p.events = NotSaid \/ p.events \in Worked BY DEF Copies
<1> HIDE DEF Copies
<1>4. v \in Nat /\ Fit[v].miles \in Nat /\ Fit[v].rate \in Nat
  BY ProfilesAssumption
<1>5. {Fit[v].proximity, Fit[v].reputation, Fit[v].responsiveness} \subseteq Nat
  BY ProfilesAssumption
<1> QED BY <1>2, <1>3, <1>4, <1>5 DEF Scorable

-----------------------------------------------------------------------------
\* What stays sound

LEMMA SoundStays ==
  ASSUME NEW r \in Requests, NEW rows, NEW able, NEW rows2, NEW able2,
         Sound(r, rows, able), Kept(rows, able, rows2, able2)
  PROVE  Sound(r, rows2, able2)
<1>1. r.who \in Vendors => (rows[r.who] # NoRow => rows2[r.who] # NoRow)
  BY DEF Kept
<1>2. \A v \in r.pool : rows2[v] # NoRow
  BY DEF Kept, Sound, Requests
<1>3. \A c \in r.copies :
        c.account # NoAccount => rows2[c.who] # NoRow /\ rows2[c.who].account # NoAccount
  <2>1. \A c \in r.copies : c.who \in Vendors BY DEF Requests, Copies
  <2> QED BY <2>1 DEF Kept, Sound
<1>4. \A c \in r.found : c.payoutReady = TRUE => Payable(c.id, rows2, able2)
  BY DEF Kept, Sound, Payable
<1> QED BY <1>1, <1>2, <1>3, <1>4 DEF Sound

LEMMA KeptSame == \A rows, able : Kept(rows, able, rows, able)
BY DEF Kept

\* A request that has no search under way and is not at an await that knows anything.
LEMMA FreshIsSound ==
  ASSUME NEW r, NEW rows, NEW able,
         r.pool = {}, r.copies = {}, r.found = {},
         r.op \in {"save", "publish", "unpublish", "onboard"} => r.who \in Vendors,
         r.op = "save" => Carried(r.card),
         r.at # "set", r.at # "load"
  PROVE  Sound(r, rows, able)
<1>1. IsFiniteSet(r.found) BY FS_EmptySet
<1> QED BY <1>1 DEF Sound, Distinct

\* One request goes on in a world that keeps what was known.
LEMMA Frame ==
  ASSUME IInv, NEW w \in Workers, NEW r \in Requests,
         req' = [req EXCEPT ![w] = r],
         Kept(row, ready, row', ready'), Sound(r, row', ready'),
         row' \in [Vendors -> ProfileRows \cup {NoRow}],
         links' \in [Vendors -> [offers : BOOLEAN, events : Worked]],
         ready' \subseteq Vendors, served' \in Nat,
         Tables', Answers'
  PROVE  IInv'
<1>1. req \in [Workers -> Requests] BY DEF IInv, Typed
<1>2. req' \in [Workers -> Requests] BY <1>1
<1>3. Typed' BY <1>2 DEF Typed
<1>4. ASSUME NEW v \in Workers PROVE Sound(req'[v], row', ready')
  <2>1. CASE v = w BY <2>1, <1>1
  <2>2. CASE v # w
    <3>1. req'[v] = req[v] /\ req[v] \in Requests BY <2>2, <1>1
    <3>2. Sound(req[v], row, ready) BY DEF IInv
    <3>3. Sound(req[v], row', ready') BY <3>1, <3>2, SoundStays
    <3> QED BY <3>1, <3>3
  <2> QED BY <2>1, <2>2
<1> QED BY <1>3, <1>4 DEF IInv

\* The same where the tables stay as they are.
LEMMA FrameReads ==
  ASSUME IInv, NEW w \in Workers, NEW r \in Requests,
         req' = [req EXCEPT ![w] = r], Sound(r, row, ready),
         UNCHANGED <<row, links, ready, decided, wasPublic>>, served' \in Nat, Answers'
  PROVE  IInv'
<1>1. Kept(row, ready, row', ready') BY KeptSame
<1>2. Typed /\ Tables BY DEF IInv
<1>3. Tables' BY <1>2 DEF Tables
<1> QED BY <1>1, <1>2, <1>3, Frame DEF Typed

LEMMA AnswersStay ==
  ASSUME IInv, Kept(row, ready, row', ready'), wasPublic \subseteq wasPublic',
         UNCHANGED <<shown, shortlist>>
  PROVE  Answers'
<1>1. Answers BY DEF IInv
<1> QED BY <1>1 DEF Answers, VisitorSeesPublic, Kept, Payable

-----------------------------------------------------------------------------
\* Every action keeps the invariant

LEMMA InitStep == Init => IInv
<1> SUFFICES ASSUME Init PROVE IInv OBVIOUS
<1>1. Typed
  <2>1. NoLinks \in [offers : BOOLEAN, events : Worked] BY NoneIsWorked DEF NoLinks
  <2> QED BY <2>1, IdleIsRequest DEF Init, Typed
<1>2. Tables BY DEF Init, Tables
<1>3. Answers BY DEF Init, Answers, VisitorSeesPublic
<1>4. \A w \in Workers : Sound(req[w], row, ready)
  <2>1. \A w \in Workers : req[w] = Idle BY DEF Init
  <2>2. Sound(Idle, row, ready) BY FreshIsSound DEF Idle
  <2> QED BY <2>1, <2>2
<1> QED BY <1>1, <1>2, <1>3, <1>4 DEF IInv

LEMMA Begins ==
  ASSUME IInv, NEW w \in Workers, NEW r \in Requests, NEW n \in {0, 1}, Begin(w, r, n),
         Sound(r, row, ready)
  PROVE  IInv'
<1>1. /\ req' = [req EXCEPT ![w] = r]
      /\ UNCHANGED <<row, links, ready, decided, wasPublic, shown, shortlist>>
      /\ served' = served + n
  BY DEF Begin, tables, history
<1>2. served' \in Nat BY <1>1 DEF IInv, Typed
<1>3. Answers' BY <1>1, KeptSame, AnswersStay
<1> QED BY <1>1, <1>2, <1>3, FrameReads

LEMMA Ends ==
  ASSUME IInv, NEW w \in Workers, End(w),
         UNCHANGED <<row, links, ready, decided, wasPublic, served>>, Answers'
  PROVE  IInv'
<1>1. req' = [req EXCEPT ![w] = Idle] BY DEF End
<1>2. Sound(Idle, row, ready) BY FreshIsSound DEF Idle
<1>3. served' \in Nat BY DEF IInv, Typed
<1> QED BY <1>1, <1>2, <1>3, IdleIsRequest, FrameReads

LEMMA StartKeeps ==
  ASSUME IInv, NEW w \in Workers, Start(w)
  PROVE  IInv'
<1>1. CASE StartSearch(w)
  <2> DEFINE r == [Idle EXCEPT !.op = "search", !.at = "pool"]
  <2>1. r \in Requests BY IdleIsRequest DEF Requests
  <2>2. /\ r.pool = {} /\ r.copies = {} /\ r.found = {}
        /\ r.op = "search" /\ r.at = "pool"
    BY DEF Idle
  <2>3. Begin(w, r, 0) BY <1>1 DEF StartSearch
  <2> HIDE DEF r
  <2>4. Sound(r, row, ready) BY <2>2, FreshIsSound
  <2> QED BY <2>1, <2>3, <2>4, Begins
<1>2. ASSUME NEW slug \in Slugs, StartVisit(w, slug) PROVE IInv'
  <2> DEFINE card == [slug |-> slug, full |-> FALSE, offers |-> FALSE, events |-> None,
                      text |-> 0]
             r == [Idle EXCEPT !.op = "visit", !.at = "find", !.card = card]
  <2>1. card \in CardsCarried BY NoneIsWorked DEF CardsCarried
  <2>2. Begin(w, r, 0) BY <1>2 DEF StartVisit
  <2> HIDE DEF card
  <2>3. r \in Requests BY <2>1, IdleIsRequest DEF Requests
  <2>4. /\ r.pool = {} /\ r.copies = {} /\ r.found = {}
        /\ r.op = "visit" /\ r.at = "find"
    BY DEF Idle
  <2> HIDE DEF r
  <2>5. Sound(r, row, ready) BY <2>4, FreshIsSound
  <2> QED BY <2>2, <2>3, <2>5, Begins
<1>3. ASSUME NEW v \in Vendors, NEW c \in Cards, StartSave(w, v, c) PROVE IInv'
  <2> DEFINE card == [slug |-> c.slug, full |-> c.full, offers |-> c.offers,
                      events |-> c.events, text |-> served + 1]
             r == [Idle EXCEPT !.op = "save", !.at = "read", !.who = v, !.card = card]
  <2>1. served \in Nat /\ served + 1 <= MaxRequests
    BY <1>3 DEF IInv, Typed, StartSave, Begin
  <2>2. served + 1 \in 1 .. MaxRequests BY <2>1, ProfilesAssumption
  <2>3. card \in CardsCarried BY <2>1, FormsTyped DEF CardsCarried
  <2>4. FormOf(card) = c
    <3>1. c = [slug |-> c.slug, full |-> c.full, offers |-> c.offers, events |-> c.events]
      BY FormsTyped
    <3> QED BY <3>1 DEF FormOf
  <2>5. Carried(card) BY <2>2, <2>4 DEF Carried
  <2>6. Begin(w, r, 1) BY <1>3 DEF StartSave
  <2> HIDE DEF card
  <2>7. r \in Requests BY <2>3, IdleIsRequest DEF Requests
  <2>8. /\ r.pool = {} /\ r.copies = {} /\ r.found = {}
        /\ r.op = "save" /\ r.at = "read" /\ r.who = v /\ r.card = card
    BY DEF Idle
  <2> HIDE DEF r
  <2>9. Sound(r, row, ready) BY <2>5, <2>8, FreshIsSound
  <2> QED BY <2>6, <2>7, <2>9, Begins
<1>4. ASSUME NEW v \in Vendors, NEW wanted \in BOOLEAN, StartPublish(w, v, wanted) PROVE IInv'
  <2> DEFINE op == IF wanted THEN "publish" ELSE "unpublish"
             r == [Idle EXCEPT !.op = op, !.at = "read", !.who = v]
  <2>1. Begin(w, r, 1) BY <1>4 DEF StartPublish
  <2>2. op \in {"publish", "unpublish"} OBVIOUS
  <2> HIDE DEF op
  <2>3. r \in Requests BY <2>2, IdleIsRequest DEF Requests
  <2>4. /\ r.pool = {} /\ r.copies = {} /\ r.found = {}
        /\ r.op = op /\ r.at = "read" /\ r.who = v
    BY DEF Idle
  <2> HIDE DEF r
  <2>5. Sound(r, row, ready) BY <2>2, <2>4, FreshIsSound
  <2> QED BY <2>1, <2>3, <2>5, Begins
<1>5. ASSUME NEW v \in Vendors, StartOnboard(w, v) PROVE IInv'
  <2> DEFINE r == [Idle EXCEPT !.op = "onboard", !.at = "link", !.who = v]
  <2>1. Begin(w, r, 1) BY <1>5 DEF StartOnboard
  <2>2. r \in Requests BY IdleIsRequest DEF Requests
  <2>3. /\ r.pool = {} /\ r.copies = {} /\ r.found = {}
        /\ r.op = "onboard" /\ r.at = "link" /\ r.who = v
    BY DEF Idle
  <2> HIDE DEF r
  <2>4. Sound(r, row, ready) BY <2>3, FreshIsSound
  <2> QED BY <2>1, <2>2, <2>4, Begins
<1> QED BY <1>1, <1>2, <1>3, <1>4, <1>5 DEF Start

\* A request at an await has a request's fields.
LEMMA InFlight ==
  ASSUME IInv, NEW w \in Workers
  PROVE  req[w] \in Requests /\ Sound(req[w], row, ready)
BY DEF IInv, Typed

LEMMA SaveReadKeeps ==
  ASSUME IInv, NEW w \in Workers, SaveRead(w)
  PROVE  IInv'
<1> DEFINE q == req[w]
           r == [q EXCEPT !.copy = row[q.who], !.at = "put"]
<1>1. q \in Requests /\ Sound(q, row, ready) BY InFlight
<1>2. q.op = "save" /\ q.who \in Vendors BY <1>1 DEF SaveRead, At, Sound
<1>3. row[q.who] \in ProfileRows \cup {NoRow} BY <1>2 DEF IInv, Typed
<1>4. /\ req' = [req EXCEPT ![w] = r]
      /\ UNCHANGED <<row, links, ready, decided, wasPublic, shown, shortlist, served>>
  BY DEF SaveRead, tables, history, IInv, Typed
<1>5. r \in Requests BY <1>1, <1>3 DEF Requests
<1>6. /\ r.op = "save" /\ r.at = "put" /\ r.who = q.who /\ r.card = q.card
      /\ r.pool = q.pool /\ r.copies = q.copies /\ r.found = q.found
  BY <1>1, <1>2 DEF Requests
<1> HIDE DEF r, q
<1>7. Sound(r, row, ready) BY <1>1, <1>2, <1>6 DEF Sound, Distinct
<1>8. Answers' BY <1>4, KeptSame, AnswersStay
<1>9. served' \in Nat BY <1>4 DEF IInv, Typed
<1> QED BY <1>4, <1>5, <1>7, <1>8, <1>9, FrameReads

\* The row that a save leaves.
LEMMA SavedRowTyped ==
  ASSUME Typed, NEW v \in Vendors, NEW card, Carried(card), card \in CardsCarried, NEW copy
  PROVE  LET new == SavedRow(v, card, card.text, copy)
         IN /\ new \in ProfileRows /\ new # NoRow
            /\ new.slug = card.slug /\ new.full = card.full /\ new.text = card.text
            /\ new.account = IF row[v] = NoRow THEN NoAccount ELSE row[v].account
            /\ new.published <=> row[v] # NoRow /\ row[v].published
<1> DEFINE new == SavedRow(v, card, card.text, copy)
<1>1. /\ FormOf(card).slug = card.slug /\ FormOf(card).full = card.full
      /\ FormOf(card) \in Cards
  BY DEF FormOf, Carried
<1>2. card.slug \in Slugs \cup {NoSlug} /\ card.full \in BOOLEAN BY <1>1, FormsTyped
<1>3. card.text \in Nat BY ProfilesAssumption DEF Carried
<1>4. row[v] # NoRow => row[v] \in ProfileRows BY DEF Typed
<1>5. new \in ProfileRows BY <1>2, <1>3, <1>4 DEF SavedRow, ProfileRows
<1>6. /\ new.slug = card.slug /\ new.full = card.full /\ new.text = card.text
      /\ new.account = IF row[v] = NoRow THEN NoAccount ELSE row[v].account
      /\ new.published <=> row[v] # NoRow /\ row[v].published
  BY DEF SavedRow
<1> QED BY <1>5, <1>6, ProfilesAssumption

LEMMA SavedLinksTyped ==
  ASSUME Typed, NEW v \in Vendors, NEW card, Carried(card)
  PROVE  SavedLinks(v, card) \in [offers : BOOLEAN, events : Worked]
<1>1. /\ FormOf(card).offers = card.offers /\ FormOf(card).events = card.events
      /\ FormOf(card) \in Cards
  BY DEF FormOf, Carried
<1>2. card.offers \in BOOLEAN /\ card.events \in Worked \cup {NotSaid}
  BY <1>1, FormsTyped
<1>3. links[v].events \in Worked BY DEF Typed
<1> QED BY <1>2, <1>3 DEF SavedLinks

LEMMA PutCrewKeeps ==
  ASSUME IInv, NEW w \in Workers, PutCrew(w)
  PROVE  IInv'
<1> DEFINE q == req[w]
           v == q.who
           card == q.card
           new == SavedRow(v, card, card.text, q.copy)
<1>1. q \in Requests /\ Sound(q, row, ready) BY InFlight
<1>2. v \in Vendors /\ Carried(card) BY <1>1 DEF PutCrew, At, Sound
<1>3. card \in CardsCarried BY <1>1 DEF Requests
<1>4. Typed /\ Tables BY DEF IInv
<1>5. End(w) /\ UNCHANGED <<ready, served, decided, shown, shortlist>> BY DEF PutCrew
<1>6. CASE SlugTaken(v, card.slug) \/ ~Publishable(new)
  <2>1. UNCHANGED <<row, links, wasPublic>> BY <1>6 DEF PutCrew, tables
  <2>2. Answers' BY <1>5, <2>1, KeptSame, AnswersStay
  <2> QED BY <1>5, <2>1, <2>2, Ends
<1>7. CASE ~(SlugTaken(v, card.slug) \/ ~Publishable(new))
  <2>1. /\ row' = [row EXCEPT ![v] = new]
        /\ links' = [links EXCEPT ![v] = SavedLinks(v, card)]
        /\ wasPublic' = Publicly(new, v)
    BY <1>7 DEF PutCrew
  <2>2. /\ new \in ProfileRows /\ new # NoRow
        /\ new.account = IF row[v] = NoRow THEN NoAccount ELSE row[v].account
        /\ new.published <=> row[v] # NoRow /\ row[v].published
    BY <1>2, <1>3, <1>4, SavedRowTyped
  <2>3. SavedLinks(v, card) \in [offers : BOOLEAN, events : Worked]
    BY <1>2, <1>4, SavedLinksTyped
  <2> HIDE DEF new, card, v, q
  <2>4. row' \in [Vendors -> ProfileRows \cup {NoRow}] BY <1>4, <2>1, <2>2 DEF Typed
  <2>5. links' \in [Vendors -> [offers : BOOLEAN, events : Worked]]
    BY <1>4, <2>1, <2>3 DEF Typed
  <2>6. Kept(row, ready, row', ready') BY <1>2, <1>4, <1>5, <2>1, <2>2 DEF Kept, Typed
  <2>7. wasPublic \subseteq wasPublic' /\ (new.published => <<v, new.text>> \in wasPublic')
    BY <2>1 DEF Publicly
  <2>8. Answers' BY <1>5, <2>6, <2>7, AnswersStay
  <2>9. ASSUME NEW u \in Vendors
        PROVE  /\ row'[u] = NoRow => links'[u] = NoLinks /\ u \notin decided'
               /\ row'[u] # NoRow => (row'[u].published <=> u \in decided')
               /\ row'[u] # NoRow /\ row'[u].published => <<u, row'[u].text>> \in wasPublic'
    <3>1. CASE u = v
      <4>1. row'[u] = new BY <3>1, <2>1, <1>4 DEF Typed
      <4>2. new.published <=> v \in decided BY <1>2, <1>4, <2>2 DEF Tables
      <4> QED BY <3>1, <4>1, <4>2, <2>2, <2>7, <1>5
    <3>2. CASE u # v
      <4>1. row'[u] = row[u] /\ links'[u] = links[u] BY <3>2, <2>1, <1>4 DEF Typed
      <4> QED BY <4>1, <2>7, <1>4, <1>5 DEF Tables
    <3> QED BY <3>1, <3>2
  <2>10. Tables' BY <2>9 DEF Tables
  <2>11. req' = [req EXCEPT ![w] = Idle] BY <1>5 DEF End
  <2>12. Sound(Idle, row', ready') BY FreshIsSound DEF Idle
  <2>13. served' \in Nat /\ ready' \subseteq Vendors BY <1>4, <1>5 DEF Typed
  <2> QED BY <2>4, <2>5, <2>6, <2>8, <2>10, <2>11, <2>12, <2>13, IdleIsRequest, Frame
<1> QED BY <1>6, <1>7

LEMMA PublishReadKeeps ==
  ASSUME IInv, NEW w \in Workers, PublishRead(w)
  PROVE  IInv'
<1> DEFINE q == req[w]
           r == [q EXCEPT !.at = "set"]
<1>1. q \in Requests /\ Sound(q, row, ready) BY InFlight
<1>2. q.op \in {"publish", "unpublish"} /\ q.who \in Vendors BY <1>1 DEF PublishRead, Sound
<1>3. UNCHANGED <<row, links, ready, decided, wasPublic, shown, shortlist, served>>
  BY DEF PublishRead, tables, history
<1>4. Answers' BY <1>3, KeptSame, AnswersStay
<1>5. CASE End(w) BY <1>3, <1>4, <1>5, Ends
<1>6. CASE ~End(w)
  <2>1. row[q.who] # NoRow /\ GoTo(w, "set") BY <1>6 DEF PublishRead
  <2>2. req' = [req EXCEPT ![w] = r] BY <2>1 DEF GoTo, IInv, Typed
  <2>3. r \in Requests BY <1>1 DEF Requests
  <2>4. /\ r.op = q.op /\ r.at = "set" /\ r.who = q.who /\ r.card = q.card
        /\ r.pool = q.pool /\ r.copies = q.copies /\ r.found = q.found
    BY <1>1 DEF Requests
  <2> HIDE DEF r, q
  <2>5. Sound(r, row, ready) BY <1>1, <1>2, <2>1, <2>4 DEF Sound, Distinct
  <2>6. served' \in Nat BY <1>3 DEF IInv, Typed
  <2> QED BY <1>3, <1>4, <2>2, <2>3, <2>5, <2>6, FrameReads
<1> QED BY <1>5, <1>6

LEMMA SetPublishedKeeps ==
  ASSUME IInv, NEW w \in Workers, SetPublished(w)
  PROVE  IInv'
<1> DEFINE q == req[w]
           v == q.who
           wanted == (q.op = "publish")
           new == [row[v] EXCEPT !.published = wanted]
<1>1. q \in Requests /\ Sound(q, row, ready) BY InFlight
<1>2. v \in Vendors /\ row[v] # NoRow BY <1>1 DEF SetPublished, Sound
<1>3. Typed /\ Tables BY DEF IInv
<1>4. End(w) /\ UNCHANGED <<links, ready, served, shown, shortlist>> BY DEF SetPublished
<1>5. row[v] \in ProfileRows BY <1>2, <1>3 DEF Typed
<1>6. wanted \in BOOLEAN OBVIOUS
<1>7. /\ new \in ProfileRows /\ new.published = wanted /\ new.account = row[v].account
      /\ new.text = row[v].text
  <2> HIDE DEF wanted, v
  <2> QED BY <1>5, <1>6 DEF ProfileRows
<1>8. new # NoRow
  <2> HIDE DEF new
  <2> QED BY <1>7, ProfilesAssumption
<1>9. CASE ~Publishable(new)
  <2>1. UNCHANGED <<row, decided, wasPublic>> BY <1>9 DEF SetPublished
  <2>2. Answers' BY <1>4, <2>1, KeptSame, AnswersStay
  <2> QED BY <1>4, <2>1, <2>2, Ends
<1>10. CASE Publishable(new)
  <2>1. /\ row' = [row EXCEPT ![v] = new]
        /\ decided' = IF new.published THEN decided \cup {v} ELSE decided \ {v}
        /\ wasPublic' = Publicly(new, v)
    BY <1>10 DEF SetPublished
  <2> HIDE DEF new, wanted, v, q
  <2>4. row' \in [Vendors -> ProfileRows \cup {NoRow}] BY <1>3, <2>1, <1>7 DEF Typed
  <2>6. Kept(row, ready, row', ready') BY <1>2, <1>3, <1>4, <2>1, <1>7, <1>8 DEF Kept, Typed
  <2>7. wasPublic \subseteq wasPublic' /\ (new.published => <<v, new.text>> \in wasPublic')
    BY <2>1 DEF Publicly
  <2>8. Answers' BY <1>4, <2>6, <2>7, AnswersStay
  <2>9. ASSUME NEW u \in Vendors
        PROVE  /\ row'[u] = NoRow => links'[u] = NoLinks /\ u \notin decided'
               /\ row'[u] # NoRow => (row'[u].published <=> u \in decided')
               /\ row'[u] # NoRow /\ row'[u].published => <<u, row'[u].text>> \in wasPublic'
    <3>1. CASE u = v
      <4>1. row'[u] = new BY <3>1, <2>1, <1>3 DEF Typed
      <4>2. new.published <=> v \in decided' BY <2>1, <1>6, <1>7
      <4> QED BY <3>1, <4>1, <4>2, <1>8, <2>7
    <3>2. CASE u # v
      <4>1. row'[u] = row[u] /\ links'[u] = links[u] BY <3>2, <2>1, <1>3, <1>4 DEF Typed
      <4>2. u \in decided' <=> u \in decided BY <3>2, <2>1
      <4> QED BY <4>1, <4>2, <2>7, <1>3 DEF Tables
    <3> QED BY <3>1, <3>2
  <2>10. Tables' BY <2>9 DEF Tables
  <2>11. req' = [req EXCEPT ![w] = Idle] BY <1>4 DEF End
  <2>12. Sound(Idle, row', ready') BY FreshIsSound DEF Idle
  <2>13. /\ served' \in Nat /\ ready' \subseteq Vendors
         /\ links' \in [Vendors -> [offers : BOOLEAN, events : Worked]]
    BY <1>3, <1>4 DEF Typed
  <2> QED BY <2>4, <2>6, <2>8, <2>10, <2>11, <2>12, <2>13, IdleIsRequest, Frame
<1> QED BY <1>9, <1>10

LEMMA VisitFindKeeps ==
  ASSUME IInv, NEW w \in Workers, VisitFind(w)
  PROVE  IInv'
<1> DEFINE q == req[w]
           found == {v \in Vendors : /\ row[v] # NoRow /\ row[v].published
                                     /\ row[v].slug = q.card.slug}
           v == CHOOSE v \in found : TRUE
           r == [q EXCEPT !.who = v, !.at = "load"]
<1>1. q \in Requests /\ Sound(q, row, ready) BY InFlight
<1>2. q.op = "visit" BY DEF VisitFind, At
<1>3. UNCHANGED <<row, links, ready, decided, wasPublic, shown, shortlist, served>>
  BY DEF VisitFind, tables, history
<1>4. Answers' BY <1>3, KeptSame, AnswersStay
<1>5. CASE found = {}
  <2>1. End(w) BY <1>5 DEF VisitFind
  <2> QED BY <1>3, <1>4, <2>1, Ends
<1>6. CASE found # {}
  <2>1. req' = [req EXCEPT ![w] = r] BY <1>6 DEF VisitFind, IInv, Typed
  <2>2. v \in found BY <1>6
  <2>3. v \in Vendors /\ row[v] # NoRow BY <2>2
  <2> HIDE DEF v
  <2>4. r \in Requests BY <1>1, <2>3 DEF Requests
  <2>5. /\ r.op = q.op /\ r.at = "load" /\ r.who = v /\ r.card = q.card
        /\ r.pool = q.pool /\ r.copies = q.copies /\ r.found = q.found
    BY <1>1 DEF Requests
  <2> HIDE DEF r, q
  <2>6. Sound(r, row, ready) BY <1>1, <1>2, <2>3, <2>5 DEF Sound, Distinct
  <2>7. served' \in Nat BY <1>3 DEF IInv, Typed
  <2> QED BY <1>3, <1>4, <2>1, <2>4, <2>6, <2>7, FrameReads
<1> QED BY <1>5, <1>6

LEMMA VisitAnswerKeeps ==
  ASSUME IInv, NEW w \in Workers, VisitAnswer(w)
  PROVE  IInv'
<1> DEFINE v == req[w].who
<1>1. Sound(req[w], row, ready) BY InFlight
<1>2. v \in Vendors /\ row[v] # NoRow BY <1>1 DEF VisitAnswer, At, Sound
<1>3. /\ End(w) /\ UNCHANGED <<row, links, ready, served, wasPublic, decided, shortlist>>
      /\ shown' = IF IsPublic(row[v]) THEN <<v, row[v].text>> ELSE shown
  BY DEF VisitAnswer, tables
<1>4. Answers /\ Tables BY DEF IInv
<1>5. IsPublic(row[v]) => <<v, row[v].text>> \in wasPublic
  BY <1>2, <1>4 DEF Tables, IsPublic
<1>6. Answers' BY <1>3, <1>4, <1>5 DEF Answers, VisitorSeesPublic, Payable
<1> QED BY <1>3, <1>6, Ends

LEMMA LinkStripeAccountKeeps ==
  ASSUME IInv, NEW w \in Workers, LinkStripeAccount(w)
  PROVE  IInv'
<1> DEFINE v == req[w].who
           new == [row[v] EXCEPT !.account = StripeAccount(v)]
<1>1. Sound(req[w], row, ready) BY InFlight
<1>2. v \in Vendors BY <1>1 DEF LinkStripeAccount, At, Sound
<1>3. /\ End(w) /\ UNCHANGED <<links, ready, served, wasPublic, decided, shown, shortlist>>
      /\ row' = IF row[v] = NoRow THEN row ELSE [row EXCEPT ![v].account = StripeAccount(v)]
  BY DEF LinkStripeAccount, history
<1>4. Typed /\ Tables BY DEF IInv
<1>5. CASE row[v] = NoRow
  <2>1. row' = row BY <1>3, <1>5
  <2>2. Answers' BY <1>3, <2>1, KeptSame, AnswersStay
  <2> QED BY <1>3, <2>1, <2>2, Ends
<1>6. CASE row[v] # NoRow
  <2>1. row[v] \in ProfileRows BY <1>2, <1>4, <1>6 DEF Typed
  <2>2. row' = [row EXCEPT ![v] = new] BY <1>2, <1>3, <1>4, <1>6 DEF Typed
  <2>3. /\ new \in ProfileRows /\ new.account = v /\ new.published = row[v].published
        /\ new.text = row[v].text
    <3> HIDE DEF v
    <3> QED BY <2>1, <1>2 DEF ProfileRows, StripeAccount
  <2> HIDE DEF new, v
  <2>4. new # NoRow /\ new.account # NoAccount BY <2>3, <1>2, ProfilesAssumption
  <2>5. row' \in [Vendors -> ProfileRows \cup {NoRow}] BY <1>4, <2>2, <2>3 DEF Typed
  <2>6. Kept(row, ready, row', ready') BY <1>3, <1>4, <2>2, <2>4 DEF Kept, Typed
  <2>7. Answers' BY <1>3, <2>6, AnswersStay
  <2>8. ASSUME NEW u \in Vendors
        PROVE  /\ row'[u] = NoRow => links'[u] = NoLinks /\ u \notin decided'
               /\ row'[u] # NoRow => (row'[u].published <=> u \in decided')
               /\ row'[u] # NoRow /\ row'[u].published => <<u, row'[u].text>> \in wasPublic'
    <3>1. CASE u = v
      <4>1. row'[u] = new BY <3>1, <2>2, <1>4 DEF Typed
      <4> QED BY <3>1, <4>1, <2>3, <2>4, <1>3, <1>4, <1>6 DEF Tables
    <3>2. CASE u # v
      <4>1. row'[u] = row[u] BY <3>2, <2>2, <1>4 DEF Typed
      <4> QED BY <4>1, <1>3, <1>4 DEF Tables
    <3> QED BY <3>1, <3>2
  <2>9. Tables' BY <2>8 DEF Tables
  <2>10. req' = [req EXCEPT ![w] = Idle] BY <1>3 DEF End
  <2>11. Sound(Idle, row', ready') BY FreshIsSound DEF Idle
  <2>12. /\ served' \in Nat /\ ready' \subseteq Vendors
         /\ links' \in [Vendors -> [offers : BOOLEAN, events : Worked]]
    BY <1>3, <1>4 DEF Typed
  <2> QED BY <2>5, <2>6, <2>7, <2>9, <2>10, <2>11, <2>12, IdleIsRequest, Frame
<1> QED BY <1>5, <1>6

LEMMA BecomeReadyKeeps ==
  ASSUME IInv, NEW v \in Vendors, BecomeReady(v)
  PROVE  IInv'
<1>1. /\ ready' = ready \cup {v}
      /\ UNCHANGED <<row, links, req, served, wasPublic, decided, shown, shortlist>>
  BY DEF BecomeReady, tables, history
<1>2. Kept(row, ready, row', ready') BY <1>1 DEF Kept
<1>3. Answers' BY <1>1, <1>2, AnswersStay
<1>4. Typed' /\ Tables'
  <2>1. Typed /\ Tables BY DEF IInv
  <2> QED BY <1>1, <2>1 DEF Typed, Tables
<1>5. ASSUME NEW w \in Workers PROVE Sound(req'[w], row', ready')
  <2>1. req[w] \in Requests /\ Sound(req[w], row, ready) BY InFlight
  <2>2. Sound(req[w], row', ready') BY <1>2, <2>1, SoundStays
  <2> QED BY <1>1, <2>2
<1> QED BY <1>3, <1>4, <1>5 DEF IInv

\* A step of a search: of its request the pool, the copies and what was found change.
LEMMA SearchGoesOn ==
  ASSUME IInv, NEW w \in Workers, NEW r \in Requests, req' = [req EXCEPT ![w] = r],
         r.op = "search", r.at = "load", Distinct(r),
         \A v \in r.pool : row[v] # NoRow,
         \A c \in r.copies :
           c.account # NoAccount => row[c.who] # NoRow /\ row[c.who].account # NoAccount,
         \A c \in r.found : c.payoutReady = TRUE => Payable(c.id, row, ready),
         UNCHANGED <<row, links, ready, decided, wasPublic, shown, shortlist, served>>
  PROVE  IInv'
<1>1. Sound(r, row, ready) BY DEF Sound
<1>2. Answers' BY KeptSame, AnswersStay
<1>3. served' \in Nat BY DEF IInv, Typed
<1> QED BY <1>1, <1>2, <1>3, FrameReads

LEMMA SearchPoolKeeps ==
  ASSUME IInv, NEW w \in Workers, SearchPool(w)
  PROVE  IInv'
<1> DEFINE q == req[w]
           pool == {v \in Vendors : links[v].offers}
           r == [q EXCEPT !.pool = pool, !.at = "load"]
<1>1. q \in Requests /\ Sound(q, row, ready) BY InFlight
<1>2. q.op = "search" BY DEF SearchPool, At
<1>3. UNCHANGED <<row, links, ready, decided, wasPublic, shown, shortlist, served>>
  BY DEF SearchPool, tables, history
<1>4. req' = [req EXCEPT ![w] = r] BY DEF SearchPool, IInv, Typed
<1>5. \A v \in pool : row[v] # NoRow
  <2>1. NoLinks.offers = FALSE BY DEF NoLinks
  <2> QED BY <2>1 DEF IInv, Tables
<1>6. pool \in SUBSET Vendors OBVIOUS
<1> HIDE DEF pool
<1>7. r \in Requests BY <1>1, <1>6 DEF Requests
<1>8. r.op = "search" /\ r.pool = pool /\ r.copies = q.copies /\ r.found = q.found
  BY <1>1, <1>2 DEF Requests
<1>9. q.copies = {} /\ q.found = {} BY <1>1 DEF SearchPool, At, Sound
<1>10. r.at = "load" BY <1>1 DEF Requests
<1> HIDE DEF r, q
<1>11. Distinct(r) BY <1>8, <1>9, FS_EmptySet DEF Distinct
<1> QED BY <1>3, <1>4, <1>5, <1>7, <1>8, <1>9, <1>10, <1>11, SearchGoesOn

LEMMA SearchLoadKeeps ==
  ASSUME IInv, NEW w \in Workers, NEW v \in Vendors, SearchLoad(w, v)
  PROVE  IInv'
<1> DEFINE q == req[w]
           new == [who |-> v, account |-> row[v].account, offers |-> FALSE, events |-> None,
                   whole |-> FALSE]
           r == [q EXCEPT !.pool = @ \ {v}, !.copies = @ \cup {new}]
<1>1. q \in Requests /\ Sound(q, row, ready) BY InFlight
<1>2. q.op = "search" /\ q.at = "load" /\ v \in q.pool BY DEF SearchLoad, At
<1>3. UNCHANGED <<row, links, ready, decided, wasPublic, shown, shortlist, served>>
  BY DEF SearchLoad, tables, history
<1>4. req' = [req EXCEPT ![w] = r] BY DEF SearchLoad, IInv, Typed
<1>5. row[v] # NoRow BY <1>1, <1>2 DEF Sound
<1>6. row[v].account \in Vendors \cup {NoAccount}
  BY <1>5 DEF IInv, Typed, ProfileRows
<1>7. new \in Copies BY <1>6, NoneIsWorked DEF Copies
<1>8. new.who = v /\ new.account = row[v].account OBVIOUS
<1> HIDE DEF new
<1>9. r \in Requests BY <1>1, <1>7 DEF Requests
<1>10. /\ r.op = "search" /\ r.at = "load" /\ r.pool = q.pool \ {v}
       /\ r.copies = q.copies \cup {new} /\ r.found = q.found
  BY <1>1, <1>2 DEF Requests
<1> HIDE DEF r, q
<1>11. Distinct(r) BY <1>1, <1>2, <1>8, <1>10 DEF Distinct, Sound
<1>12. \A u \in r.pool : row[u] # NoRow BY <1>1, <1>10 DEF Sound
<1>13. \A c \in r.copies :
         c.account # NoAccount => row[c.who] # NoRow /\ row[c.who].account # NoAccount
  BY <1>1, <1>5, <1>8, <1>10 DEF Sound
<1>14. \A c \in r.found : c.payoutReady = TRUE => Payable(c.id, row, ready)
  BY <1>1, <1>10 DEF Sound
<1> QED BY <1>3, <1>4, <1>9, <1>10, <1>11, <1>12, <1>13, <1>14, SearchGoesOn

LEMMA SearchLinksKeeps ==
  ASSUME IInv, NEW w \in Workers, NEW v \in Vendors, SearchLinks(w, v)
  PROVE  IInv'
<1> DEFINE q == req[w]
<1>1. q \in Requests /\ Sound(q, row, ready) BY InFlight
<1>2. q.op = "search" /\ q.at = "load" BY DEF SearchLinks, At
<1>3. UNCHANGED <<row, links, ready, decided, wasPublic, shown, shortlist, served>>
  BY DEF SearchLinks, tables, history
<1>4. PICK c \in q.copies :
        /\ c.who = v
        /\ req' = [req EXCEPT ![w].copies =
                     (@ \ {c}) \cup {[c EXCEPT !.offers = links[v].offers,
                                             !.events = Events(v), !.whole = TRUE]}]
  BY DEF SearchLinks
<1> DEFINE new == [c EXCEPT !.offers = links[v].offers, !.events = Events(v), !.whole = TRUE]
           r == [q EXCEPT !.copies = (@ \ {c}) \cup {new}]
<1>5. req' = [req EXCEPT ![w] = r] BY <1>4 DEF IInv, Typed
<1>6. c \in Copies BY <1>1 DEF Requests
<1>7. links[v].offers \in BOOLEAN /\ Events(v) \in Worked \cup {NotSaid}
  BY EventsTyped DEF IInv, Typed
<1>8. new \in Copies /\ new.who = c.who /\ new.account = c.account
  BY <1>6, <1>7 DEF Copies
<1> HIDE DEF new
<1>9. r \in Requests BY <1>1, <1>8 DEF Requests
<1>10. /\ r.op = "search" /\ r.at = "load" /\ r.pool = q.pool
       /\ r.copies = (q.copies \ {c}) \cup {new} /\ r.found = q.found
  BY <1>1, <1>2 DEF Requests
<1> HIDE DEF r, q
<1>11. Distinct(r) BY <1>1, <1>4, <1>8, <1>10 DEF Distinct, Sound
<1>12. \A u \in r.pool : row[u] # NoRow BY <1>1, <1>10 DEF Sound
<1>13. \A d \in r.copies :
         d.account # NoAccount => row[d.who] # NoRow /\ row[d.who].account # NoAccount
  BY <1>1, <1>4, <1>8, <1>10 DEF Sound
<1>14. \A d \in r.found : d.payoutReady = TRUE => Payable(d.id, row, ready)
  BY <1>1, <1>10 DEF Sound
<1> QED BY <1>3, <1>5, <1>9, <1>10, <1>11, <1>12, <1>13, <1>14, SearchGoesOn

LEMMA SearchJoinKeeps ==
  ASSUME IInv, NEW w \in Workers, NEW v \in Vendors, SearchJoin(w, v)
  PROVE  IInv'
<1> DEFINE q == req[w]
<1>1. q \in Requests /\ Sound(q, row, ready) BY InFlight
<1>2. q.op = "search" /\ q.at = "load" BY DEF SearchJoin, At
<1>3. UNCHANGED <<row, links, ready, decided, wasPublic, shown, shortlist, served>>
  BY DEF SearchJoin, tables, history
<1>4. PICK c \in q.copies :
        /\ c.who = v
        /\ req' = [req EXCEPT ![w].copies = @ \ {c}, ![w].found = @ \cup {Candidate(v, c)}]
  BY DEF SearchJoin
<1> DEFINE new == Candidate(v, c)
           r == [q EXCEPT !.copies = @ \ {c}, !.found = @ \cup {new}]
<1>5. req' = [req EXCEPT ![w] = r] BY <1>4 DEF IInv, Typed
<1>6. c \in Copies BY <1>1 DEF Requests
<1>7. CanReceivePayouts(v, c.account) \in BOOLEAN BY DEF CanReceivePayouts
<1>8. new \in Candidates BY <1>6, <1>7 DEF Candidate, Candidates
<1>9. new.id = v /\ new.payoutReady = CanReceivePayouts(v, c.account)
  BY DEF Candidate, ToCandidate
<1>10. new.payoutReady = TRUE => Payable(v, row, ready)
  <2> HIDE DEF new
  <2> QED BY <1>1, <1>4, <1>9 DEF Sound, Payable, CanReceivePayouts
<1> HIDE DEF new
<1>11. r \in Requests BY <1>1, <1>8 DEF Requests
<1>12. /\ r.op = "search" /\ r.at = "load" /\ r.pool = q.pool
       /\ r.copies = q.copies \ {c} /\ r.found = q.found \cup {new}
  BY <1>1, <1>2 DEF Requests
<1> HIDE DEF r, q
<1>13. Distinct(r)
  <2>1. IsFiniteSet(r.found) BY <1>1, <1>12, FS_AddElement DEF Sound, Distinct
  <2> QED BY <2>1, <1>1, <1>4, <1>9, <1>12 DEF Distinct, Sound
<1>14. \A u \in r.pool : row[u] # NoRow BY <1>1, <1>12 DEF Sound
<1>15. \A d \in r.copies :
         d.account # NoAccount => row[d.who] # NoRow /\ row[d.who].account # NoAccount
  BY <1>1, <1>12 DEF Sound
<1>16. \A d \in r.found : d.payoutReady = TRUE => Payable(d.id, row, ready)
  BY <1>1, <1>9, <1>10, <1>12 DEF Sound
<1> QED BY <1>3, <1>5, <1>11, <1>12, <1>13, <1>14, <1>15, <1>16, SearchGoesOn

LEMMA SearchRankKeeps ==
  ASSUME IInv, NEW w \in Workers, SearchRank(w)
  PROVE  IInv'
<1> DEFINE found == req[w].found
<1>1. req[w] \in Requests /\ Sound(req[w], row, ready) BY InFlight
<1>2. /\ shortlist' = RankCandidates(found, Brief)
      /\ End(w) /\ UNCHANGED <<row, links, ready, decided, wasPublic, shown, served>>
  BY DEF SearchRank, tables, history
<1>3. found \subseteq Candidates BY <1>1 DEF Requests
<1>4. IsFiniteSet(found) /\ \A c, d \in found : c.id = d.id => c = d
  BY <1>1 DEF Sound, Distinct
<1>5. \A c \in found : c.payoutReady = TRUE => Payable(c.id, row, ready)
  BY <1>1 DEF Sound
<1>6. Asked(Brief) BY ProfilesAssumption DEF Asked
<1> HIDE DEF found
<1>7. \A c \in found : Scorable(c) /\ c.payoutReady \in BOOLEAN BY <1>3, CandidateTyped
<1>8. ASSUME NEW i \in DOMAIN shortlist' PROVE Payable(shortlist'[i].id, row, ready)
  <2> DEFINE c == RankCandidates(found, Brief)[i]
  <2>1. i \in DOMAIN RankCandidates(found, Brief) BY <1>2
  <2>2. c \in found /\ ~Disqualified(c, Brief) BY <2>1, <1>4, <1>6, <1>7, RankedAreFound
  <2>3. c = shortlist'[i] BY <1>2
  <2> HIDE DEF c
  <2>4. c.payoutReady # FALSE BY <2>2 DEF Disqualified
  <2>5. c.payoutReady = TRUE BY <2>2, <2>4, <1>7
  <2> QED BY <2>2, <2>3, <2>5, <1>5
<1>9. VisitorSeesPublic' BY <1>2 DEF IInv, Answers, VisitorSeesPublic
<1>10. Answers' BY <1>2, <1>8, <1>9 DEF Answers
<1> QED BY <1>2, <1>10, Ends

LEMMA NextStep == IInv /\ [Next]_vars => IInv'
<1> SUFFICES ASSUME IInv, [Next]_vars PROVE IInv' OBVIOUS
<1>1. CASE UNCHANGED vars
  <2>1. UNCHANGED <<row, links, ready, req, served, decided, wasPublic, shown, shortlist>>
    BY <1>1 DEF vars, history
  <2>2. Answers' BY <2>1, KeptSame, AnswersStay
  <2> QED BY <2>1, <2>2 DEF IInv, Typed, Tables
<1>2. ASSUME NEW w \in Workers, Continue(w) PROVE IInv'
  BY <1>2, SaveReadKeeps, PutCrewKeeps, PublishReadKeeps, SetPublishedKeeps, VisitFindKeeps,
     VisitAnswerKeeps, LinkStripeAccountKeeps, SearchPoolKeeps, SearchLoadKeeps,
     SearchLinksKeeps, SearchJoinKeeps, SearchRankKeeps
  DEF Continue
<1> QED BY <1>1, <1>2, StartKeeps, BecomeReadyKeeps DEF Next

-----------------------------------------------------------------------------
\* The properties

\* The invariant holds however the routes of discovery.ts and the onboarding of payments.ts
\* overlap, each of them a statement of store.ts at a time.
THEOREM Invariance == Spec => []IInv
<1>1. IInv /\ [Next]_vars => IInv' BY NextStep
<1> QED BY InitStep, <1>1, PTL DEF Spec

\* A visitor is only ever shown a text that stood on a public page (publishedBySlug of
\* store.ts finds the slug and then loads the profile), even if the page is taken
\* down and rewritten in between.
THEOREM VisitorsSeePublic == Spec => []VisitorSeesPublic
<1>1. IInv => VisitorSeesPublic BY DEF IInv, Answers
<1> QED BY <1>1, Invariance, PTL

\* Saves never publish or unpublish: setPublished in store.ts is the only statement that
\* writes the column, and putCrew leaves it alone whatever old row its caller has read.
THEOREM PagesAreAsDecided == Spec => []PublishedAsDecided
<1>1. IInv => PublishedAsDecided BY DEF IInv, Tables, PublishedAsDecided
<1> QED BY <1>1, Invariance, PTL

\* Whoever the search route of discovery.ts puts on a shortlist can be paid, now and later:
\* the filter of matching.ts asked, and nothing takes the account or the verification back.
THEOREM ShortlistsArePayable == Spec => []ShortlistIsPayable
<1>1. IInv => ShortlistIsPayable
  BY DEF IInv, Answers, Payable, ShortlistIsPayable, CanReceivePayouts
<1> QED BY <1>1, Invariance, PTL

-----------------------------------------------------------------------------
\* Profiles implements ProfileStore

\* The map of the memory store: what loadCrew would return of every vendor.
Map == [v \in Vendors |-> Loaded(v)]

\* No body has an explicitly empty list of event types, which only the memory store keeps.
NoEmptyList == \A c \in Cards : c.events # None

LEMMA LoadedTyped ==
  ASSUME Typed, NEW v \in Vendors, row[v] # NoRow
  PROVE  /\ Loaded(v) \in LoadedProfiles /\ Loaded(v) # NoRow
         /\ Loaded(v) = [slug |-> row[v].slug, full |-> row[v].full, text |-> row[v].text,
                         account |-> row[v].account, published |-> row[v].published,
                         offers |-> links[v].offers, events |-> Events(v)]
<1>1. row[v] \in ProfileRows /\ links[v].offers \in BOOLEAN BY DEF Typed
<1>2. Events(v) \in Worked \cup {NotSaid} BY EventsTyped
<1>3. Loaded(v) = [slug |-> row[v].slug, full |-> row[v].full, text |-> row[v].text,
                   account |-> row[v].account, published |-> row[v].published,
                   offers |-> links[v].offers, events |-> Events(v)]
  BY DEF Loaded
<1>4. Loaded(v) \in LoadedProfiles BY <1>1, <1>2, <1>3 DEF ProfileRows, LoadedProfiles
<1> QED BY <1>3, <1>4, ProfilesAssumption

LEMMA MapSame ==
  ASSUME UNCHANGED <<row, links>>
  PROVE  Map' = Map
BY DEF Map, Loaded, Events

\* One vendor's profile changes, as F says.
LEMMA MapOne ==
  ASSUME NEW v \in Vendors,
         \A u \in Vendors \ {v} : row'[u] = row[u] /\ links'[u] = links[u]
  PROVE  Map' = [Map EXCEPT ![v] = Loaded(v)']
<1>1. ASSUME NEW u \in Vendors, u # v PROVE Loaded(u)' = Loaded(u)
  BY <1>1 DEF Loaded, Events
<1> QED BY <1>1 DEF Map

LEMMA PutCrewAgrees ==
  ASSUME NoEmptyList, IInv, NEW w \in Workers, PutCrew(w)
  PROVE  Memory!Next \/ Map' = Map
<1> DEFINE q == req[w]
           card == q.card
<1>1. q \in Requests /\ Sound(q, row, ready) BY InFlight
<1>2. PICK v \in Vendors : v = q.who BY <1>1 DEF PutCrew, At, Sound
<1> DEFINE new == SavedRow(v, card, card.text, q.copy)
           in == [slug |-> card.slug, full |-> card.full, text |-> card.text,
                  account |-> NoAccount, published |-> new.published,
                  offers |-> card.offers, events |-> card.events]
<1>3. Carried(card) /\ card \in CardsCarried BY <1>1 DEF PutCrew, At, Sound, Requests
<1>4. Typed /\ Tables BY DEF IInv
<1>5. CASE SlugTaken(v, card.slug) \/ ~Publishable(new)
  <2>1. UNCHANGED <<row, links>> BY <1>2, <1>5 DEF PutCrew, tables
  <2> QED BY <2>1, MapSame
<1>6. CASE ~(SlugTaken(v, card.slug) \/ ~Publishable(new))
  <2>1. /\ row' = [row EXCEPT ![v] = new]
        /\ links' = [links EXCEPT ![v] = SavedLinks(v, card)]
    BY <1>2, <1>6 DEF PutCrew
  <2>2. /\ new \in ProfileRows /\ new # NoRow
        /\ new.slug = card.slug /\ new.full = card.full /\ new.text = card.text
        /\ new.account = IF row[v] = NoRow THEN NoAccount ELSE row[v].account
        /\ new.published <=> row[v] # NoRow /\ row[v].published
    BY <1>3, <1>4, SavedRowTyped
  <2>3. FormOf(card) \in Cards /\ card.text \in 1 .. MaxRequests BY <1>3 DEF Carried
  <2>4. /\ FormOf(card).slug = card.slug /\ FormOf(card).full = card.full
        /\ FormOf(card).offers = card.offers /\ FormOf(card).events = card.events
    BY DEF FormOf
  <2>5. new.published \in BOOLEAN BY <2>2 DEF ProfileRows
  <2>6. in \in {[slug |-> c.slug, full |-> c.full, text |-> t, account |-> NoAccount,
                 published |-> p, offers |-> c.offers, events |-> c.events] :
                    c \in Cards, t \in 1 .. MaxRequests, p \in BOOLEAN}
    <3> DEFINE c == FormOf(card)
    <3>1. in = [slug |-> c.slug, full |-> c.full, text |-> card.text, account |-> NoAccount,
                published |-> new.published, offers |-> c.offers, events |-> c.events]
      BY <2>4
    <3> HIDE DEF in, new, c
    <3>2. c \in Cards BY <2>3 DEF c
    <3> QED BY <3>1, <3>2, <2>3, <2>5
  <2>7. card.events # None BY <2>3, <2>4 DEF NoEmptyList
  <2>8. /\ row'[v] = new
        /\ links'[v].offers = card.offers
        /\ links'[v].events = IF card.events = NotSaid THEN links[v].events ELSE card.events
        /\ \A u \in Vendors \ {v} : row'[u] = row[u] /\ links'[u] = links[u]
    BY <1>2, <1>4, <2>1 DEF Typed, SavedLinks
  <2>9. Events(v)' = IF card.events = NotSaid THEN Events(v) ELSE card.events
    BY <2>7, <2>8 DEF Events
  <2>10. Loaded(v)' = [slug |-> card.slug, full |-> card.full, text |-> card.text,
                       account |-> new.account, published |-> new.published,
                       offers |-> card.offers, events |-> Events(v)']
    BY <2>2, <2>8 DEF Loaded
  <2>11. Loaded(v)' = Memory!Preserve(Loaded(v), in)
    <3>1. CASE row[v] = NoRow
      <4>1. Loaded(v) = NoRow BY <3>1 DEF Loaded
      <4>2. links[v].events = None
        <5>1. NoLinks.events = None BY DEF NoLinks
        <5> QED BY <5>1, <1>4, <3>1 DEF Tables
      <4>3. Events(v) = NotSaid BY <4>2 DEF Events
      <4>4. Loaded(v)' = in BY <2>2, <2>9, <2>10, <3>1, <4>3
      <4> HIDE DEF in
      <4> QED BY <4>1, <4>4 DEF Memory!Preserve
    <3>2. CASE row[v] # NoRow
      <4>1. /\ Loaded(v) # NoRow /\ Loaded(v).account = row[v].account
            /\ Loaded(v).events = Events(v)
        BY <1>2, <1>4, <3>2, LoadedTyped
      <4> DEFINE stored == Loaded(v)
      <4>2. new.account = stored.account BY <2>2, <3>2, <4>1
      <4>3. Events(v)' = IF card.events = NotSaid THEN stored.events ELSE card.events
        BY <2>9, <4>1
      <4>4. Memory!Preserve(stored, in) =
              [in EXCEPT !.account = stored.account,
                         !.events = IF in.events = NotSaid THEN stored.events ELSE @]
        BY <4>1 DEF Memory!Preserve
      <4>5. [in EXCEPT !.account = stored.account,
                       !.events = IF in.events = NotSaid THEN stored.events ELSE @] =
              [slug |-> card.slug, full |-> card.full, text |-> card.text,
               account |-> stored.account, published |-> new.published,
               offers |-> card.offers,
               events |-> IF card.events = NotSaid THEN stored.events ELSE card.events]
        <5> DEFINE b == stored.account
                   x == stored.events
                   paid == [slug |-> card.slug, full |-> card.full, text |-> card.text,
                            account |-> b, published |-> new.published,
                            offers |-> card.offers, events |-> card.events]
        <5> HIDE DEF new, card, b, x
        <5>1. in.events = card.events /\ [in EXCEPT !.account = b] = paid OBVIOUS
        <5>2. CASE card.events = NotSaid
          <6>1. [paid EXCEPT !.events = x] =
                  [slug |-> card.slug, full |-> card.full, text |-> card.text, account |-> b,
                   published |-> new.published, offers |-> card.offers, events |-> x]
            OBVIOUS
          <6> HIDE DEF in, paid
          <6>2. [in EXCEPT !.account = b, !.events = IF in.events = NotSaid THEN x ELSE @] =
                  [in EXCEPT !.account = b, !.events = x]
            BY <5>1, <5>2
          <6>3. [in EXCEPT !.account = b, !.events = x] =
                  [[in EXCEPT !.account = b] EXCEPT !.events = x]
            OBVIOUS
          <6> QED BY <5>1, <5>2, <6>1, <6>2, <6>3 DEF b, x
        <5>3. CASE card.events # NotSaid
          <6>1. [paid EXCEPT !.events = @] = paid OBVIOUS
          <6> HIDE DEF in, paid
          <6>2. [in EXCEPT !.account = b, !.events = IF in.events = NotSaid THEN x ELSE @] =
                  [in EXCEPT !.account = b, !.events = @]
            BY <5>1, <5>3
          <6>3. [in EXCEPT !.account = b, !.events = @] =
                  [[in EXCEPT !.account = b] EXCEPT !.events = @]
            OBVIOUS
          <6> QED BY <5>1, <5>3, <6>1, <6>2, <6>3 DEF paid, b, x
        <5> QED BY <5>2, <5>3
      <4> HIDE DEF stored
      <4>6. Loaded(v)' = Memory!Preserve(stored, in) BY <2>10, <4>2, <4>3, <4>4, <4>5
      <4> QED BY <4>6 DEF stored
    <3> QED BY <3>1, <3>2
  <2>12. Memory!SlugFree(v, in.slug)
    <3>1. in.slug = card.slug OBVIOUS
    <3>2. ASSUME card.slug # NoSlug, NEW u \in Vendors \ {v}, Map[u] # NoRow
          PROVE  Map[u].slug # card.slug
      <4>1. Map[u] = Loaded(u) BY DEF Map
      <4>2. row[u] # NoRow BY <3>2, <4>1 DEF Loaded
      <4>3. Map[u].slug = row[u].slug BY <4>1, <4>2 DEF Loaded
      <4>4. row[u].slug # card.slug BY <1>6, <3>2, <4>2 DEF SlugTaken
      <4> QED BY <4>3, <4>4
    <3> HIDE DEF in
    <3> QED BY <3>1, <3>2 DEF Memory!SlugFree, Map
  <2> HIDE DEF in, new, card, q
  <2>13. Map[v] = Loaded(v) BY <1>2 DEF Map
  <2>14. Map' = [Map EXCEPT ![v] = Memory!Preserve(@, in)]
    <3>1. Map' = [Map EXCEPT ![v] = Loaded(v)'] BY <1>2, <2>8, MapOne
    <3> QED BY <3>1, <2>11, <2>13
  <2>15. Memory!PutCrew(v, in) BY <2>12, <2>14 DEF Memory!PutCrew, Map
  <2> QED BY <1>2, <2>6, <2>15 DEF Memory!Next
<1> QED BY <1>5, <1>6

LEMMA SetPublishedAgrees ==
  ASSUME IInv, NEW w \in Workers, SetPublished(w)
  PROVE  Memory!Next \/ Map' = Map
<1> DEFINE q == req[w]
           wanted == (q.op = "publish")
<1>1. q \in Requests /\ Sound(q, row, ready) BY InFlight
<1>2. PICK v \in Vendors : v = q.who /\ row[v] # NoRow BY <1>1 DEF SetPublished, Sound
<1> DEFINE new == [row[v] EXCEPT !.published = wanted]
<1>3. Typed BY DEF IInv
<1>4. row[v] \in ProfileRows /\ wanted \in BOOLEAN BY <1>2, <1>3 DEF Typed
<1>5. /\ new \in ProfileRows /\ new.published = wanted /\ new.account = row[v].account
      /\ new.text = row[v].text /\ new.slug = row[v].slug /\ new.full = row[v].full
  <2> HIDE DEF wanted
  <2> QED BY <1>4 DEF ProfileRows
<1>6. CASE ~Publishable(new)
  <2>1. UNCHANGED <<row, links>> BY <1>2, <1>6 DEF SetPublished
  <2> QED BY <2>1, MapSame
<1>7. CASE Publishable(new)
  <2>1. row' = [row EXCEPT ![v] = new] /\ links' = links BY <1>2, <1>7 DEF SetPublished
  <2> HIDE DEF new, wanted, q
  <2>2. new # NoRow BY <1>5, ProfilesAssumption
  <2>3. row'[v] = new /\ \A u \in Vendors \ {v} : row'[u] = row[u] /\ links'[u] = links[u]
    BY <1>2, <1>3, <2>1 DEF Typed
  <2>4. Loaded(v)' = [slug |-> row[v].slug, full |-> row[v].full, text |-> row[v].text,
                      account |-> row[v].account, published |-> wanted,
                      offers |-> links[v].offers, events |-> Events(v)]
    BY <1>5, <2>1, <2>2, <2>3 DEF Loaded, Events
  <2>5. Map[v] = Loaded(v) BY <1>2 DEF Map
  <2>6. /\ Loaded(v) # NoRow
        /\ Loaded(v) = [slug |-> row[v].slug, full |-> row[v].full, text |-> row[v].text,
                        account |-> row[v].account, published |-> row[v].published,
                        offers |-> links[v].offers, events |-> Events(v)]
    BY <1>2, <1>3, LoadedTyped
  <2>7. [Loaded(v) EXCEPT !.published = wanted] = Loaded(v)' BY <2>4, <2>6
  <2>8. Map' = [Map EXCEPT ![v] = Loaded(v)'] BY <1>2, <2>3, MapOne
  <2>9. Map' = [Map EXCEPT ![v].published = wanted] BY <2>5, <2>7, <2>8
  <2>10. Memory!SetPublished(v, wanted)
    BY <2>5, <2>6, <2>9 DEF Memory!SetPublished, Map
  <2> QED BY <1>2, <1>4, <2>10 DEF Memory!Next
<1> QED BY <1>6, <1>7

LEMMA LinkStripeAccountAgrees ==
  ASSUME IInv, NEW w \in Workers, LinkStripeAccount(w)
  PROVE  Memory!Next \/ Map' = Map
<1>1. Sound(req[w], row, ready) BY InFlight
<1>2. PICK v \in Vendors : v = req[w].who BY <1>1 DEF LinkStripeAccount, At, Sound
<1> DEFINE new == [row[v] EXCEPT !.account = v]
<1>3. /\ links' = links
      /\ row' = IF row[v] = NoRow THEN row ELSE [row EXCEPT ![v].account = v]
  BY <1>2 DEF LinkStripeAccount, StripeAccount
<1>4. Typed BY DEF IInv
<1>5. CASE row[v] = NoRow
  <2>1. row' = row BY <1>3, <1>5
  <2> QED BY <1>3, <2>1, MapSame
<1>6. CASE row[v] # NoRow
  <2>1. row[v] \in ProfileRows BY <1>2, <1>4, <1>6 DEF Typed
  <2>2. row' = [row EXCEPT ![v] = new] BY <1>2, <1>3, <1>4, <1>6 DEF Typed
  <2>3. /\ new \in ProfileRows /\ new.account = v /\ new.published = row[v].published
        /\ new.text = row[v].text /\ new.slug = row[v].slug /\ new.full = row[v].full
    BY <2>1, <1>2 DEF ProfileRows
  <2> HIDE DEF new
  <2>4. new # NoRow BY <2>3, ProfilesAssumption
  <2>5. row'[v] = new /\ \A u \in Vendors \ {v} : row'[u] = row[u] /\ links'[u] = links[u]
    BY <1>2, <1>3, <1>4, <2>2 DEF Typed
  <2>6. Loaded(v)' = [slug |-> row[v].slug, full |-> row[v].full, text |-> row[v].text,
                      account |-> v, published |-> row[v].published,
                      offers |-> links[v].offers, events |-> Events(v)]
    BY <1>3, <2>3, <2>4, <2>5 DEF Loaded, Events
  <2>7. Map[v] = Loaded(v) BY <1>2 DEF Map
  <2>8. /\ Loaded(v) # NoRow
        /\ Loaded(v) = [slug |-> row[v].slug, full |-> row[v].full, text |-> row[v].text,
                        account |-> row[v].account, published |-> row[v].published,
                        offers |-> links[v].offers, events |-> Events(v)]
    BY <1>2, <1>4, <1>6, LoadedTyped
  <2>9. [Loaded(v) EXCEPT !.account = v] = Loaded(v)' BY <2>6, <2>8
  <2>10. Map' = [Map EXCEPT ![v] = Loaded(v)'] BY <1>2, <2>5, MapOne
  <2>11. Map' = [Map EXCEPT ![v].account = v] BY <2>7, <2>9, <2>10
  <2>12. Memory!LinkStripeAccount(v, v)
    BY <2>7, <2>8, <2>11 DEF Memory!LinkStripeAccount, Map
  <2> QED BY <1>2, <2>12 DEF Memory!Next
<1> QED BY <1>5, <1>6

\* Every other step leaves the tables alone.
LEMMA StepAgrees ==
  ASSUME NoEmptyList, IInv, [Next]_vars
  PROVE  [Memory!Next]_Map
<1>1. CASE UNCHANGED vars BY <1>1, MapSame DEF vars, tables
<1>2. ASSUME NEW w \in Workers, NEW r, NEW n, Begin(w, r, n) PROVE Map' = Map
  BY <1>2, MapSame DEF Begin, tables
<1>3. ASSUME NEW w \in Workers, Start(w) PROVE Map' = Map
  BY <1>2, <1>3 DEF Start, StartSearch, StartVisit, StartSave, StartPublish, StartOnboard
<1>4. ASSUME NEW w \in Workers,
             \/ SaveRead(w) \/ PublishRead(w) \/ VisitFind(w) \/ VisitAnswer(w)
             \/ SearchPool(w) \/ SearchRank(w)
             \/ \E v \in Vendors : SearchLoad(w, v) \/ SearchLinks(w, v) \/ SearchJoin(w, v)
      PROVE  Map' = Map
  <2>1. UNCHANGED <<row, links>>
    BY <1>4 DEF SaveRead, PublishRead, VisitFind, VisitAnswer, SearchPool, SearchRank,
                SearchLoad, SearchLinks, SearchJoin, tables
  <2> QED BY <2>1, MapSame
<1>5. ASSUME NEW w \in Workers, Continue(w) PROVE Memory!Next \/ Map' = Map
  BY <1>4, <1>5, PutCrewAgrees, SetPublishedAgrees, LinkStripeAccountAgrees DEF Continue
<1>6. ASSUME NEW v \in Vendors, BecomeReady(v) PROVE Map' = Map
  BY <1>6, MapSame DEF BecomeReady, tables
<1> QED BY <1>1, <1>3, <1>5, <1>6 DEF Next

\* The crew profiles of Postgres, with the joins loadCrew does, behave as the map of the memory
\* store, if no body has an explicitly empty list of event types, which only the map keeps.
THEOREM PostgresKeepsPromise ==
  ASSUME NoEmptyList
  PROVE  Spec => StoresAgree
<1>1. Init => Memory!Init BY DEF Init, Memory!Init, Loaded
<1>2. IInv /\ [Next]_vars => [Memory!Next]_Map BY StepAgrees
<1> QED BY <1>1, <1>2, Invariance, PTL DEF Spec, StoresAgree, Memory!Spec, Map
=============================================================================
