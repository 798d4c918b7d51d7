------------------------------ MODULE Matching ------------------------------
(***************************************************************************)
(* The match engine: domain/matching.ts, with the group and affinity       *)
(* tables of domain/taxonomy.ts.  Which vendors a brief rules out, how the *)
(* others score, in which order they are ranked and in which waves they    *)
(* are told.                                                               *)
(*                                                                         *)
(* A component of the score is a number of basis points, 0 to 10000 for    *)
(* the code's 0 to 1.  Three components are logarithms or smoothed means   *)
(* of one number about the vendor (proximity, reputation, responsiveness); *)
(* a candidate carries their values.                                       *)
(***************************************************************************)
EXTENDS Quotes, Sequences, FiniteSets

CONSTANTS
  EventGroups,    \* EVENT_GROUPS: sets of event types
  RelatedTags,    \* TAG_AFFINITY: the set of pairs <<required, offered>>
  NotSaid         \* eventTypes is undefined: the vendor has not filled the list in

Urgent == 72            \* hours before the event within which everybody is told at once
ShortList == 25         \* rankCandidates: the default limit
MinScore == 25          \* rankCandidates: the default minimum score
TargetApplications == 5 \* planNotificationWaves: the default

\* Hard filters: each removes the candidate outright.  payoutReady is absent (NotSaid)
\* for a caller that does not ask whether the vendor can be paid.
Disqualified(c, brief) ==
  \/ brief.specialty \notin c.specialties
  \/ brief.eventDate \in c.unavailable
  \/ c.payoutReady = FALSE
  \/ QuoteTravel(c.miles, c.policy).outOfRange
  \/ 100 * c.rate > 115 * brief.budgetMax

\* Worked it, worked a sibling, says no, said nothing.  worked maps the event types the
\* vendor lists to their weighted count (verified gigs twice, and the claim).
EventFitScore(eventType, worked) ==
  IF worked = NotSaid THEN 5000
  ELSE IF eventType \in DOMAIN worked THEN 7500 + 125 * Lesser(20, worked[eventType])
  ELSE IF \E group \in EventGroups : eventType \in group /\ DOMAIN worked \cap group # {}
         THEN 5500
         ELSE 1500

TagAffinity(required, offered) ==
  IF required = offered THEN 2 ELSE IF <<required, offered>> \in RelatedTags THEN 1 ELSE 0

CulturalScore(required, offered) ==
  IF required = {} THEN 6000
  ELSE LET exact == required \cap offered
           related == {tag \in required \ offered : \E o \in offered : TagAffinity(tag, o) = 1}
       IN (5000 * (2 * Cardinality(exact) + Cardinality(related))) \div Cardinality(required)

BudgetScore(rate, brief) ==
  LET min == brief.budgetMin
      max == brief.budgetMax
  IN IF max <= 0 THEN 5000
     ELSE IF rate <= min THEN 10000
     ELSE IF rate <= max THEN 10000 - (3500 * (rate - min)) \div Greater(1, max - min)
     ELSE Greater(0, 6500 - (30000 * (rate - max)) \div max)

LanguageScore(required, spoken) ==
  IF required = {} THEN 10000
  ELSE (10000 * Cardinality(required \cap spoken)) \div Cardinality(required)

\* scoreCandidate of a candidate that is not ruled out: the weighted sum, rounded to a
\* whole number out of 100.
Score(c, brief) ==
  LET weighted == 28 * EventFitScore(brief.eventType, c.events)
                + 24 * CulturalScore(brief.tags, c.tags)
                + 17 * c.proximity
                + 12 * BudgetScore(c.rate, brief)
                +  7 * LanguageScore(brief.languages, c.languages)
                +  7 * c.reputation
                +  5 * c.responsiveness
  IN (weighted + 5000) \div 10000

RankCandidatesMut(candidates, brief) ==    \* mutant: a.score - b.score
  LET passed == {c \in candidates : ~Disqualified(c, brief)}
      score == [c \in passed |-> Score(c, brief)]
      eligible == {c \in passed : score[c] >= MinScore}
      Precedes(c, d) ==
        \/ score[c] < score[d]
        \/ /\ score[c] = score[d]
           /\ c.miles < d.miles \/ (c.miles = d.miles /\ c.id < d.id)
      rank == [c \in eligible |-> Cardinality({d \in eligible : Precedes(d, c)}) + 1]
  IN [r \in 1 .. Lesser(ShortList, Cardinality(eligible)) |->
        CHOOSE c \in eligible : rank[c] = r]

\* rankCandidates' order: the better score, then the nearer, then the id.
RankCandidates(candidates, brief) ==
  LET passed == {c \in candidates : ~Disqualified(c, brief)}
      score == [c \in passed |-> Score(c, brief)]
      eligible == {c \in passed : score[c] >= MinScore}
      Precedes(c, d) ==
        \/ score[c] > score[d]
        \/ /\ score[c] = score[d]
           /\ c.miles < d.miles \/ (c.miles = d.miles /\ c.id < d.id)
      rank == [c \in eligible |-> Cardinality({d \in eligible : Precedes(d, c)}) + 1]
  IN [r \in 1 .. Lesser(ShortList, Cardinality(eligible)) |->
        CHOOSE c \in eligible : rank[c] = r]

\* The ranks at which planNotificationWaves cuts the list: wave i is told the ranks above
\* Cut(i - 1) up to Cut(i).  An urgent gig has one wave.
Cut(i, n, urgent, target) ==
  LET first == Greater(target, 3)
  IN IF i = 0 THEN 0
     ELSE IF urgent \/ i >= 3 THEN n
     ELSE IF i = 1 THEN Lesser(n, first)
     ELSE Lesser(n, first + 2 * target)

Delays == <<0, 15, 40>>

\* A wave is planned only while somebody is left to tell.
PlanNotificationWaves(ranked, urgent, target) ==
  LET n == Len(ranked)
      Waves == {i \in 1 .. (IF urgent THEN 1 ELSE 3) : Cut(i - 1, n, urgent, target) < n}
  IN [i \in Waves |->
        [ids |-> [k \in 1 .. Cut(i, n, urgent, target) - Cut(i - 1, n, urgent, target) |->
                    ranked[Cut(i - 1, n, urgent, target) + k].id],
         delay |-> Delays[i]]]

-----------------------------------------------------------------------------
\* Property

\* The scores of the vendors that no hard filter rules out and that are good enough, by id.
ScoresOf(candidates, brief) ==
  LET good == {c \in candidates : ~Disqualified(c, brief) /\ Score(c, brief) >= MinScore}
  IN [v \in {c.id : c \in good} |-> Score(CHOOSE c \in good : c.id = v, brief)]

\* The waves that tell v, and after how many minutes the first of them does.
WavesOf(waves, v) ==
  {i \in DOMAIN waves : \E k \in DOMAIN waves[i].ids : waves[i].ids[k] = v}
DelayOf(waves, v) == waves[CHOOSE i \in WavesOf(waves, v) : TRUE].delay

\* Waves (matching.ts:363-371): every vendor that no hard filter rules out and that is good
\* enough is told, unless the short list is full, and then the better matches are; nobody
\* else is told and nobody twice; a better match is told no later than a weaker one; and an
\* urgent gig has one wave, told at once.
WavesFollow(waves, score, urgent) ==
  LET Told == {v \in DOMAIN score : WavesOf(waves, v) # {}}
  IN /\ Cardinality(Told) = Lesser(ShortList, Cardinality(DOMAIN score))
     /\ \A i \in DOMAIN waves :
          LET ids == waves[i].ids
          IN /\ \A k, l \in DOMAIN ids : ids[k] = ids[l] => k = l
             /\ \A k \in DOMAIN ids : ids[k] \in DOMAIN score
             /\ urgent => i = 1 /\ waves[i].delay = 0
     /\ \A v \in DOMAIN score : \A i, j \in WavesOf(waves, v) : i = j
     /\ \A v \in DOMAIN score, u \in Told :
          score[v] > score[u] => v \in Told /\ DelayOf(waves, v) <= DelayOf(waves, u)
=============================================================================
