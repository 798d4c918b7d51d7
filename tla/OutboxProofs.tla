---------------------------- MODULE OutboxProofs ----------------------------
(***************************************************************************)
(* For any number of requests, pods, subscribers and faults: units of work *)
(* are whole, marked rows have been handled, only a failure repeats a      *)
(* delivery, and nothing is told that has not happened.                    *)
(*                                                                         *)
(* The invariant has two halves.  Writing is about the requests and the    *)
(* table they fill, Relaying about the passes that empty it; the relays    *)
(* touch nothing of the first, and the requests only add to the table the  *)
(* second reads.                                                           *)
(***************************************************************************)
EXTENDS Outbox, FiniteSetTheorems, SequenceTheorems, TLAPS

Places == {"idle", "publishing", "done", "lost"}

WritingTypes ==
  /\ changed \subseteq Requests
  /\ inserted \in Seq(Events)
  /\ committed \subseteq DOMAIN inserted
  /\ doing \in [Requests -> [at : Places, ids : SUBSET DOMAIN inserted]]

\* A request knows its own rows.
Own ==
  \A r \in Requests :
    IsFiniteSet(doing[r].ids) /\ \A i \in doing[r].ids : ChangeOf(inserted[i]) = r

\* A unit of work shows nothing until it is done, and then everything.
Whole(r) ==
  /\ doing[r].at \in {"idle", "publishing"} => r \notin changed /\ RowsOf(r) = {}
  /\ doing[r].at = "done" =>
       r \in changed /\ RowsOf(r) = doing[r].ids /\ Cardinality(doing[r].ids) = Count[r]
  /\ doing[r].at # "lost"

\* A request that saves on its own has changed something before it publishes.
Loose(r) ==
  /\ doing[r].at = "idle" => r \notin changed
  /\ doing[r].at = "publishing" => r \in changed

Told == \A i \in committed : ChangeOf(inserted[i]) \in changed

Writing ==
  /\ WritingTypes /\ Own /\ Told
  /\ \A r \in Inside : Whole(r)
  /\ \A r \in Requests \ Inside : Loose(r)

RelayTypes ==
  /\ published \subseteq committed
  /\ pass \in [Pods -> [locked : SUBSET committed, left : SUBSET committed, done : SUBSET committed]]
  /\ seen \in [Subscribers -> Seq(committed)]

\* Each pass holds rows of its own, unmarked; the delivered ones have been handled by
\* all, the failed ones are known to be spoiled.
Pass(p) ==
  /\ pass[p].left \subseteq pass[p].locked /\ pass[p].done \subseteq pass[p].locked
  /\ pass[p].left \cap pass[p].done = {}
  /\ pass[p].locked \cap published = {}
  /\ \A i \in pass[p].done, s \in Subscribers : i \in Handled(s)

Apart == \A p, q \in Pods : p # q => pass[p].locked \cap pass[q].locked = {}

\* A row that has been handled is marked, about to be, or spoiled.
Accounted ==
  \A s \in Subscribers : \A i \in Handled(s) :
    i \in published \/ i \in spoiled \/ \E p \in Pods : i \in pass[p].done

Relaying ==
  /\ RelayTypes
  /\ \A p \in Pods : Pass(p)
  /\ Apart /\ Accounted /\ PublishedIsSeen /\ SeenOnce

IInv == Writing /\ Relaying

-----------------------------------------------------------------------------
\* Lemmas

\* A sequence over a set is one over any larger set.
LEMMA Wider ==
  ASSUME NEW S, NEW T, S \subseteq T, NEW q \in Seq(S)
  PROVE  q \in Seq(T)
OBVIOUS

\* Appending adds one element to those a sequence holds.
LEMMA AppendedHandled ==
  ASSUME NEW S, NEW q \in Seq(S), NEW i
  PROVE  {Append(q, i)[k] : k \in DOMAIN Append(q, i)} = {q[k] : k \in DOMAIN q} \cup {i}
<1>1. /\ Len(q) \in Nat /\ DOMAIN q = 1..Len(q) /\ DOMAIN Append(q, i) = 1..(Len(q) + 1)
      /\ \A k \in 1..Len(q) : Append(q, i)[k] = q[k]
      /\ Append(q, i)[Len(q) + 1] = i
  OBVIOUS
<1>2. \A k \in 1..(Len(q) + 1) : k \in 1..Len(q) \/ k = Len(q) + 1
  BY <1>1
<1>3. 1..Len(q) \subseteq 1..(Len(q) + 1) /\ Len(q) + 1 \in 1..(Len(q) + 1)
  BY <1>1
<1> QED
  BY <1>1, <1>2, <1>3

\* The ids handled are ids of committed rows.
LEMMA HandledRows ==
  ASSUME RelayTypes, NEW s \in Subscribers
  PROVE  Handled(s) \subseteq committed
BY DEF RelayTypes, Handled

\* The table can only grow under the relays: what Relaying says stays true.
LEMMA TableGrows ==
  ASSUME Relaying, committed \subseteq committed', UNCHANGED <<published, pass, seen, twice, spoiled>>
  PROVE  Relaying'
<1>1. RelayTypes'
  <2>1. \A s \in Subscribers : seen[s] \in Seq(committed')
    BY Wider DEF Relaying, RelayTypes
  <2> QED
    BY <2>1 DEF Relaying, RelayTypes
<1>2. \A s : Handled(s)' = Handled(s)
  BY DEF Handled
<1>3. \A p \in Pods : Pass(p)'
  BY <1>2 DEF Relaying, Pass
<1>4. Apart' /\ Accounted' /\ PublishedIsSeen' /\ SeenOnce'
  BY <1>2 DEF Relaying, Apart, Accounted, PublishedIsSeen, SeenOnce
<1> QED
  BY <1>1, <1>3, <1>4 DEF Relaying

\* What Writing says does not depend on the relays.
LEMMA RelaysDoNotWrite ==
  ASSUME Writing, UNCHANGED <<changed, inserted, committed, doing>>
  PROVE  Writing'
BY DEF Writing, WritingTypes, Own, Told, Whole, Loose, RowsOf

\* Of the requests, a step concerns one; the rows of the others stay as they are.
LEMMA OthersStay ==
  ASSUME Writing, NEW r \in Requests, WritingTypes',
         \A q \in Requests \ {r} : doing'[q] = doing[q] /\ (q \in changed' <=> q \in changed),
         \A i \in DOMAIN inserted : inserted'[i] = inserted[i],
         DOMAIN inserted \subseteq DOMAIN inserted',
         committed \subseteq committed',
         \A i \in committed' \ committed : ChangeOf(inserted'[i]) = r,
         IsFiniteSet(doing'[r].ids), \A i \in doing'[r].ids : ChangeOf(inserted'[i]) = r,
         Told', IF r \in Inside THEN Whole(r)' ELSE Loose(r)'
  PROVE  Writing'
<1>1. Own'
  <2> SUFFICES ASSUME NEW q \in Requests, q # r
               PROVE  IsFiniteSet(doing'[q].ids) /\ \A i \in doing'[q].ids : ChangeOf(inserted'[i]) = q
    BY DEF Own
  <2>1. doing'[q] = doing[q] /\ doing[q].ids \subseteq DOMAIN inserted
    BY DEF Writing, WritingTypes
  <2> QED
    BY <2>1 DEF Writing, Own, ChangeOf
<1>2. ASSUME NEW q \in Requests, q # r
      PROVE  RowsOf(q)' = RowsOf(q)
  BY <1>2 DEF RowsOf, ChangeOf, Writing, WritingTypes
<1>3. \A q \in Inside : Whole(q)'
  BY <1>2, OutboxAssumption DEF Whole, Writing
<1>4. \A q \in Requests \ Inside : Loose(q)'
  BY DEF Loose, Writing
<1> QED
  BY <1>1, <1>3, <1>4 DEF Writing

-----------------------------------------------------------------------------
\* Requests

LEMMA InitIInv == Init => IInv
<1> SUFFICES ASSUME Init PROVE IInv
  OBVIOUS
<1>1. WritingTypes
  BY DEF Init, WritingTypes, Places
<1>2. Own /\ Told
  BY FS_EmptySet DEF Init, Own, Told
<1>3. \A r \in Requests : Whole(r) /\ Loose(r)
  BY DEF Init, Whole, Loose, RowsOf
<1>7. Writing
  BY <1>1, <1>2, <1>3, OutboxAssumption DEF Writing
<1>4. RelayTypes /\ Apart /\ \A p \in Pods : Pass(p)
  BY DEF Init, RelayTypes, Apart, Pass, Resting
<1>5. \A s \in Subscribers : Handled(s) = {}
  BY DEF Init, Handled
<1>6. Accounted /\ PublishedIsSeen /\ SeenOnce
  BY <1>5 DEF Init, Accounted, PublishedIsSeen, SeenOnce
<1> QED
  BY <1>4, <1>6, <1>7 DEF IInv, Relaying

\* What the invariant says of one request.
LEMMA RequestFacts ==
  ASSUME Writing, NEW r \in Requests
  PROVE  /\ doing[r].at \in Places /\ doing[r].ids \subseteq DOMAIN inserted
         /\ doing[r] = [at |-> doing[r].at, ids |-> doing[r].ids]
         /\ IsFiniteSet(doing[r].ids) /\ \A i \in doing[r].ids : ChangeOf(inserted[i]) = r
         /\ r \in Inside => Whole(r)
         /\ r \notin Inside => Loose(r)
BY OutboxAssumption DEF Writing, WritingTypes, Own

LEMMA SaveStep ==
  ASSUME IInv, NEW r \in Requests, Save(r)
  PROVE  IInv'
<1>1. /\ UNCHANGED <<inserted, committed, published, pass, seen, twice, spoiled>>
      /\ doing[r].at = "idle" /\ doing' = [doing EXCEPT ![r].at = "publishing"]
      /\ changed' = IF r \in Inside THEN changed ELSE changed \cup {r}
  BY DEF Save, outbox, history
<1>2. Writing
  BY DEF IInv
<1>3. doing'[r] = [at |-> "publishing", ids |-> doing[r].ids]
  BY <1>1, <1>2, RequestFacts DEF Writing, WritingTypes
<1>4. WritingTypes'
  BY <1>1, <1>2, RequestFacts DEF Writing, WritingTypes, Places
<1>5. \A q \in Requests \ {r} : doing'[q] = doing[q] /\ (q \in changed' <=> q \in changed)
  BY <1>1, <1>2 DEF Writing, WritingTypes
<1>6. Told'
  BY <1>1, <1>2 DEF Writing, Told
<1>7. IF r \in Inside THEN Whole(r)' ELSE Loose(r)'
  <2>1. CASE r \in Inside
    <3>1. r \notin changed' /\ RowsOf(r) = {} /\ RowsOf(r)' = RowsOf(r)
      BY <1>1, <1>2, <2>1, RequestFacts DEF Whole, RowsOf
    <3> QED
      BY <1>3, <2>1, <3>1 DEF Whole
  <2>2. CASE r \notin Inside
    <3>1. r \in changed' /\ doing'[r].at = "publishing"
      BY <1>1, <1>3, <2>2
    <3> QED
      BY <2>2, <3>1 DEF Loose
  <2> QED
    BY <2>1, <2>2
<1>8. Writing'
  <2>1. IsFiniteSet(doing'[r].ids) /\ \A i \in doing'[r].ids : ChangeOf(inserted'[i]) = r
    <3>1. doing'[r].ids = doing[r].ids /\ inserted' = inserted
      BY <1>1, <1>3
    <3> QED
      BY <1>2, <3>1, RequestFacts
  <2>2. /\ \A i \in DOMAIN inserted : inserted'[i] = inserted[i]
        /\ DOMAIN inserted \subseteq DOMAIN inserted' /\ committed \subseteq committed'
        /\ committed' \ committed = {}
    BY <1>1
  <2> QED
    BY <1>2, <1>4, <1>5, <1>6, <1>7, <2>1, <2>2, OthersStay
<1>9. Relaying'
  BY <1>1, TableGrows DEF IInv
<1> QED
  BY <1>8, <1>9 DEF IInv

LEMMA PublishStep ==
  ASSUME IInv, NEW r \in Requests, Publish(r)
  PROVE  IInv'
<1> DEFINE id == Len(inserted) + 1
           e == <<r, Written(r) + 1>>
<1>1. /\ UNCHANGED <<changed, published, pass, seen, twice, spoiled>>
      /\ doing[r].at = "publishing" /\ Written(r) < Count[r]
      /\ doing' = [doing EXCEPT ![r].ids = @ \cup {id}]
      /\ inserted' = Append(inserted, e)
      /\ committed' = IF r \in Inside THEN committed ELSE committed \cup {id}
  BY DEF Publish, history
<1>2. Writing
  BY DEF IInv
<1>3. e \in Events
  <2>1. Written(r) \in Nat
    BY <1>2, RequestFacts, FS_CardinalityType DEF Written
  <2>2. Count[r] \in Nat /\ Written(r) + 1 \in 1..Count[r]
    BY <1>1, <2>1, OutboxAssumption
  <2> QED
    BY <2>2 DEF Events
<1>4. /\ inserted' \in Seq(Events) /\ DOMAIN inserted' = DOMAIN inserted \cup {id}
      /\ inserted'[id] = e /\ \A i \in DOMAIN inserted : inserted'[i] = inserted[i]
      /\ id \notin DOMAIN inserted
  <2> HIDE DEF e
  <2> QED
    BY <1>1, <1>2, <1>3 DEF Writing, WritingTypes
<1>5. doing'[r] = [at |-> "publishing", ids |-> doing[r].ids \cup {id}]
  BY <1>1, <1>2, RequestFacts DEF Writing, WritingTypes
<1>6. WritingTypes'
  <2>1. changed' \subseteq Requests /\ committed' \subseteq DOMAIN inserted'
    BY <1>1, <1>2, <1>4 DEF Writing, WritingTypes
  <2>2. \A q \in Requests : doing'[q] \in [at : Places, ids : SUBSET DOMAIN inserted']
    BY <1>1, <1>2, <1>4, <1>5, RequestFacts DEF Writing, WritingTypes, Places
  <2>3. DOMAIN doing' = Requests /\ doing' = [q \in Requests |-> doing'[q]]
    BY <1>1, <1>2 DEF Writing, WritingTypes
  <2> QED
    BY <1>4, <2>1, <2>2, <2>3 DEF WritingTypes
<1>7. \A q \in Requests \ {r} : doing'[q] = doing[q] /\ (q \in changed' <=> q \in changed)
  BY <1>1, <1>2 DEF Writing, WritingTypes
<1>8. IsFiniteSet(doing'[r].ids) /\ \A i \in doing'[r].ids : ChangeOf(inserted'[i]) = r
  <2>1. IsFiniteSet(doing[r].ids \cup {id})
    BY <1>2, RequestFacts, FS_AddElement
  <2> QED
    <3>1. \A i \in doing[r].ids : ChangeOf(inserted'[i]) = r
      BY <1>2, <1>4, RequestFacts DEF ChangeOf
    <3>2. ChangeOf(inserted'[id]) = r
      BY <1>4 DEF ChangeOf
    <3>3. doing'[r].ids = doing[r].ids \cup {id}
      BY <1>5
    <3> HIDE DEF id
    <3> QED
      BY <2>1, <3>1, <3>2, <3>3
<1>9. \A i \in committed' \ committed : ChangeOf(inserted'[i]) = r
  BY <1>1, <1>4 DEF ChangeOf
<1>10. Told'
  <2>1. \A i \in committed : ChangeOf(inserted'[i]) \in changed
    BY <1>2, <1>4 DEF Writing, WritingTypes, Told, ChangeOf
  <2>2. r \notin Inside => r \in changed
    BY <1>1, <1>2, RequestFacts DEF Loose
  <2> QED
    BY <1>1, <1>9, <2>1, <2>2 DEF Told
<1>11. IF r \in Inside THEN Whole(r)' ELSE Loose(r)'
  <2>1. CASE r \in Inside
    <3>1. r \notin changed' /\ RowsOf(r) = {} /\ committed' = committed
      BY <1>1, <1>2, <2>1, RequestFacts DEF Whole
    <3>2. RowsOf(r)' = {}
      BY <1>2, <1>4, <3>1 DEF RowsOf, ChangeOf, Writing, WritingTypes
    <3> QED
      BY <1>5, <2>1, <3>1, <3>2 DEF Whole
  <2>2. CASE r \notin Inside
    <3>1. r \in changed'
      BY <1>1, <1>2, <2>2, RequestFacts DEF Loose
    <3>2. doing'[r].at = "publishing"
      BY <1>5
    <3> QED
      BY <2>2, <3>1, <3>2 DEF Loose
  <2> QED
    BY <2>1, <2>2
<1>12. DOMAIN inserted \subseteq DOMAIN inserted' /\ committed \subseteq committed'
  BY <1>1, <1>4
<1>13. Writing'
  BY <1>2, <1>4, <1>6, <1>7, <1>8, <1>9, <1>10, <1>11, <1>12, OthersStay
<1>14. Relaying'
  BY <1>1, <1>12, TableGrows DEF IInv
<1> QED
  BY <1>13, <1>14 DEF IInv

LEMMA CommitStep ==
  ASSUME IInv, NEW r \in Requests, Commit(r)
  PROVE  IInv'
<1>1. /\ UNCHANGED <<inserted, published, pass, seen, twice, spoiled>>
      /\ doing[r].at = "publishing" /\ Written(r) = Count[r]
      /\ doing' = [doing EXCEPT ![r].at = "done"]
      /\ changed' = changed \cup {r} /\ committed' = committed \cup doing[r].ids
  BY DEF Commit, history
<1>2. Writing
  BY DEF IInv
<1>3. doing'[r] = [at |-> "done", ids |-> doing[r].ids]
  BY <1>1, <1>2, RequestFacts DEF Writing, WritingTypes
<1>4. WritingTypes'
  BY <1>1, <1>2, RequestFacts DEF Writing, WritingTypes, Places
<1>5. \A q \in Requests \ {r} : doing'[q] = doing[q] /\ (q \in changed' <=> q \in changed)
  BY <1>1, <1>2 DEF Writing, WritingTypes
<1>6. \A i \in doing[r].ids : ChangeOf(inserted'[i]) = r
  BY <1>1, <1>2, RequestFacts
<1>7. Told'
  BY <1>1, <1>2, <1>6 DEF Writing, Told
<1>8. IF r \in Inside THEN Whole(r)' ELSE Loose(r)'
  <2>1. CASE r \in Inside
    <3>0. doing'[r].at = "done" /\ doing'[r].ids = doing[r].ids
      BY <1>3
    <3>1. RowsOf(r) = {} /\ doing'[r].at = "done" /\ doing'[r].ids = doing[r].ids
      <4>1. Whole(r)
        BY <1>2, <2>1, RequestFacts
      <4> QED
        BY <1>1, <3>0, <4>1 DEF Whole
    <3>2. RowsOf(r)' = doing'[r].ids
      BY <1>1, <1>6, <3>1 DEF RowsOf
    <3>3. Cardinality(doing'[r].ids) = Count[r]
      BY <1>1, <3>1 DEF Written
    <3> QED
      BY <1>1, <2>1, <3>1, <3>2, <3>3 DEF Whole
  <2>2. CASE r \notin Inside
    BY <1>1, <1>3, <2>2 DEF Loose
  <2> QED
    BY <2>1, <2>2
<1>9. Writing'
  <2>1. IsFiniteSet(doing'[r].ids) /\ \A i \in doing'[r].ids : ChangeOf(inserted'[i]) = r
    <3>1. doing'[r].ids = doing[r].ids
      BY <1>3
    <3> QED
      BY <1>2, <1>6, <3>1, RequestFacts
  <2>2. /\ \A i \in DOMAIN inserted : inserted'[i] = inserted[i]
        /\ DOMAIN inserted \subseteq DOMAIN inserted' /\ committed \subseteq committed'
        /\ committed' \ committed \subseteq doing[r].ids
    BY <1>1
  <2> QED
    BY <1>2, <1>4, <1>5, <1>6, <1>7, <1>8, <2>1, <2>2, OthersStay
<1>10. Relaying'
  BY <1>1, TableGrows DEF IInv
<1> QED
  BY <1>9, <1>10 DEF IInv

LEMMA LoseStep ==
  ASSUME IInv, NEW r \in Requests, Lose(r)
  PROVE  IInv'
<1> DEFINE new == [at |-> IF r \in Inside THEN "idle" ELSE "lost", ids |-> {}]
<1>1. /\ UNCHANGED <<changed, inserted, committed, published, pass, seen, twice, spoiled>>
      /\ doing[r].at = "publishing" /\ doing' = [doing EXCEPT ![r] = new]
  BY DEF Lose, history, outbox
<1>2. Writing
  BY DEF IInv
<1>3. doing'[r] = new /\ IsFiniteSet(doing'[r].ids)
  BY <1>1, <1>2, FS_EmptySet DEF Writing, WritingTypes
<1>4. WritingTypes'
  BY <1>1, <1>2, RequestFacts DEF Writing, WritingTypes, Places
<1>5. \A q \in Requests \ {r} : doing'[q] = doing[q]
  BY <1>1, <1>2 DEF Writing, WritingTypes
<1>6. Told'
  BY <1>1, <1>2 DEF Writing, Told
<1>7. IF r \in Inside THEN Whole(r)' ELSE Loose(r)'
  <2>1. CASE r \in Inside
    <3>1. r \notin changed' /\ RowsOf(r) = {} /\ RowsOf(r)' = RowsOf(r)
      BY <1>1, <1>2, <2>1, RequestFacts DEF Whole, RowsOf
    <3>2. doing'[r].at = "idle"
      BY <1>3, <2>1
    <3> QED
      BY <2>1, <3>1, <3>2 DEF Whole
  <2>2. CASE r \notin Inside
    <3>1. doing'[r].at = "lost"
      BY <1>3, <2>2
    <3> QED
      BY <2>2, <3>1 DEF Loose
  <2> QED
    BY <2>1, <2>2
<1>8. Writing'
  BY <1>1, <1>2, <1>3, <1>4, <1>5, <1>6, <1>7, OthersStay
<1>9. Relaying'
  BY <1>1, TableGrows DEF IInv
<1> QED
  BY <1>8, <1>9 DEF IInv

-----------------------------------------------------------------------------
\* Relays

\* What the invariant says of one pass, and what handling a row adds.
LEMMA PassFacts ==
  ASSUME Relaying, NEW p \in Pods
  PROVE  /\ pass[p].locked \subseteq committed /\ Pass(p)
         /\ pass[p] = [locked |-> pass[p].locked, left |-> pass[p].left, done |-> pass[p].done]
         /\ pass[p].left \subseteq committed /\ pass[p].done \subseteq committed
BY DEF Relaying, RelayTypes

LEMMA HandFacts ==
  ASSUME RelayTypes, NEW i \in committed, NEW S \in SUBSET Subscribers, Hand(i, S)
  PROVE  /\ seen' \in [Subscribers -> Seq(committed)]
         /\ \A s \in Subscribers :
              Handled(s)' = IF s \in S THEN Handled(s) \cup {i} ELSE Handled(s)
<1>1. ASSUME NEW s \in Subscribers
      PROVE  /\ seen'[s] \in Seq(committed)
             /\ Handled(s)' = IF s \in S THEN Handled(s) \cup {i} ELSE Handled(s)
  <2>1. seen[s] \in Seq(committed)
    BY DEF RelayTypes
  <2>2. CASE s \in S /\ i \notin Handled(s)
    <3>1. seen'[s] = Append(seen[s], i)
      BY <2>2 DEF Hand
    <3>2. Append(seen[s], i) \in Seq(committed)
      BY <2>1
    <3>3. Handled(s)' = Handled(s) \cup {i}
      BY <2>1, <3>1, AppendedHandled DEF Handled
    <3> QED
      BY <2>2, <3>1, <3>2, <3>3
  <2>3. CASE ~(s \in S /\ i \notin Handled(s))
    <3>1. seen'[s] = seen[s]
      BY <2>3 DEF Hand
    <3>2. Handled(s)' = Handled(s)
      BY <3>1 DEF Handled
    <3> QED
      BY <2>1, <2>3, <3>1, <3>2
  <2> QED
    BY <2>2, <2>3
<1>2. seen' = [s \in Subscribers |-> seen'[s]]
  BY DEF Hand
<1> QED
  BY <1>1, <1>2

LEMMA ClaimStep ==
  ASSUME IInv, NEW p \in Pods, Claim(p)
  PROVE  IInv'
<1>1. PICK B \in SUBSET Free : pass' = [pass EXCEPT ![p] = [locked |-> B, left |-> B, done |-> {}]]
  BY DEF Claim
<1>2. /\ pass[p] = Resting
      /\ UNCHANGED <<changed, inserted, committed, doing, published, seen, twice, spoiled>>
  BY DEF Claim, Busy, outbox
<1>3. Writing'
  BY <1>2, RelaysDoNotWrite DEF IInv
<1>4. /\ B \subseteq committed /\ B \cap published = {}
      /\ \A q \in Pods : B \cap pass[q].locked = {}
  BY DEF Free
<1>5. /\ pass'[p].locked = B /\ pass'[p].left = B /\ pass'[p].done = {}
      /\ \A q \in Pods \ {p} : pass'[q] = pass[q]
      /\ pass[p].done = {}
  BY <1>1, <1>2 DEF IInv, Relaying, RelayTypes, Resting
<1>6. \A s : Handled(s)' = Handled(s)
  BY <1>2 DEF Handled
<1>7. RelayTypes'
  BY <1>1, <1>2, <1>4 DEF IInv, Relaying, RelayTypes
<1>8. ASSUME NEW q \in Pods PROVE Pass(q)'
  <2>1. CASE q = p
    BY <1>2, <1>4, <1>5, <2>1 DEF Pass
  <2>2. CASE q # p
    <3>1. Pass(q) /\ pass'[q] = pass[q] /\ published' = published
      BY <1>2, <1>5, <2>2 DEF IInv, Relaying
    <3> QED
      BY <1>6, <3>1 DEF Pass
  <2> QED
    BY <2>1, <2>2
<1>9. Apart'
  BY <1>4, <1>5 DEF IInv, Relaying, Apart
<1>10. Accounted'
  BY <1>2, <1>5, <1>6 DEF IInv, Relaying, Accounted
<1>11. PublishedIsSeen' /\ SeenOnce'
  BY <1>2, <1>6 DEF IInv, Relaying, PublishedIsSeen, SeenOnce
<1> QED
  BY <1>3, <1>7, <1>8, <1>9, <1>10, <1>11 DEF IInv, Relaying

LEMMA DeliverStep ==
  ASSUME IInv, NEW p \in Pods, Deliver(p)
  PROVE  IInv'
<1>0. PICK i \in pass[p].left : \E S \in SUBSET Hearing(i) :
        /\ Hand(i, S)
        /\ pass' = [pass EXCEPT ![p].left = @ \ {i},
                                ![p].done = IF S = Subscribers THEN @ \cup {i} ELSE @]
  BY DEF Deliver
<1>1. PICK S \in SUBSET Hearing(i) :
        /\ Hand(i, S)
        /\ pass' = [pass EXCEPT ![p].left = @ \ {i},
                                ![p].done = IF S = Subscribers THEN @ \cup {i} ELSE @]
  BY <1>0
<1>2. UNCHANGED <<changed, inserted, committed, doing, published>>
  BY DEF Deliver, outbox
<1>3. Writing' /\ Relaying /\ RelayTypes
  BY <1>2, RelaysDoNotWrite DEF IInv, Relaying
<1>4. i \in committed /\ S \in SUBSET Subscribers
  BY <1>1, <1>3, PassFacts DEF Hearing
<1>5. /\ pass'[p].locked = pass[p].locked /\ pass'[p].left = pass[p].left \ {i}
      /\ pass'[p].done = IF S = Subscribers THEN pass[p].done \cup {i} ELSE pass[p].done
      /\ \A q \in Pods \ {p} : pass'[q] = pass[q]
  BY <1>1, <1>3 DEF RelayTypes
<1>6. /\ seen' \in [Subscribers -> Seq(committed)]
      /\ \A s \in Subscribers :
           Handled(s)' = IF s \in S THEN Handled(s) \cup {i} ELSE Handled(s)
  BY <1>1, <1>3, <1>4, HandFacts
<1>7. RelayTypes'
  <2>1. pass'[p] = [locked |-> pass'[p].locked, left |-> pass'[p].left, done |-> pass'[p].done]
    BY <1>1, <1>3 DEF RelayTypes
  <2>2. /\ pass'[p].locked \subseteq committed /\ pass'[p].left \subseteq committed
        /\ pass'[p].done \subseteq committed
    BY <1>3, <1>4, <1>5, PassFacts
  <2>3. ASSUME NEW q \in Pods, q # p
        PROVE  pass'[q] \in [locked : SUBSET committed, left : SUBSET committed, done : SUBSET committed]
    BY <1>3, <1>5, <2>3 DEF RelayTypes
  <2>4. pass' = [q \in Pods |-> pass'[q]]
    BY <1>1, <1>3 DEF RelayTypes
  <2>5. pass' \in [Pods -> [locked : SUBSET committed, left : SUBSET committed, done : SUBSET committed]]
    BY <2>1, <2>2, <2>3, <2>4
  <2> QED
    BY <1>2, <1>3, <1>6, <2>5 DEF RelayTypes
<1>8. i \in pass[p].locked /\ i \notin published /\ \A q \in Pods : i \notin pass[q].done
  <2>1. i \in pass[p].locked /\ i \notin published /\ i \notin pass[p].done
    BY <1>1, <1>3, PassFacts DEF Pass
  <2>2. ASSUME NEW q \in Pods, q # p PROVE i \notin pass[q].done
    BY <1>3, <2>1, <2>2, PassFacts DEF Pass, Relaying, Apart
  <2> QED
    BY <2>1, <2>2
<1>9. ASSUME NEW q \in Pods PROVE Pass(q)'
  <2>1. Pass(q)
    BY <1>3 DEF Relaying
  <2>2. CASE q = p
    <3>1. ASSUME NEW k \in pass'[p].done, NEW s \in Subscribers
          PROVE  k \in Handled(s)'
      BY <1>5, <1>6, <2>1, <2>2 DEF Pass
    <3>2. /\ pass'[p].left \subseteq pass'[p].locked /\ pass'[p].done \subseteq pass'[p].locked
          /\ pass'[p].left \cap pass'[p].done = {} /\ pass'[p].locked \cap published' = {}
      BY <1>2, <1>5, <1>8, <2>1, <2>2 DEF Pass
    <3> QED
      BY <2>2, <3>1, <3>2 DEF Pass
  <2>3. CASE q # p
    <3>1. pass'[q] = pass[q] /\ published' = published
      BY <1>2, <1>5, <2>3
    <3>2. \A k \in pass[q].done, s \in Subscribers : k \in Handled(s)'
      BY <1>6, <2>1 DEF Pass
    <3> QED
      BY <2>1, <3>1, <3>2 DEF Pass
  <2> QED
    BY <2>2, <2>3
<1>10. Apart'
  <2>1. \A q \in Pods : pass'[q].locked = pass[q].locked
    BY <1>5
  <2> QED
    BY <1>3, <2>1 DEF Relaying, Apart
<1>11. /\ spoiled \subseteq spoiled' /\ (S # Subscribers => i \in spoiled')
       /\ \A q \in Pods : pass[q].done \subseteq pass'[q].done
  <2>1. spoiled' = IF S = Subscribers THEN spoiled ELSE spoiled \cup {i}
    BY <1>1 DEF Hand
  <2>2. spoiled \subseteq spoiled' /\ (S # Subscribers => i \in spoiled')
    BY <2>1
  <2>3. \A q \in Pods : pass[q].done \subseteq pass'[q].done
    BY <1>5
  <2> QED
    BY <2>2, <2>3
<1>12. Accounted'
  <2> SUFFICES ASSUME NEW s \in Subscribers, NEW k \in Handled(s)'
               PROVE  k \in published' \/ k \in spoiled' \/ \E q \in Pods : k \in pass'[q].done
    BY DEF Accounted
  <2>1. CASE k \in Handled(s)
    BY <1>2, <1>3, <1>11, <2>1 DEF Relaying, Accounted
  <2>2. CASE k = i
    BY <1>5, <1>11, <2>2
  <2> QED
    BY <1>6, <2>1, <2>2
<1>13. PublishedIsSeen'
  BY <1>2, <1>3, <1>6 DEF Relaying, PublishedIsSeen
<1>14. SeenOnce'
  <2> SUFFICES ASSUME NEW pair \in twice' PROVE pair[2] \in spoiled'
    BY DEF SeenOnce
  <2>1. CASE pair \in twice
    BY <1>3, <1>11, <2>1 DEF Relaying, SeenOnce
  <2>2. CASE pair \notin twice
    <3>1. PICK s \in {t \in S : i \in Handled(t)} : pair = <<s, i>>
      BY <1>1, <2>2 DEF Hand
    <3>2. i \in spoiled
      BY <1>3, <1>4, <1>8, <3>1 DEF Relaying, Accounted
    <3> QED
      BY <1>11, <3>1, <3>2
  <2> QED
    BY <2>1, <2>2
<1> QED
  BY <1>3, <1>7, <1>9, <1>10, <1>12, <1>13, <1>14 DEF IInv, Relaying

\* A pass that ends, marking what all have handled or leaving it all spoiled.
LEMMA EndOfPass ==
  ASSUME IInv, NEW p \in Pods, pass' = [pass EXCEPT ![p] = Resting],
         UNCHANGED <<changed, inserted, committed, doing, seen, twice>>,
         \/ published' = published \cup pass[p].done /\ spoiled' = spoiled
         \/ published' = published /\ spoiled' = spoiled \cup pass[p].locked
  PROVE  IInv'
<1>1. Writing' /\ Relaying /\ RelayTypes
  BY RelaysDoNotWrite DEF IInv, Relaying
<1>2. \A s : Handled(s)' = Handled(s)
  BY DEF Handled
<1>3. /\ pass'[p].locked = {} /\ pass'[p].left = {} /\ pass'[p].done = {}
      /\ \A q \in Pods \ {p} : pass'[q] = pass[q]
  BY <1>1 DEF RelayTypes, Resting
<1>4. pass[p].done \subseteq pass[p].locked /\ pass[p].done \subseteq committed
  BY <1>1, PassFacts DEF Pass
<1>5. RelayTypes'
  BY <1>1, <1>4 DEF RelayTypes, Resting
<1>6. ASSUME NEW q \in Pods PROVE Pass(q)'
  <2>1. CASE q = p
    BY <1>3, <2>1 DEF Pass
  <2>2. CASE q # p
    <3>1. Pass(q) /\ pass'[q] = pass[q]
      BY <1>1, <1>3, <2>2 DEF Relaying
    <3>2. pass[q].locked \cap published' = {}
      BY <1>1, <1>4, <2>2, <3>1 DEF Relaying, Apart, Pass
    <3> QED
      BY <1>2, <3>1, <3>2 DEF Pass
  <2> QED
    BY <2>1, <2>2
<1>7. Apart'
  BY <1>1, <1>3 DEF Relaying, Apart
<1>8. Accounted'
  <2> SUFFICES ASSUME NEW s \in Subscribers, NEW k \in Handled(s)
               PROVE  k \in published' \/ k \in spoiled' \/ \E q \in Pods : k \in pass'[q].done
    BY <1>2 DEF Accounted
  <2> QED
    BY <1>1, <1>3, <1>4 DEF Relaying, Accounted
<1>9. PublishedIsSeen' /\ SeenOnce'
  BY <1>1, <1>2, PassFacts DEF Relaying, PublishedIsSeen, SeenOnce, Pass
<1> QED
  BY <1>1, <1>5, <1>6, <1>7, <1>8, <1>9 DEF IInv, Relaying

\* No step of the specification breaks the invariant.
LEMMA NextStep == IInv /\ [Next]_vars => IInv'
<1> SUFFICES ASSUME IInv, [Next]_vars PROVE IInv'
  OBVIOUS
<1>1. ASSUME NEW p \in Pods, Finish(p) PROVE IInv'
  BY <1>1, EndOfPass DEF Finish, history
<1>2. ASSUME NEW p \in Pods, Die(p) PROVE IInv'
  BY <1>2, EndOfPass DEF Die, outbox
<1>3. CASE UNCHANGED vars
  <2>1. UNCHANGED <<changed, inserted, committed, doing, published, pass, seen, twice, spoiled>>
    BY <1>3 DEF vars, outbox, history
  <2>2. Writing'
    BY <2>1, RelaysDoNotWrite DEF IInv
  <2>3. Relaying'
    BY <2>1, TableGrows DEF IInv
  <2> QED
    BY <2>2, <2>3 DEF IInv
<1> QED
  BY <1>1, <1>2, <1>3, SaveStep, PublishStep, CommitStep, LoseStep, ClaimStep, DeliverStep
  DEF Next, Relay

-----------------------------------------------------------------------------
\* What the invariant gives

LEMMA Types == IInv => TypeOK
BY DEF IInv, Writing, Relaying, WritingTypes, RelayTypes, TypeOK, Places

LEMMA Units == IInv => UnitIsWhole
<1> SUFFICES ASSUME IInv, NEW r \in Inside
             PROVE  Cardinality(RowsOf(r)) = IF r \in changed THEN Count[r] ELSE 0
  BY DEF UnitIsWhole
<1>1. r \in Requests /\ Writing
  BY OutboxAssumption DEF IInv
<1>2. doing[r].at \in Places /\ Whole(r)
  BY <1>1, RequestFacts
<1>3. CASE doing[r].at = "done"
  BY <1>2, <1>3 DEF Whole
<1>4. CASE doing[r].at \in {"idle", "publishing"}
  <2>1. r \notin changed /\ RowsOf(r) = {}
    BY <1>2, <1>4 DEF Whole
  <2> QED
    BY <2>1, FS_EmptySet
<1> QED
  BY <1>2, <1>3, <1>4 DEF Whole, Places

\* Subscribers have been told of rows of the table, and a larger table says the same of them.
LEMMA ToldStays ==
  ASSUME IInv, UNCHANGED seen,
         \A i \in DOMAIN inserted : inserted'[i] = inserted[i]
  PROVE  ToldOf' = ToldOf
<1>1. \A s \in Subscribers : Handled(s)' = Handled(s) /\ Handled(s) \subseteq DOMAIN inserted
  BY HandledRows DEF Handled, IInv, Relaying, Writing, WritingTypes
<1> QED
  BY <1>1 DEF ToldOf

\* A request's step is the change of the request, or nothing.
LEMMA RequestTells ==
  ASSUME IInv, NEW r \in Requests, Save(r) \/ Publish(r) \/ Commit(r) \/ Lose(r)
  PROVE  [Promise!Next]_(Promise!vars)
<1>1. Writing /\ inserted \in Seq(Events)
  BY DEF IInv, Writing, WritingTypes
<1>2. \A i \in DOMAIN inserted : inserted'[i] = inserted[i]
  <2>1. CASE Publish(r)
    <3>1. PICK e : inserted' = Append(inserted, e)
      BY <2>1 DEF Publish
    <3> QED
      BY <1>1, <3>1
  <2>2. CASE Save(r) \/ Commit(r) \/ Lose(r)
    BY <2>2 DEF Save, Commit, Lose, outbox
  <2> QED
    BY <2>1, <2>2
<1>3. seen' = seen
  BY DEF Save, Publish, Commit, Lose, history
<1>4. ToldOf' = ToldOf
  BY <1>2, <1>3, ToldStays
<1>5. changed' = changed \/ changed' = changed \cup {r}
  BY DEF Save, Publish, Commit, Lose
<1>6. CASE changed' = changed
  BY <1>4, <1>6 DEF Promise!vars
<1>7. CASE changed' = changed \cup {r} /\ r \notin changed
  BY <1>4, <1>7 DEF Promise!Next, Promise!Change
<1> QED
  BY <1>5, <1>6, <1>7

\* A round of the handlers tells some of them of an event whose change has happened.
LEMMA DeliveryTells ==
  ASSUME IInv, NEW p \in Pods, Deliver(p)
  PROVE  Promise!Next
<1>1. PICK i \in pass[p].left : \E S \in SUBSET Hearing(i) : Hand(i, S)
  BY DEF Deliver
<1>2. PICK S \in SUBSET Hearing(i) : Hand(i, S)
  BY <1>1
<1>3. UNCHANGED <<changed, inserted>>
  BY DEF Deliver, outbox
<1>4. i \in committed /\ S \in SUBSET Subscribers /\ RelayTypes
  BY PassFacts DEF Hearing, IInv, Relaying
<1>5. inserted[i] \in Events /\ ChangeOf(inserted[i]) \in changed
  BY <1>4 DEF IInv, Writing, WritingTypes, Told
<1>6. \A s \in Subscribers : Handled(s)' = IF s \in S THEN Handled(s) \cup {i} ELSE Handled(s)
  BY <1>2, <1>4, HandFacts
<1>7. ToldOf' = ToldOf \cup (S \X {inserted[i]})
  BY <1>3, <1>4, <1>6 DEF ToldOf
<1>8. Promise!Tell(S, inserted[i])
  BY <1>3, <1>5, <1>7 DEF Promise!Tell
<1> QED
  BY <1>4, <1>5, <1>8 DEF Promise!Next

LEMMA StepTells == IInv /\ [Next]_vars => [Promise!Next]_(Promise!vars)
<1> SUFFICES ASSUME IInv, [Next]_vars PROVE [Promise!Next]_(Promise!vars)
  OBVIOUS
<1>1. CASE UNCHANGED <<changed, inserted, seen>>
  BY <1>1, ToldStays DEF Promise!vars
<1>2. ASSUME NEW p \in Pods, Claim(p) \/ Finish(p) \/ Die(p)
      PROVE  UNCHANGED <<changed, inserted, seen>>
  BY <1>2 DEF Claim, Finish, Die, outbox, history
<1>3. UNCHANGED vars => UNCHANGED <<changed, inserted, seen>>
  BY DEF vars, outbox, history
<1> QED
  BY <1>1, <1>2, <1>3, RequestTells, DeliveryTells DEF Next, Relay

LEMMA NothingTold == Init => Promise!Init
BY DEF Init, Promise!Init, ToldOf, Handled

-----------------------------------------------------------------------------
\* Theorems

\* Both halves of the invariant hold throughout: what a request has written is told
\* apart by its rows, and every row handled is marked, about to be, or spoiled.
THEOREM Invariance == Spec => []IInv
<1> QED
  BY InitIInv, NextStep, PTL DEF Spec

\* The rows, the requests and the passes keep their types; in particular only committed
\* rows are ever locked, handled or marked.
THEOREM TypeCorrect == Spec => []TypeOK
<1> QED
  BY Invariance, Types, PTL

\* withUnitOfWork: however requests, rollbacks and relays interleave, a change made in a
\* unit of work has all of its rows, and one that is not committed has none.
THEOREM UnitsAreWhole == Spec => []UnitIsWhole
<1> QED
  BY Invariance, Units, PTL

\* OutboxRelay.drain: a row with a published_at has been returned from by every handler.
THEOREM MarkedIsSeen == Spec => []PublishedIsSeen
<1>1. IInv => PublishedIsSeen
  BY DEF IInv, Relaying
<1> QED
  BY <1>1, Invariance, PTL

\* FOR UPDATE SKIP LOCKED: however many pods relay, a handler sees a row again only after
\* a handler has thrown on it or a pass that held it was lost.
THEOREM SeenOnlyOnce == Spec => []SeenOnce
<1>1. IInv => SeenOnce
  BY DEF IInv, Relaying
<1> QED
  BY <1>1, Invariance, PTL

\* The outbox implements the safety half of Announcements: a subscriber is told of
\* nothing that was rolled back, and is never untold.
THEOREM TellsTheTruth == Spec => Promise!Safe
<1> QED
  BY NothingTold, Invariance, StepTells, PTL DEF Spec, Promise!Safe

-----------------------------------------------------------------------------
\* Passes that neither fail nor overlap

Before(i, j) == ChangeOf(inserted[i]) = ChangeOf(inserted[j]) => i < j

\* What a request that saves on its own has inserted is committed.
AtOnce == \A r \in Requests \ Inside : doing[r].ids \subseteq committed

\* The rows of one request are marked, locked, and handled within a pass, in their order.
Calm ==
  spoiled = {} /\ ~overlapped =>
    /\ \A p, q \in Pods : Busy(p) /\ Busy(q) => p = q
    /\ \A p \in Pods : pass[p].locked = pass[p].left \cup pass[p].done
    /\ \A i \in published, j \in committed \ published : Before(i, j)
    /\ \A p \in Pods : \A i \in pass[p].locked, j \in committed \ (published \cup pass[p].locked) :
         Before(i, j)
    /\ \A p \in Pods : \A i \in pass[p].done, j \in pass[p].left : i < j
    /\ InOrder

LEMMA CalmInit == Init => AtOnce /\ Calm
<1> SUFFICES ASSUME Init PROVE AtOnce /\ Calm OBVIOUS
<1>1. AtOnce BY DEF Init, AtOnce
<1>2. \A s \in Subscribers : DOMAIN seen[s] = {} BY DEF Init
<1>3. InOrder BY <1>2 DEF InOrder
<1>4. \A p \in Pods : ~Busy(p) BY DEF Init, Busy
<1>5. /\ published = {} /\ committed = {}
      /\ \A p \in Pods : pass[p].locked = {} /\ pass[p].left = {} /\ pass[p].done = {}
  BY DEF Init, Resting
<1> QED BY <1>1, <1>3, <1>4, <1>5 DEF Calm

\* A request commits rows that come after those of its own that are committed.
LEMMA CalmWrites ==
  ASSUME IInv, Calm, UNCHANGED <<published, pass, history>>, committed \subseteq committed',
         \A i \in committed : inserted'[i] = inserted[i],
         \A i \in committed, j \in committed' \ committed : Before(i, j)'
  PROVE  Calm'
<1> SUFFICES ASSUME spoiled = {}, ~overlapped
             PROVE  /\ \A p, q \in Pods : Busy(p)' /\ Busy(q)' => p = q
                    /\ \A p \in Pods : pass'[p].locked = pass'[p].left \cup pass'[p].done
                    /\ \A i \in published', j \in committed' \ published' : Before(i, j)'
                    /\ \A p \in Pods :
                         \A i \in pass'[p].locked,
                            j \in committed' \ (published' \cup pass'[p].locked) : Before(i, j)'
                    /\ \A p \in Pods : \A i \in pass'[p].done, j \in pass'[p].left : i < j
                    /\ InOrder'
  BY DEF Calm, history
<1>1. published' = published /\ pass' = pass /\ seen' = seen BY DEF history
<1>2. published \subseteq committed /\ \A p \in Pods : pass[p].locked \subseteq committed
  BY PassFacts DEF IInv, Relaying, RelayTypes
<1>3. \A i, j \in committed : Before(i, j) => Before(i, j)' BY DEF Before
<1>4. \A p, q \in Pods : Busy(p)' /\ Busy(q)' => p = q BY <1>1 DEF Calm, Busy
<1>5. \A i \in published, j \in committed' \ published : Before(i, j)'
  BY <1>2, <1>3 DEF Calm
<1>6. \A p \in Pods : \A i \in pass[p].locked, j \in committed' \ (published \cup pass[p].locked) :
        Before(i, j)'
  BY <1>2, <1>3 DEF Calm
<1>7. InOrder'
  <2>1. \A s \in Subscribers : \A k \in DOMAIN seen[s] : seen[s][k] \in committed
    BY DEF IInv, Relaying, RelayTypes
  <2> QED BY <1>1, <2>1 DEF Calm, InOrder, ChangeOf
<1>8. \A p \in Pods : pass[p].locked = pass[p].left \cup pass[p].done
  BY DEF Calm
<1>9. \A p \in Pods : \A i \in pass[p].done, j \in pass[p].left : i < j BY DEF Calm
<1> QED BY <1>1, <1>4, <1>5, <1>6, <1>7, <1>8, <1>9

LEMMA CalmPublishes ==
  ASSUME IInv, AtOnce, Calm, NEW r \in Requests, Publish(r)
  PROVE  AtOnce' /\ Calm'
<1> DEFINE id == Len(inserted) + 1
           e == <<r, Written(r) + 1>>
<1>1. /\ UNCHANGED <<published, pass, history>>
      /\ doing' = [doing EXCEPT ![r].ids = @ \cup {id}] /\ inserted' = Append(inserted, e)
      /\ committed' = IF r \in Inside THEN committed ELSE committed \cup {id}
  BY DEF Publish
<1>2. WritingTypes BY DEF IInv, Writing
<1> HIDE DEF e
<1>3. /\ Len(inserted) \in Nat /\ DOMAIN inserted = 1 .. Len(inserted)
      /\ \A i \in DOMAIN inserted : inserted'[i] = inserted[i]
  BY <1>1, <1>2 DEF WritingTypes
<1>4. \A i \in committed : i \in Nat /\ i < id BY <1>2, <1>3 DEF WritingTypes
<1>5. \A i \in committed : inserted'[i] = inserted[i] BY <1>2, <1>3 DEF WritingTypes
<1>6. \A i \in committed, j \in committed' \ committed : i < j BY <1>1, <1>4
<1>7. Calm'
  <2>1. \A i \in committed, j \in committed' \ committed : Before(i, j)' BY <1>6 DEF Before
  <2>2. committed \subseteq committed' BY <1>1
  <2> QED BY <1>1, <1>5, <2>1, <2>2, CalmWrites
<1>8. AtOnce'
  <2> SUFFICES ASSUME NEW q \in Requests \ Inside PROVE doing'[q].ids \subseteq committed'
    BY DEF AtOnce
  <2>1. doing[q].ids \subseteq committed BY DEF AtOnce
  <2>2. CASE q = r
    <3>1. doing'[q].ids = doing[q].ids \cup {id} BY <1>1, <1>2, <2>2 DEF WritingTypes
    <3> QED BY <1>1, <2>1, <2>2, <3>1
  <2>3. CASE q # r BY <1>1, <1>2, <2>1, <2>3 DEF WritingTypes
  <2> QED BY <2>2, <2>3
<1> QED BY <1>7, <1>8

\* A unit of work has no row before it commits them all.
LEMMA CalmCommits ==
  ASSUME IInv, AtOnce, Calm, NEW r \in Requests, Commit(r)
  PROVE  AtOnce' /\ Calm'
<1>1. /\ UNCHANGED <<inserted, published, pass, history>> /\ doing[r].at = "publishing"
      /\ doing' = [doing EXCEPT ![r].at = "done"]
      /\ committed' = committed \cup doing[r].ids
  BY DEF Commit
<1>2. Writing /\ WritingTypes BY DEF IInv, Writing
<1>3. ASSUME NEW i \in committed, NEW j \in committed' \ committed PROVE Before(i, j)'
  <2>1. j \in doing[r].ids BY <1>1, <1>3
  <2>2. ChangeOf(inserted[j]) = r BY <1>2, <2>1, RequestFacts
  <2>3. r \in Inside BY <1>3, <2>1 DEF AtOnce
  <2>4. RowsOf(r) = {} BY <1>1, <1>2, <2>3, RequestFacts DEF Whole
  <2>5. ChangeOf(inserted[i]) # r BY <2>4 DEF RowsOf
  <2> QED BY <1>1, <2>2, <2>5 DEF Before
<1>4. Calm'
  <2>1. committed \subseteq committed' /\ \A i \in committed : inserted'[i] = inserted[i]
    BY <1>1
  <2> QED BY <1>1, <1>3, <2>1, CalmWrites
<1>5. AtOnce' BY <1>1, <1>2 DEF AtOnce, WritingTypes
<1> QED BY <1>4, <1>5

LEMMA CalmSaves ==
  ASSUME IInv, AtOnce, Calm, NEW r \in Requests, Save(r) \/ Lose(r)
  PROVE  AtOnce' /\ Calm'
<1>1. UNCHANGED <<inserted, committed, published, pass, history>>
  BY DEF Save, Lose, outbox
<1>2. Calm' BY <1>1, CalmWrites
<1>3. AtOnce' BY <1>1 DEF Save, Lose, AtOnce, IInv, Writing, WritingTypes
<1> QED BY <1>2, <1>3

\* The relays.  At rest a pass holds nothing.
LEMMA AtRest ==
  ASSUME NEW p \in Pods, ~Busy(p)
  PROVE  pass[p].locked = {} /\ pass[p].left = {} /\ pass[p].done = {}
BY DEF Busy, Resting

LEMMA CalmClaims ==
  ASSUME IInv, Calm, NEW p \in Pods, Claim(p)
  PROVE  Calm'
<1>1. PICK B \in SUBSET Free :
        Batch(B) /\ pass' = [pass EXCEPT ![p] = [locked |-> B, left |-> B, done |-> {}]]
  BY DEF Claim
<1>2. /\ UNCHANGED <<inserted, committed, published, seen, spoiled>>
      /\ overlapped' = (overlapped \/ \E q \in Pods \ {p} : Busy(q)) /\ ~Busy(p)
  BY DEF Claim, outbox
<1> SUFFICES ASSUME spoiled = {}, ~overlapped'
             PROVE  /\ \A q, u \in Pods : Busy(q)' /\ Busy(u)' => q = u
                    /\ \A q \in Pods : pass'[q].locked = pass'[q].left \cup pass'[q].done
                    /\ \A i \in published', j \in committed' \ published' : Before(i, j)'
                    /\ \A q \in Pods :
                         \A i \in pass'[q].locked,
                            j \in committed' \ (published' \cup pass'[q].locked) : Before(i, j)'
                    /\ \A q \in Pods : \A i \in pass'[q].done, j \in pass'[q].left : i < j
                    /\ InOrder'
  BY <1>2 DEF Calm
<1>3. ~overlapped /\ \A q \in Pods : ~Busy(q) BY <1>2
<1>4. \A q \in Pods : pass[q].locked = {} /\ pass[q].left = {} /\ pass[q].done = {}
  BY <1>3, AtRest
<1>5. /\ pass'[p].locked = B /\ pass'[p].left = B /\ pass'[p].done = {}
      /\ \A q \in Pods \ {p} : pass'[q] = pass[q]
  BY <1>1 DEF IInv, Relaying, RelayTypes
<1>6. Free = committed \ published BY <1>4 DEF Free
<1>7. \A i \in B, j \in committed \ (published \cup B) : i < j BY <1>1, <1>6 DEF Batch
<1>8. \A q, u \in Pods : Busy(q)' /\ Busy(u)' => q = u BY <1>3, <1>5 DEF Busy
<1>9. ASSUME NEW q \in Pods
      PROVE  /\ pass'[q].locked = pass'[q].left \cup pass'[q].done
             /\ \A i \in pass'[q].locked, j \in committed \ (published \cup pass'[q].locked) : i < j
             /\ pass'[q].done = {}
  BY <1>4, <1>5, <1>7
<1>10. \A i \in published, j \in committed \ published : Before(i, j)' BY <1>2, <1>3 DEF Calm, Before
<1>11. InOrder' BY <1>2, <1>3 DEF Calm, InOrder
<1> QED BY <1>2, <1>8, <1>9, <1>10, <1>11 DEF Before

\* The row a pass hands over comes after all rows of its request that were handled before.
LEMMA HandedInOrder ==
  ASSUME IInv, Calm, spoiled = {}, ~overlapped, NEW p \in Pods, NEW i \in pass[p].left,
         NEW s \in Subscribers, NEW h \in Handled(s)
  PROVE  Before(h, i)
<1>1. Relaying /\ Pass(p) /\ pass[p].left \subseteq committed
  BY PassFacts DEF IInv
<1>2. i \in committed \ published BY <1>1 DEF Pass
<1>3. CASE h \in published BY <1>2, <1>3 DEF Calm
<1>4. ASSUME NEW q \in Pods, h \in pass[q].done PROVE Before(h, i)
  <2>1. Busy(q) /\ Busy(p) BY <1>4, AtRest
  <2>2. q = p BY <2>1 DEF Calm
  <2>3. h < i BY <1>4, <2>2 DEF Calm
  <2> QED BY <2>3 DEF Before
<1> QED BY <1>1, <1>3, <1>4 DEF Relaying, Accounted

LEMMA CalmDelivers ==
  ASSUME IInv, Calm, NEW p \in Pods, Deliver(p)
  PROVE  Calm'
<1>1. PICK i \in pass[p].left : \E S \in SUBSET Hearing(i) :
        /\ Lowest(i, pass[p].left) /\ Hand(i, S)
        /\ pass' = [pass EXCEPT ![p].left = @ \ {i},
                                ![p].done = IF S = Subscribers THEN @ \cup {i} ELSE @]
  BY DEF Deliver
<1>2. PICK S \in SUBSET Hearing(i) :
        /\ Lowest(i, pass[p].left) /\ Hand(i, S)
        /\ pass' = [pass EXCEPT ![p].left = @ \ {i},
                                ![p].done = IF S = Subscribers THEN @ \cup {i} ELSE @]
  BY <1>1
<1>3. UNCHANGED <<inserted, committed, published, overlapped>> BY DEF Deliver, outbox
<1> SUFFICES ASSUME spoiled' = {}, ~overlapped
             PROVE  /\ \A q, u \in Pods : Busy(q)' /\ Busy(u)' => q = u
                    /\ \A q \in Pods : pass'[q].locked = pass'[q].left \cup pass'[q].done
                    /\ \A k \in published', j \in committed' \ published' : Before(k, j)'
                    /\ \A q \in Pods :
                         \A k \in pass'[q].locked,
                            j \in committed' \ (published' \cup pass'[q].locked) : Before(k, j)'
                    /\ \A q \in Pods : \A k \in pass'[q].done, j \in pass'[q].left : k < j
                    /\ InOrder'
  BY <1>3 DEF Calm
<1>4. S = Subscribers /\ spoiled = {} BY <1>2 DEF Hand
<1>5. /\ pass'[p].locked = pass[p].locked /\ pass'[p].left = pass[p].left \ {i}
      /\ pass'[p].done = pass[p].done \cup {i}
      /\ \A q \in Pods \ {p} : pass'[q] = pass[q]
  BY <1>2, <1>4 DEF IInv, Relaying, RelayTypes
<1>6. Busy(p) BY AtRest
<1>7. \A q, u \in Pods : Busy(q)' /\ Busy(u)' => q = u
  BY <1>4, <1>5, <1>6 DEF Calm, Busy
<1>8. \A q \in Pods : pass'[q].locked = pass'[q].left \cup pass'[q].done
  BY <1>4, <1>5 DEF Calm
<1>9. \A k \in published, j \in committed \ published : Before(k, j)'
  BY <1>3, <1>4 DEF Calm, Before
<1>10. ASSUME NEW q \in Pods, NEW k \in pass'[q].locked,
              NEW j \in committed \ (published \cup pass'[q].locked)
       PROVE  Before(k, j)'
  <2>1. pass'[q].locked = pass[q].locked BY <1>5
  <2>2. Before(k, j) BY <1>4, <2>1 DEF Calm
  <2> QED BY <1>3, <2>2 DEF Before
<1>11. ASSUME NEW q \in Pods, NEW k \in pass'[q].done, NEW j \in pass'[q].left
       PROVE  k < j
  <2>1. CASE q # p BY <1>4, <1>5, <2>1 DEF Calm
  <2>2. CASE q = p
    <3>1. j \in pass[p].left /\ j # i /\ i <= j BY <1>2, <1>5, <2>2 DEF Lowest
    <3>2. CASE k = i
      <4>1. i \in Nat /\ j \in Nat
        <5>1. pass[p].left \subseteq committed BY PassFacts DEF IInv
        <5>2. committed \subseteq Nat BY DEF IInv, Writing, WritingTypes
        <5> QED BY <3>1, <5>1, <5>2
      <4> QED BY <3>1, <3>2, <4>1
    <3>3. CASE k # i BY <1>4, <1>5, <2>2, <3>1, <3>3 DEF Calm
    <3> QED BY <3>2, <3>3
  <2> QED BY <2>1, <2>2
<1>12. InOrder'
  <2> SUFFICES ASSUME NEW s \in Subscribers, NEW j \in DOMAIN seen'[s], NEW k \in DOMAIN seen'[s],
                      j < k,
                      ChangeOf(inserted[seen'[s][j]]) = ChangeOf(inserted[seen'[s][k]])
               PROVE  seen'[s][j] < seen'[s][k]
    BY <1>3 DEF InOrder
  <2>1. seen[s] \in Seq(committed) BY DEF IInv, Relaying, RelayTypes
  <2>2. InOrder BY <1>4 DEF Calm
  <2>3. CASE i \in Handled(s)
    <3>1. seen'[s] = seen[s] BY <1>2, <2>3 DEF Hand
    <3> QED BY <1>4, <2>2, <3>1 DEF InOrder
  <2>4. CASE i \notin Handled(s)
    <3>1. seen'[s] = Append(seen[s], i) BY <1>2, <1>4, <2>4 DEF Hand
    <3> DEFINE q == seen[s]
               n == Len(q)
    <3>2. /\ n \in Nat /\ DOMAIN q = 1 .. n /\ DOMAIN Append(q, i) = 1 .. n + 1
          /\ \A m \in 1 .. n : Append(q, i)[m] = q[m]
          /\ Append(q, i)[n + 1] = i
      BY <2>1
    <3> HIDE DEF q, n
    <3>3. j \in 1 .. n + 1 /\ k \in 1 .. n + 1 BY <3>1, <3>2 DEF q
    <3>4. j \in 1 .. n BY <3>2, <3>3
    <3>5. seen'[s][j] = seen[s][j] /\ j \in DOMAIN seen[s] BY <3>1, <3>2, <3>4 DEF q
    <3>6. CASE k = n + 1
      <4>1. seen'[s][k] = i BY <3>1, <3>2, <3>6 DEF q
      <4>2. seen[s][j] \in Handled(s) BY <3>5 DEF Handled
      <4>3. Before(seen[s][j], i) BY <1>4, <4>2, HandedInOrder
      <4> QED BY <3>5, <4>1, <4>3 DEF Before
    <3>7. CASE k # n + 1
      <4>1. k \in 1 .. n BY <3>2, <3>3, <3>7
      <4>2. seen'[s][k] = seen[s][k] /\ k \in DOMAIN seen[s] BY <3>1, <3>2, <4>1 DEF q
      <4> QED BY <1>4, <2>2, <3>5, <4>2 DEF InOrder
    <3> QED BY <3>6, <3>7
  <2> QED BY <2>3, <2>4
<1> QED BY <1>3, <1>7, <1>8, <1>9, <1>10, <1>11, <1>12

LEMMA CalmFinishes ==
  ASSUME IInv, Calm, NEW p \in Pods, Finish(p)
  PROVE  Calm'
<1>1. /\ Busy(p) /\ pass[p].left = {} /\ published' = published \cup pass[p].done
      /\ pass' = [pass EXCEPT ![p] = Resting]
      /\ UNCHANGED <<inserted, committed, seen, spoiled, overlapped>>
  BY DEF Finish, history
<1> SUFFICES ASSUME spoiled = {}, ~overlapped
             PROVE  /\ \A q, u \in Pods : Busy(q)' /\ Busy(u)' => q = u
                    /\ \A q \in Pods : pass'[q].locked = pass'[q].left \cup pass'[q].done
                    /\ \A i \in published', j \in committed' \ published' : Before(i, j)'
                    /\ \A q \in Pods :
                         \A i \in pass'[q].locked,
                            j \in committed' \ (published' \cup pass'[q].locked) : Before(i, j)'
                    /\ \A q \in Pods : \A i \in pass'[q].done, j \in pass'[q].left : i < j
                    /\ InOrder'
  BY <1>1 DEF Calm
<1>2. pass[p].done = pass[p].locked BY <1>1 DEF Calm
<1>3. \A q \in Pods : ~Busy(q)' /\ pass'[q] = Resting
  BY <1>1 DEF Calm, Busy, IInv, Relaying, RelayTypes
<1>4. \A q \in Pods : pass'[q].locked = {} /\ pass'[q].left = {} /\ pass'[q].done = {}
  BY <1>3 DEF Resting
<1>5. \A i \in published', j \in committed \ published' : Before(i, j)'
  <2>1. \A i \in published, j \in committed \ published : Before(i, j) BY DEF Calm
  <2>2. \A i \in pass[p].locked, j \in committed \ (published \cup pass[p].locked) : Before(i, j)
    BY DEF Calm
  <2> QED BY <1>1, <1>2, <2>1, <2>2 DEF Before
<1>6. InOrder' BY <1>1 DEF Calm, InOrder
<1> QED BY <1>1, <1>3, <1>4, <1>5, <1>6

\* A lost pass spoils the rows it held, of which there is at least one while it is calm.
LEMMA CalmDies ==
  ASSUME IInv, Calm, NEW p \in Pods, Die(p)
  PROVE  Calm'
<1> SUFFICES ASSUME spoiled' = {} PROVE FALSE BY DEF Calm
<1>1. spoiled = {} /\ pass[p].locked = {} BY DEF Die
<1>2. pass[p].left = {} /\ pass[p].done = {} BY <1>1, PassFacts DEF IInv, Pass
<1>3. pass[p] = Resting BY <1>1, <1>2, PassFacts DEF IInv, Resting
<1> QED BY <1>3 DEF Die, Busy

LEMMA CalmNext == IInv /\ AtOnce /\ Calm /\ [Next]_vars => AtOnce' /\ Calm'
<1> SUFFICES ASSUME IInv, AtOnce, Calm, [Next]_vars PROVE AtOnce' /\ Calm' OBVIOUS
<1>1. ASSUME NEW p \in Pods, Relay(p) \/ Die(p) PROVE AtOnce' /\ Calm'
  <2>1. UNCHANGED <<committed, doing>>
    BY <1>1 DEF Relay, Claim, Deliver, Finish, Die, outbox
  <2>2. AtOnce' BY <2>1 DEF AtOnce
  <2> QED BY <1>1, <2>2, CalmClaims, CalmDelivers, CalmFinishes, CalmDies DEF Relay
<1>2. CASE UNCHANGED vars
  <2>1. UNCHANGED <<inserted, committed, published, pass, history, doing>> BY <1>2 DEF vars, outbox
  <2>2. AtOnce' BY <2>1 DEF AtOnce
  <2> QED BY <2>1, <2>2, CalmWrites
<1> QED BY <1>1, <1>2, CalmSaves, CalmPublishes, CalmCommits DEF Next

\* "Everything about one gig stays in order" (bus.ts:35), for the events of one request:
\* they reach each handler in the order the request published them as long as passes of
\* drain() in outbox.ts neither fail nor overlap, whatever the requests do in the
\* meantime.  Of events of different requests it says nothing.
THEOREM AlwaysInOrder == Spec => []InOrder
<1>1. Calm => InOrder BY DEF Calm, InOrder
<1> QED BY InitIInv, NextStep, CalmInit, CalmNext, <1>1, PTL DEF Spec
=============================================================================
