------------------------------- MODULE Outbox -------------------------------
(***************************************************************************)
(* The transactional outbox of events/outbox.ts: requests that change      *)
(* something and publish what they changed, some of them in one unit of    *)
(* work (publish in routes/gigs.ts), the others after they have saved; and *)
(* the relays, one in each pod, that hand the rows to the subscribers.     *)
(*                                                                         *)
(* Statements of a request and handlers of a pass interleave with those of *)
(* others; a pod may die at any of them, which rolls back its transaction. *)
(***************************************************************************)
EXTENDS Naturals, Sequences, FiniteSets

CONSTANTS
  Requests,         \* requests that change something
  Inside,           \* those that publish in the transaction of the change
  Count,            \* how many events each of them publishes
  Pods,             \* processes that relay
  BatchSize,        \* rows a pass takes
  Subscribers,      \* handlers, each of every topic
  Deaf,             \* pairs of a subscriber and a request whose events it always throws on
  MaxFaults         \* bound: requests and passes lost, and handlers that throw once

ASSUME OutboxAssumption ==
  /\ Inside \subseteq Requests
  /\ Count \in [Requests -> Nat \ {0}]
  /\ BatchSize \in Nat \ {0}
  /\ Deaf \subseteq Subscribers \X Requests
  /\ MaxFaults \in Nat

VARIABLES
  changed,          \* requests whose change is committed
  inserted,         \* the event of each row of event_outbox, by id; ids are never reused
  committed,        \* ids of the rows that are committed
  published,        \* ids with a published_at
  doing,            \* each request: where it is and the ids it has inserted
  pass,             \* each pod's pass: rows locked, rows left to deliver, rows delivered
  seen,             \* each subscriber: ids it has handled, in order of the first time
  twice,            \* history: pairs of a subscriber and an id it has handled again
  spoiled,          \* history: ids a handler threw on, or whose pass was lost
  overlapped,       \* history: two passes have been under way together
  faults            \* faults so far

outbox == <<inserted, committed, published>>
history == <<seen, twice, spoiled, overlapped>>
vars == <<changed, outbox, doing, pass, history, faults>>

Events == UNION {{<<r, n>> : n \in 1..Count[r]} : r \in Requests}
ChangeOf(e) == e[1]

Resting == [locked |-> {}, left |-> {}, done |-> {}]

Init ==
  /\ changed = {} /\ inserted = <<>> /\ committed = {} /\ published = {}
  /\ doing = [r \in Requests |-> [at |-> "idle", ids |-> {}]]
  /\ pass = [p \in Pods |-> Resting]
  /\ seen = [s \in Subscribers |-> <<>>]
  /\ twice = {} /\ spoiled = {} /\ overlapped = FALSE /\ faults = 0

Fault == faults < MaxFaults /\ faults' = faults + 1

-----------------------------------------------------------------------------
\* Requests

\* The change is saved; outside a unit of work it is committed by its own statement.
Save(r) ==
  /\ doing[r].at = "idle"
  /\ doing' = [doing EXCEPT ![r].at = "publishing"]
  /\ changed' = IF r \in Inside THEN changed ELSE changed \cup {r}
  /\ UNCHANGED <<outbox, pass, history, faults>>

Written(r) == Cardinality(doing[r].ids)

\* bus.publish: a row of its own for each event, with the next id of the table.
PublishMut(r) ==    \* mutant: the bus writes through a connection of its own
  /\ doing[r].at = "publishing" /\ Written(r) < Count[r]
  /\ LET id == Len(inserted) + 1
     IN /\ inserted' = Append(inserted, <<r, Written(r) + 1>>)
        /\ doing' = [doing EXCEPT ![r].ids = @ \cup {id}]
        /\ committed' = committed \cup {id}
  /\ UNCHANGED <<changed, published, pass, history, faults>>

Publish(r) ==
  /\ doing[r].at = "publishing" /\ Written(r) < Count[r]
  /\ LET id == Len(inserted) + 1
     IN /\ inserted' = Append(inserted, <<r, Written(r) + 1>>)
        /\ doing' = [doing EXCEPT ![r].ids = @ \cup {id}]
        /\ committed' = IF r \in Inside THEN committed ELSE committed \cup {id}
  /\ UNCHANGED <<changed, published, pass, history, faults>>

\* The end of the request: the unit of work commits the change and the rows.
Commit(r) ==
  /\ doing[r].at = "publishing" /\ Written(r) = Count[r]
  /\ doing' = [doing EXCEPT ![r].at = "done"]
  /\ changed' = changed \cup {r}
  /\ committed' = committed \cup doing[r].ids
  /\ UNCHANGED <<inserted, published, pass, history, faults>>

\* The request fails or its pod dies.  A unit of work is rolled back and may be tried
\* again; what was saved on its own stays, and what it had still to publish is not told.
Lose(r) ==
  /\ doing[r].at = "publishing"
  /\ doing' = [doing EXCEPT ![r] = [at |-> IF r \in Inside THEN "idle" ELSE "lost", ids |-> {}]]
  /\ Fault
  /\ UNCHANGED <<changed, outbox, pass, history>>

-----------------------------------------------------------------------------
\* A pass of a relay: OutboxRelay.drain

Lowest(i, S) == i \in S /\ \A j \in S : i <= j

Busy(p) == pass[p] # Resting

\* FOR UPDATE SKIP LOCKED over the unpublished rows.
FreeMut == committed \ published    \* mutant: rows of another pass are not skipped

Free == (committed \ published) \ UNION {pass[p].locked : p \in Pods}

\* ORDER BY id LIMIT batchSize.
BatchMut(B) == B # {} /\ B \subseteq Free /\ Cardinality(B) <= BatchSize    \* mutant: in any order

Batch(B) ==
  /\ B # {} /\ B \subseteq Free /\ Cardinality(B) <= BatchSize
  /\ B = Free \/ Cardinality(B) = BatchSize
  /\ \A i \in B, j \in Free \ B : i < j

Claim(p) ==
  /\ ~Busy(p)
  /\ \E B \in SUBSET Free :
       Batch(B) /\ pass' = [pass EXCEPT ![p] = [locked |-> B, left |-> B, done |-> {}]]
  /\ overlapped' = (overlapped \/ \E q \in Pods \ {p} : Busy(q))
  /\ UNCHANGED <<changed, outbox, doing, seen, twice, spoiled, faults>>

Handled(s) == {seen[s][k] : k \in DOMAIN seen[s]}

\* What one row's round of the handlers leaves behind when those of S return.
Hand(i, S) ==
  /\ seen' = [s \in Subscribers |->
                IF s \in S /\ i \notin Handled(s) THEN Append(seen[s], i) ELSE seen[s]]
  /\ twice' = twice \cup {<<s, i>> : s \in {t \in S : i \in Handled(t)}}
  /\ spoiled' = IF S = Subscribers THEN spoiled ELSE spoiled \cup {i}

Hearing(i) == {s \in Subscribers : <<s, ChangeOf(inserted[i])>> \notin Deaf}

DeliverMut(p) ==    \* mutant: a throwing handler ends the pass
  /\ \E i \in pass[p].left : \E S \in SUBSET Hearing(i) :
       /\ Lowest(i, pass[p].left)
       /\ IF S = Hearing(i) THEN UNCHANGED faults ELSE Fault
       /\ Hand(i, S)
       /\ pass' = IF S = Subscribers
                    THEN [pass EXCEPT ![p].left = @ \ {i}, ![p].done = @ \cup {i}]
                    ELSE [pass EXCEPT ![p] = Resting]
  /\ UNCHANGED <<changed, outbox, doing, overlapped>>

\* The handlers of one row, each in a try of its own.
Deliver(p) ==
  /\ \E i \in pass[p].left : \E S \in SUBSET Hearing(i) :
       /\ Lowest(i, pass[p].left)
       /\ IF S = Hearing(i) THEN UNCHANGED faults ELSE Fault
       /\ Hand(i, S)
       /\ pass' = [pass EXCEPT ![p].left = @ \ {i},
                               ![p].done = IF S = Subscribers THEN @ \cup {i} ELSE @]
  /\ UNCHANGED <<changed, outbox, doing, overlapped>>

FinishMut(p) ==    \* mutant: every row of the pass is marked
  /\ Busy(p) /\ pass[p].left = {}
  /\ published' = published \cup pass[p].locked
  /\ pass' = [pass EXCEPT ![p] = Resting]
  /\ UNCHANGED <<changed, inserted, committed, doing, history, faults>>

\* The rows all handlers returned on are marked, and the transaction is committed.
Finish(p) ==
  /\ Busy(p) /\ pass[p].left = {}
  /\ published' = published \cup pass[p].done
  /\ pass' = [pass EXCEPT ![p] = Resting]
  /\ UNCHANGED <<changed, inserted, committed, doing, history, faults>>

\* The pass fails or its pod dies: what the handlers have done stays, the marks do not.
Die(p) ==
  /\ Busy(p)
  /\ pass' = [pass EXCEPT ![p] = Resting]
  /\ spoiled' = spoiled \cup pass[p].locked
  /\ Fault
  /\ UNCHANGED <<changed, outbox, doing, seen, twice, overlapped>>

-----------------------------------------------------------------------------

Relay(p) == Claim(p) \/ Deliver(p) \/ Finish(p)

Next ==
  \/ \E r \in Requests : Save(r) \/ Publish(r) \/ Commit(r) \/ Lose(r)
  \/ \E p \in Pods : Relay(p) \/ Die(p)

Spec == Init /\ [][Next]_vars

\* The interval timer starts a pass again and again, and a pass goes on unless it is lost.
FairSpec == Spec /\ \A p \in Pods : WF_vars(Relay(p))

-----------------------------------------------------------------------------
\* Properties

RowsOf(r) == {i \in committed : ChangeOf(inserted[i]) = r}

\* The types of the table, of the requests and of the passes.
TypeOK ==
  /\ changed \subseteq Requests
  /\ inserted \in Seq(Events)
  /\ published \subseteq committed /\ committed \subseteq DOMAIN inserted
  /\ doing \in [Requests -> [at : {"idle", "publishing", "done", "lost"}, ids : SUBSET DOMAIN inserted]]
  /\ pass \in [Pods -> [locked : SUBSET committed, left : SUBSET committed, done : SUBSET committed]]
  /\ seen \in [Subscribers -> Seq(committed)]

\* "Either the gig is published and the event exists, or neither happened"
\* (outbox.ts:17-18): a unit of work leaves its change with all of its events, or no row.
UnitIsWhole ==
  \A r \in Inside : Cardinality(RowsOf(r)) = IF r \in changed THEN Count[r] ELSE 0

\* A row is marked only when every handler has returned on it, in whichever passes.
PublishedIsSeen == \A i \in published, s \in Subscribers : i \in Handled(s)

\* "so more than one replica can relay at once without two of them delivering the same
\* event" (outbox.ts:85-86): a handler sees a row again only after a failure.
SeenOnce == \A pair \in twice : pair[2] \in spoiled

\* "everything about one gig stays in order" (bus.ts:35): as long as passes neither
\* fail nor overlap, the events of one request reach a handler in the order it
\* published them.
InOrder ==
  spoiled = {} /\ ~overlapped =>
    \A s \in Subscribers : \A j, k \in DOMAIN seen[s] :
      j < k /\ ChangeOf(inserted[seen[s][j]]) = ChangeOf(inserted[seen[s][k]])
        => seen[s][j] < seen[s][k]

\* Events some handler always throws on: their rows stay unpublished, and every pass
\* takes them again before any later row.
Stuck == {e \in Events : \E s \in Subscribers : <<s, ChangeOf(e)>> \in Deaf}

\* What an event published in its unit of work is owed: the handlers that can take it.
\* With as many stuck rows as a pass takes nobody is owed anything: they fill every
\* batch (outbox.ts:141-147).
Owed ==
  IF Cardinality(Stuck) < BatchSize
    THEN {pair \in Subscribers \X Events :
            ChangeOf(pair[2]) \in Inside /\ <<pair[1], ChangeOf(pair[2])>> \notin Deaf}
    ELSE {}

ToldOf == UNION {{<<s, inserted[i]>> : i \in Handled(s)} : s \in Subscribers}

Promise == INSTANCE Announcements WITH
  Changes <- Requests,
  About <- [e \in Events |-> ChangeOf(e)],
  Sure <- Owed,
  told <- ToldOf

\* The outbox keeps the promise of Announcements: whatever dies or throws, nothing is
\* told that did not happen; and while fewer events are stuck than a pass takes rows, an
\* event published in its unit of work reaches each handler that can take it.
KeepsPromise == Promise!Spec
=============================================================================
