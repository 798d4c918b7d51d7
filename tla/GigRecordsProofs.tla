-------------------------- MODULE GigRecordsProofs --------------------------
(***************************************************************************)
(* For any number of requests in flight and any applicants: a gig past the *)
(* lock is booked, and the escrow pays the accepted applicant.             *)
(*                                                                         *)
(* A stale save is harmless to these two because what made a copy sound    *)
(* when it was read never ceases to hold: an accepted application stays    *)
(* accepted, an escrow keeps its vendor and never awaits its deposit again.*)
(* So the invariant asks of every copy in flight what it asks of the row.  *)
(***************************************************************************)
EXTENDS GigRecords, SequenceTheorems, FiniteSetTheorems, TLAPS

Records == [from : GigStates, to : GigStates]

Ops == {"none", "publish", "apply", "offer", "transition", "fund", "webhook", "dispute"}
Steps == {"idle", "history", "lookup", "create", "accept", "count", "commit"}

Requests ==
  [op : Ops, at : Steps, by : Actors, v : Vendors \cup {Nobody}, to : GigStates,
   g : Rows, h : Seq(Records), count : Nat]

Escrows == [vendor : Vendors \cup {Nobody}, funded : BOOLEAN, disputed : BOOLEAN]

\* What the tables say of each other: st the applications, es the escrow.
Tables(st, es) ==
  /\ st \in [Vendors -> Statuses]
  /\ es \in Escrows
  /\ \A u, v \in Vendors : st[u] = "accepted" /\ st[v] = "accepted" => u = v
  /\ es.vendor # Nobody => st[es.vendor] = "accepted"
  /\ HasMovedOn(es) => es.vendor # Nobody

\* A copy of the gig, stored or in flight, that may be saved at any time.
Good(g, st, es) ==
  /\ g.offer # Nobody => st[g.offer] = "accepted"
  /\ g.state \in PastTheLock => HasMovedOn(es) /\ g.offer = es.vendor

Sound(r, st, es) ==
  /\ Good(r.g, st, es)
  /\ r.op = "webhook" => HasMovedOn(es)
  /\ r.op = "fund" /\ r.at \in {"lookup", "create"} => r.g.offer # Nobody
  /\ r.op \in {"apply", "offer"} => r.v \in Vendors

\* The facts sound copies rest on are never taken back.
Kept(st, es, st2, es2) ==
  /\ \A v \in Vendors : st[v] = "accepted" => st2[v] = "accepted"
  /\ es.vendor # Nobody => es2.vendor = es.vendor
  /\ HasMovedOn(es) => HasMovedOn(es2)

IInv ==
  /\ Tables(status, escrow)
  /\ gig \in Rows /\ Good(gig, status, escrow)
  /\ history \in Seq(Records)
  /\ req \in [Workers -> Requests]
  /\ \A w \in Workers : Sound(req[w], status, escrow)

-----------------------------------------------------------------------------
\* Lemmas

\* The request every worker starts from asks nothing of the tables.
LEMMA IdleFacts ==
  /\ Idle \in Requests /\ Idle.g = NewGig /\ Idle.op = "none"
  /\ NewGig \in Rows /\ NewGig.offer = Nobody /\ NewGig.state = "Draft"
<1>1. NewGig \in Rows /\ NewGig.offer = Nobody /\ NewGig.state = "Draft"
  BY DEF NewGig, Rows, GigStates
<1>2. <<>> \in Seq(Records)
  OBVIOUS
<1>3. Idle \in Requests /\ Idle.g = NewGig /\ Idle.op = "none"
  BY <1>1, <1>2 DEF Idle, Requests, Actors, GigStates, Ops, Steps
<1> QED
  BY <1>1, <1>3

\* Facts that are kept keep a copy sound.
LEMMA StaysGood ==
  ASSUME NEW g \in Rows, NEW st, NEW es, NEW st2, NEW es2,
         Tables(st, es), Kept(st, es, st2, es2), Good(g, st, es)
  PROVE  Good(g, st2, es2)
BY DEF Good, Kept, Tables, Rows

\* The frame of every step: one request changes, the gig is left alone or saved
\* sound, and the tables keep what they said.
LEMMA Frame ==
  ASSUME IInv, NEW w \in Workers, NEW x \in Requests,
         req' = [req EXCEPT ![w] = x],
         Tables(status', escrow'), Kept(status, escrow, status', escrow'),
         Sound(x, status', escrow'),
         gig' \in Rows, Good(gig', status', escrow'),
         history' \in Seq(Records)
  PROVE  IInv'
<1>1. req' \in [Workers -> Requests]
  BY DEF IInv
<1>2. ASSUME NEW u \in Workers
      PROVE  Sound(req'[u], status', escrow')
  <2>1. CASE u = w
    BY <2>1 DEF IInv
  <2>2. CASE u # w
    <3>1. req'[u] = req[u] /\ req[u] \in Requests /\ req[u].g \in Rows
      BY <2>2 DEF IInv, Requests
    <3>2. Sound(req[u], status, escrow) /\ Tables(status, escrow)
      BY DEF IInv
    <3>3. Good(req[u].g, status', escrow')
      BY <3>1, <3>2, StaysGood DEF Sound
    <3> QED
      BY <3>1, <3>2, <3>3 DEF Sound, Kept
  <2> QED
    BY <2>1, <2>2
<1> QED
  BY <1>1, <1>2 DEF IInv

\* The frame, when neither the gig nor a table changes.
LEMMA QuietFrame ==
  ASSUME IInv, NEW w \in Workers, NEW x \in Requests,
         req' = [req EXCEPT ![w] = x], Sound(x, status, escrow), UNCHANGED tables
  PROVE  IInv'
<1>1. /\ Tables(status', escrow') /\ Kept(status, escrow, status', escrow')
      /\ gig' \in Rows /\ Good(gig', status', escrow') /\ history' \in Seq(Records)
      /\ Sound(x, status', escrow')
  BY DEF IInv, tables, Kept
<1> QED
  BY <1>1, Frame

\* A request that ends leaves an idle worker.
LEMMA IdleIsSound == ASSUME NEW st, NEW es PROVE Sound(Idle, st, es)
BY IdleFacts DEF Sound, Good, PastTheLock

LEMMA EndStep ==
  ASSUME IInv, NEW w \in Workers, End(w), UNCHANGED tables
  PROVE  IInv'
BY IdleFacts, IdleIsSound, QuietFrame DEF End

\* A transition leads past the lock only from there, or through the guard that asks
\* for an offer and a deposit.
LEMMA ThroughTheGuard ==
  ASSUME NEW g, NEW to \in PastTheLock, NEW by, NEW facts,
         TransitionAllowed(GuardedGig(g), to, by, facts)
  PROVE  g.state \in PastTheLock \/ (g.offer # Nobody /\ facts.depositFunded)
<1> DEFINE s == g.state
<1>1. GuardedGig(g).state = s /\ GuardedGig(g).offerAccepted = (g.offer # Nobody)
  BY DEF GuardedGig
<1>2. PICK edge \in Transitions : edge.from = s /\ edge.to = to
  BY <1>1 DEF TransitionAllowed, CanTransition
<1>3. s \in PastTheLock \/ (s = "ApplicationsReview" /\ to = "EscrowLocked")
  BY <1>2 DEF Transitions, Edge, PastTheLock
<1>4. ASSUME s = "ApplicationsReview", to = "EscrowLocked"
      PROVE  g.offer # Nobody /\ facts.depositFunded
  BY <1>1, <1>4 DEF TransitionAllowed, Guard
<1> QED
  BY <1>3, <1>4

\* What applyTransition makes of a sound request is sound.
LEMMA MovedIsSound ==
  ASSUME NEW st, NEW es, Tables(st, es), NEW r \in Requests, Sound(r, st, es),
         NEW to \in GigStates, NEW by, NEW facts, facts.depositFunded => HasMovedOn(es),
         TransitionAllowed(GuardedGig(r.g), to, by, facts)
  PROVE  Moved(r, to) \in Requests /\ Sound(Moved(r, to), st, es)
<1> DEFINE n == Moved(r, to)
           rec == [from |-> r.g.state, to |-> to]
<1>1. r.g \in Rows /\ r.h \in Seq(Records)
  BY DEF Requests
<1>2. rec \in Records
  BY <1>1 DEF Records, Rows
<1>3. /\ n.g = [r.g EXCEPT !.state = to] /\ n.h = Append(r.h, rec) /\ n.at = "count"
      /\ n.op = r.op /\ n.v = r.v
  BY <1>1 DEF Moved, Requests, Rows
<1>4. n.g \in Rows /\ n.g.state = to /\ n.g.offer = r.g.offer
  BY <1>1, <1>3 DEF Rows
<1>5. Append(r.h, rec) \in Seq(Records)
  BY <1>1, <1>2
<1>6. n \in Requests
  BY <1>1, <1>4, <1>5 DEF Moved, Requests, Steps
<1>7. ASSUME to \in PastTheLock
      PROVE  HasMovedOn(es) /\ r.g.offer = es.vendor
  <2>1. CASE r.g.state \in PastTheLock
    BY <2>1 DEF Sound, Good
  <2>2. CASE r.g.offer # Nobody /\ facts.depositFunded
    <3>1. HasMovedOn(es) /\ es.vendor \in Vendors /\ st[es.vendor] = "accepted"
      BY <2>2 DEF Tables, Escrows
    <3>2. r.g.offer \in Vendors /\ st[r.g.offer] = "accepted"
      BY <1>1, <2>2 DEF Sound, Good, Rows
    <3> QED
      BY <3>1, <3>2 DEF Tables
  <2> QED
    BY <1>7, <2>1, <2>2, ThroughTheGuard
<1>8. Good(n.g, st, es)
  BY <1>4, <1>7 DEF Sound, Good
<1> QED
  BY <1>3, <1>6, <1>8 DEF Sound

\* A handler drives its copy, or ends: the tables may change in the same step.
LEMMA DriveStep ==
  ASSUME IInv, NEW w \in Workers, NEW r \in Requests, NEW to \in GigStates, NEW by, NEW facts,
         Tables(status', escrow'), Kept(status, escrow, status', escrow'),
         UNCHANGED <<gig, history>>,
         Sound(r, status', escrow'), facts.depositFunded => HasMovedOn(escrow'),
         Drive(w, r, to, by, facts)
  PROVE  IInv'
<1>1. gig' \in Rows /\ history' \in Seq(Records) /\ Good(gig', status', escrow')
  BY StaysGood DEF IInv
<1>2. CASE TransitionAllowed(GuardedGig(r.g), to, by, facts)
  <2>1. Moved(r, to) \in Requests /\ Sound(Moved(r, to), status', escrow')
    BY <1>2, MovedIsSound
  <2>2. req' = [req EXCEPT ![w] = Moved(r, to)]
    BY <1>2 DEF Drive
  <2> QED
    BY <1>1, <2>1, <2>2, Frame
<1>3. CASE ~TransitionAllowed(GuardedGig(r.g), to, by, facts)
  <2>1. req' = [req EXCEPT ![w] = Idle]
    BY <1>3 DEF Drive, End
  <2> QED
    BY <1>1, <2>1, Frame, IdleFacts, IdleIsSound
<1> QED
  BY <1>2, <1>3

\* Nothing changes in the tables: they say of each other what they said.
LEMMA SameTables ==
  ASSUME IInv, UNCHANGED <<status, escrow>>
  PROVE  Tables(status', escrow') /\ Kept(status, escrow, status', escrow')
BY DEF IInv, Kept

\* What the invariant says of one request.
LEMMA RequestFacts ==
  ASSUME IInv, NEW w \in Workers
  PROVE  /\ req[w] \in Requests /\ Sound(req[w], status, escrow)
         /\ req[w].g \in Rows /\ req[w].h \in Seq(Records) /\ req[w].to \in GigStates
         /\ req[w].count \in Nat
BY DEF IInv, Requests

-----------------------------------------------------------------------------
\* One lemma for each action

LEMMA InitIInv == Init => IInv
<1> SUFFICES ASSUME Init PROVE IInv
  OBVIOUS
<1>1. Tables(status, escrow)
  BY DEF Init, Tables, Statuses, Escrows, HasMovedOn
<1>2. gig \in Rows /\ Good(gig, status, escrow)
  BY IdleFacts DEF Init, Good, PastTheLock
<1>3. history \in Seq(Records)
  BY DEF Init
<1>4. req \in [Workers -> Requests]
  BY IdleFacts DEF Init
<1>5. \A w \in Workers : Sound(req[w], status, escrow)
  BY IdleIsSound DEF Init
<1> QED
  BY <1>1, <1>2, <1>3, <1>4, <1>5 DEF IInv

\* A request begins with the stored row, which is sound.
LEMMA BeginStep ==
  ASSUME IInv, NEW w \in Workers, NEW op \in Ops \ {"none"}, NEW by \in Actors,
         NEW v \in Vendors \cup {Nobody}, NEW to \in GigStates, Begin(w, op, by, v, to),
         op = "webhook" => HasMovedOn(escrow), op \in {"apply", "offer"} => v \in Vendors
  PROVE  IInv'
<1> DEFINE x == [Idle EXCEPT !.op = op, !.at = "history", !.by = by, !.v = v, !.to = to, !.g = gig]
<1>1. x \in Requests /\ x.g = gig /\ x.op = op /\ x.at = "history" /\ x.v = v
  BY IdleFacts DEF IInv, Requests, Steps, Idle
<1>2. Sound(x, status, escrow)
  BY <1>1 DEF IInv, Sound
<1>3. req' = [req EXCEPT ![w] = x] /\ UNCHANGED tables
  BY DEF Begin, tables
<1> HIDE DEF x
<1> QED
  BY <1>1, <1>2, <1>3, QuietFrame

LEMMA StartStep ==
  ASSUME IInv, NEW w \in Workers, Start(w)
  PROVE  IInv'
<1>1. CASE StartPublish(w)
  BY <1>1, BeginStep DEF StartPublish, Ops, Actors, GigStates
<1>2. CASE StartFund(w)
  BY <1>2, BeginStep DEF StartFund, Ops, Actors, GigStates
<1>3. CASE StartWebhook(w)
  BY <1>3, BeginStep DEF StartWebhook, HasMovedOn, Ops, Actors, GigStates
<1>4. ASSUME NEW v \in Vendors, StartApply(w, v) \/ StartOffer(w, v)
      PROVE  IInv'
  BY <1>4, BeginStep DEF StartApply, StartOffer, Ops, Actors, GigStates
<1>5. ASSUME NEW by \in Parties, NEW to \in Targets, StartTransition(w, by, to)
      PROVE  IInv'
  <2>1. by \in Actors /\ to \in GigStates
    BY RecordsAssumption DEF Parties, Actors
  <2> QED
    BY <1>5, <2>1, BeginStep DEF StartTransition, Ops
<1>6. ASSUME NEW by \in {"host", "vendor"}, StartDispute(w, by)
      PROVE  IInv'
  BY <1>6, BeginStep DEF StartDispute, Ops, Actors, GigStates
<1> QED
  BY <1>1, <1>2, <1>3, <1>4, <1>5, <1>6 DEF Start

LEMMA ReadHistoryStep ==
  ASSUME IInv, NEW w \in Workers, ReadHistory(w)
  PROVE  IInv'
<1> DEFINE r == [req[w] EXCEPT !.h = history]
<1>1. /\ r \in Requests /\ r.g = req[w].g /\ r.op = req[w].op /\ r.v = req[w].v
      /\ r.at = "history" /\ r.g \in Rows
  BY RequestFacts DEF IInv, Requests, ReadHistory
<1>2. Sound(r, status, escrow) /\ UNCHANGED tables /\ UNCHANGED <<status, escrow>>
  BY <1>1, RequestFacts DEF Sound, ReadHistory, tables
<1>3. ASSUME NEW at \in {"lookup"}, r.op = "fund" => r.g.offer # Nobody,
             req' = [req EXCEPT ![w] = [r EXCEPT !.at = at]]
      PROVE  IInv'
  <2> DEFINE x == [r EXCEPT !.at = at]
  <2>1. x \in Requests /\ x.g = r.g /\ x.op = r.op /\ x.v = r.v
    BY <1>1 DEF Requests, Steps
  <2>2. Sound(x, status, escrow)
    BY <1>2, <1>3, <2>1 DEF Sound
  <2>3. req' = [req EXCEPT ![w] = x]
    BY <1>3
  <2> HIDE DEF x, r
  <2> QED
    BY <1>2, <2>1, <2>2, <2>3, QuietFrame
<1>4. ASSUME NEW to \in GigStates, NEW by, NEW facts, facts.depositFunded => HasMovedOn(escrow),
             Drive(w, r, to, by, facts)
      PROVE  IInv'
  <2> HIDE DEF r
  <2>1. Tables(status', escrow') /\ Kept(status, escrow, status', escrow')
    BY <1>2, SameTables
  <2>2. Sound(r, status', escrow') /\ (facts.depositFunded => HasMovedOn(escrow'))
    BY <1>2, <1>4
  <2>3. UNCHANGED <<gig, history>>
    BY <1>2 DEF tables
  <2> QED
    BY <1>1, <1>4, <2>1, <2>2, <2>3, DriveStep
<1>5. CASE End(w)
  BY <1>2, <1>5, EndStep
<1>6. CASE req[w].op = "publish"
  <2>1. Drive(w, r, "Open", "host", NoFacts)
    BY <1>6 DEF ReadHistory
  <2> QED
    BY <1>4, <2>1 DEF NoFacts, GigStates
<1>7. CASE req[w].op = "webhook"
  <2> DEFINE facts == [NoFacts EXCEPT !.depositFunded = TRUE]
  <2>1. \/ Drive(w, r, "EscrowLocked", "system", facts)
        \/ End(w)
    BY <1>7 DEF ReadHistory
  <2>2. HasMovedOn(escrow)
    BY <1>1, <1>2, <1>7 DEF Sound
  <2> QED
    BY <1>4, <1>5, <2>1, <2>2 DEF GigStates
<1>8. CASE req[w].op = "dispute"
  <2>1. Drive(w, r, "Disputed", r.by, NoFacts)
    BY <1>8 DEF ReadHistory
  <2> QED
    BY <1>4, <2>1 DEF NoFacts, GigStates
<1>9. CASE req[w].op \notin {"publish", "webhook", "dispute"}
  <2>1. \/ End(w)
        \/ /\ req' = [req EXCEPT ![w] = [r EXCEPT !.at = "lookup"]]
           /\ r.op = "fund" => r.g.offer # Nobody
    BY <1>9 DEF ReadHistory
  <2> QED
    BY <1>3, <1>5, <2>1
<1> QED
  BY <1>6, <1>7, <1>8, <1>9

\* A step that only moves a request on to its next await.
LEMMA GoToStep ==
  ASSUME IInv, NEW w \in Workers, NEW at \in Steps, GoTo(w, at), UNCHANGED tables,
         req[w].op = "fund" /\ at \in {"lookup", "create"} => req[w].g.offer # Nobody
  PROVE  IInv'
<1> DEFINE x == [req[w] EXCEPT !.at = at]
<1>1. /\ x \in Requests /\ x.g = req[w].g /\ x.op = req[w].op /\ x.v = req[w].v
      /\ x.at = at
  BY RequestFacts DEF Requests
<1>2. Sound(x, status, escrow)
  BY <1>1, RequestFacts DEF Sound
<1>3. req' = [req EXCEPT ![w] = x]
  BY <1>1, RequestFacts DEF GoTo, IInv, Requests
<1> HIDE DEF x
<1> QED
  BY <1>1, <1>2, <1>3, QuietFrame

LEMMA LookupStep ==
  ASSUME IInv, NEW w \in Workers, ApplyLookup(w) \/ OfferLookup(w) \/ FundLookup(w)
  PROVE  IInv'
<1>1. UNCHANGED tables
  BY DEF ApplyLookup, OfferLookup, FundLookup, tables
<1>2. CASE End(w)
  BY <1>1, <1>2, EndStep
<1>3. CASE ApplyLookup(w) /\ GoTo(w, "create")
  BY <1>1, <1>3, GoToStep DEF ApplyLookup, At, Steps
<1>4. CASE OfferLookup(w) /\ GoTo(w, "accept")
  BY <1>1, <1>4, GoToStep DEF OfferLookup, At, Steps
<1>5. CASE FundLookup(w) /\ GoTo(w, "create")
  <2>1. req[w].g.offer # Nobody
    BY <1>5, RequestFacts DEF FundLookup, At, Sound
  <2> QED
    BY <1>1, <1>5, <2>1, GoToStep DEF Steps
<1> QED
  BY <1>2, <1>3, <1>4, <1>5 DEF ApplyLookup, OfferLookup, FundLookup, GoOrEnd

\* A new application is not an accepted one.
LEMMA ApplyCreateStep ==
  ASSUME IInv, NEW w \in Workers, ApplyCreate(w)
  PROVE  IInv'
<1> DEFINE v == req[w].v
           row == [req[w].g EXCEPT !.count = @ + 1]
           x == [req[w] EXCEPT !.g.count = @ + 1, !.at = "count"]
<1>1. v \in Vendors /\ req[w].op = "apply" /\ UNCHANGED <<gig, history, escrow>>
  BY RequestFacts DEF ApplyCreate, At, Sound
<1>2. CASE status[v] # "none"
  <2>1. UNCHANGED tables /\ End(w)
    BY <1>2 DEF ApplyCreate, tables
  <2> QED
    BY <2>1, EndStep
<1>3. CASE status[v] = "none"
  <2>1. status' = [status EXCEPT ![v] = "submitted"]
    BY <1>3 DEF ApplyCreate
  <2>2. Tables(status', escrow') /\ Kept(status, escrow, status', escrow')
    BY <1>1, <1>3, <2>1 DEF IInv, Tables, Kept, Statuses
  <2>3. /\ x \in Requests /\ x.op = "apply" /\ x.v = v
        /\ x.g \in Rows /\ x.g.state = req[w].g.state /\ x.g.offer = req[w].g.offer
    <3>1. row \in Rows /\ row.state = req[w].g.state /\ row.offer = req[w].g.offer
      BY RequestFacts DEF Rows
    <3>2. x = [req[w] EXCEPT !.g = row, !.at = "count"]
      BY RequestFacts DEF Requests, Rows
    <3> HIDE DEF row, x
    <3> QED
      BY <1>1, <3>1, <3>2, RequestFacts DEF Requests, Steps
  <2>4. Good(req[w].g, status', escrow')
    BY <2>2, RequestFacts, StaysGood DEF IInv, Sound
  <2>5. Sound(x, status', escrow')
    BY <1>1, <2>3, <2>4 DEF Sound, Good
  <2>6. CASE x.g.state = "Open"
    <3>1. Drive(w, x, "ApplicationsReview", "system", NoFacts)
      BY <1>3, <2>6 DEF ApplyCreate
    <3>2. "ApplicationsReview" \in GigStates /\ ~NoFacts.depositFunded
      BY DEF GigStates, NoFacts
    <3> HIDE DEF x
    <3> QED
      BY <1>1, <2>2, <2>3, <2>5, <3>1, <3>2, DriveStep
  <2>7. CASE x.g.state # "Open"
    <3>1. req' = [req EXCEPT ![w] = x]
      BY <1>3, <2>7 DEF ApplyCreate
    <3>2. gig' \in Rows /\ Good(gig', status', escrow') /\ history' \in Seq(Records)
      BY <1>1, <2>2, StaysGood DEF IInv
    <3> HIDE DEF x
    <3> QED
      BY <2>2, <2>3, <2>5, <3>1, <3>2, Frame
  <2> QED
    BY <2>6, <2>7
<1> QED
  BY <1>2, <1>3

\* The unique index leaves room for one accepted application.
LEMMA OfferAcceptStep ==
  ASSUME IInv, NEW w \in Workers, OfferAccept(w)
  PROVE  IInv'
<1> DEFINE v == req[w].v
           x == [req[w] EXCEPT !.g.offer = v, !.at = "count"]
<1>1. v \in Vendors /\ req[w].op = "offer" /\ UNCHANGED <<gig, history, escrow>>
  BY RequestFacts DEF OfferAccept, At, Sound
<1>2. CASE ~OneAccepted(v)
  <2>1. UNCHANGED tables /\ End(w)
    BY <1>2 DEF OfferAccept, tables
  <2> QED
    BY <2>1, EndStep
<1>3. CASE OneAccepted(v)
  <2>1. status' = [status EXCEPT ![v] = "accepted"] /\ req' = [req EXCEPT ![w] = x]
    BY <1>3, RequestFacts DEF OfferAccept, IInv, Requests, Rows
  <2>2. Tables(status', escrow') /\ Kept(status, escrow, status', escrow')
    BY <1>1, <1>3, <2>1 DEF IInv, Tables, Kept, Statuses, OneAccepted
  <2>3. /\ x \in Requests /\ x.op = "offer" /\ x.v = v
        /\ x.g.state = req[w].g.state /\ x.g.offer = v
    BY <1>1, RequestFacts DEF Requests, Rows, Steps
  <2>4. x.g.state \in PastTheLock => HasMovedOn(escrow') /\ v = escrow'.vendor
    <3>1. SUFFICES ASSUME x.g.state \in PastTheLock
                   PROVE  HasMovedOn(escrow) /\ v = escrow.vendor
      BY <1>1
    <3>2. HasMovedOn(escrow) /\ escrow.vendor \in Vendors /\ status[escrow.vendor] = "accepted"
      BY <2>3, <3>1, RequestFacts DEF Sound, Good, IInv, Tables, Escrows
    <3> QED
      BY <1>1, <1>3, <3>2 DEF OneAccepted
  <2>5. status'[v] = "accepted"
    BY <1>1, <2>1 DEF IInv, Tables
  <2>6. Sound(x, status', escrow')
    BY <1>1, <2>3, <2>4, <2>5 DEF Sound, Good
  <2>7. gig' \in Rows /\ Good(gig', status', escrow') /\ history' \in Seq(Records)
    BY <1>1, <2>2, StaysGood DEF IInv
  <2> HIDE DEF x
  <2> QED
    BY <2>1, <2>2, <2>3, <2>6, <2>7, Frame
<1> QED
  BY <1>2, <1>3

\* The transition route's deposit guard reads the escrow in the same statement.
LEMMA TransitionLookupStep ==
  ASSUME IInv, NEW w \in Workers, TransitionLookup(w)
  PROVE  IInv'
<1>1. UNCHANGED tables /\ UNCHANGED <<status, escrow>> /\ UNCHANGED <<gig, history>>
  BY DEF TransitionLookup, tables
<1>2. CASE End(w)
  BY <1>1, <1>2, EndStep
<1>3. ASSUME NEW hours, NEW reason, NEW checkedIn,
             Drive(w, req[w], req[w].to, req[w].by,
                   [depositFunded |-> HasMovedOn(escrow), hoursUntilEvent |-> hours,
                    cancellationReason |-> reason, checkedInAtVenue |-> checkedIn])
      PROVE  IInv'
  <2> DEFINE facts == [depositFunded |-> HasMovedOn(escrow), hoursUntilEvent |-> hours,
                       cancellationReason |-> reason, checkedInAtVenue |-> checkedIn]
  <2>1. Tables(status', escrow') /\ Kept(status, escrow, status', escrow')
    BY <1>1, SameTables
  <2>2. /\ req[w] \in Requests /\ req[w].to \in GigStates /\ Sound(req[w], status', escrow')
        /\ facts.depositFunded => HasMovedOn(escrow')
    BY <1>1, RequestFacts
  <2>3. Drive(w, req[w], req[w].to, req[w].by, facts)
    BY <1>3
  <2> HIDE DEF facts
  <2> QED
    BY <1>1, <2>1, <2>2, <2>3, DriveStep
<1> QED
  BY <1>2, <1>3 DEF TransitionLookup

\* The escrow is made out to the offer of the copy, which is an accepted application.
LEMMA FundCreateStep ==
  ASSUME IInv, NEW w \in Workers, FundCreate(w)
  PROVE  IInv'
<1> DEFINE v == req[w].g.offer
           x == [req[w] EXCEPT !.at = "count"]
<1>1. UNCHANGED <<gig, history, status>>
  BY DEF FundCreate
<1>2. CASE escrow.vendor # Nobody
  <2>1. UNCHANGED tables /\ End(w)
    BY <1>2 DEF FundCreate, tables
  <2> QED
    BY <2>1, EndStep
<1>3. CASE escrow.vendor = Nobody
  <2>1. escrow' = [escrow EXCEPT !.vendor = v] /\ GoTo(w, "count")
    BY <1>3 DEF FundCreate
  <2>2. req' = [req EXCEPT ![w] = x]
    BY <2>1, RequestFacts DEF GoTo, IInv, Requests
  <2>3. v \in Vendors /\ status[v] = "accepted"
    BY RequestFacts DEF FundCreate, At, Sound, Good, Rows
  <2>4. Tables(status', escrow') /\ Kept(status, escrow, status', escrow')
    BY <1>1, <1>3, <2>1, <2>3 DEF IInv, Tables, Kept, Escrows
  <2>5. gig' \in Rows /\ Good(gig', status', escrow') /\ history' \in Seq(Records)
    BY <1>1, <2>4, StaysGood DEF IInv
  <2>6. x \in Requests /\ x.g = req[w].g /\ x.op = req[w].op /\ x.v = req[w].v /\ x.at = "count"
    BY RequestFacts DEF Requests, Steps
  <2>7. Good(x.g, status', escrow')
    BY <2>4, <2>6, RequestFacts, StaysGood DEF IInv, Sound
  <2>8. Sound(x, status', escrow')
    BY <2>4, <2>6, <2>7, RequestFacts DEF Sound, Kept
  <2> HIDE DEF x
  <2> QED
    BY <2>2, <2>4, <2>5, <2>6, <2>8, Frame
<1> QED
  BY <1>2, <1>3

\* gigs.save counts, and then commits a copy that is sound whatever has passed since
\* it was read.
LEMMA CountTransitionsStep ==
  ASSUME IInv, NEW w \in Workers, CountTransitions(w)
  PROVE  IInv'
<1> DEFINE x == [req[w] EXCEPT !.count = Len(history), !.at = "commit"]
<1>1. Len(history) \in Nat
  BY DEF IInv
<1>2. x \in Requests /\ x.g = req[w].g /\ x.op = req[w].op /\ x.v = req[w].v /\ x.at = "commit"
  BY <1>1, RequestFacts DEF Requests, Steps
<1>3. Sound(x, status, escrow)
  BY <1>2, RequestFacts DEF Sound
<1>4. req' = [req EXCEPT ![w] = x] /\ UNCHANGED tables
  BY RequestFacts DEF CountTransitions, IInv, Requests, tables
<1> HIDE DEF x
<1> QED
  BY <1>2, <1>3, <1>4, QuietFrame

LEMMA CommitGigStep ==
  ASSUME IInv, NEW w \in Workers, CommitGig(w)
  PROVE  IInv'
<1> DEFINE r == req[w]
           new == NewTransitions(r)
<1>1. UNCHANGED <<status, escrow>> /\ gig' = r.g /\ history' = history \o new
      /\ req' = [req EXCEPT ![w] = Idle]
  BY DEF CommitGig, End
<1>2. new \in Seq(Records)
  BY RequestFacts DEF NewTransitions
<1>3. history' \in Seq(Records)
  BY <1>1, <1>2 DEF IInv
<1>4. Tables(status', escrow') /\ Kept(status, escrow, status', escrow')
  BY <1>1, SameTables
<1>5. gig' \in Rows /\ Good(gig', status', escrow')
  BY <1>1, RequestFacts DEF Sound
<1> QED
  BY <1>1, <1>3, <1>4, <1>5, Frame, IdleFacts, IdleIsSound

\* A deposit that is booked, or a dispute that is opened, makes no copy less sound.
LEMMA EscrowMovesOn ==
  ASSUME IInv, CaptureDeposit \/ OpenDispute
  PROVE  IInv'
<1>1. UNCHANGED <<gig, history, status, req>> /\ escrow.vendor # Nobody
  BY DEF CaptureDeposit, OpenDispute
<1>2. Tables(status', escrow') /\ Kept(status, escrow, status', escrow')
  <2>1. CASE escrow' = [escrow EXCEPT !.funded = TRUE]
    BY <1>1, <2>1 DEF IInv, Tables, Kept, Escrows, HasMovedOn
  <2>2. CASE escrow' = [escrow EXCEPT !.disputed = TRUE]
    BY <1>1, <2>2 DEF IInv, Tables, Kept, Escrows, HasMovedOn
  <2> QED
    BY <2>1, <2>2 DEF CaptureDeposit, OpenDispute
<1>3. gig' \in Rows /\ Good(gig', status', escrow')
  BY <1>1, <1>2, StaysGood DEF IInv
<1>4. ASSUME NEW w \in Workers
      PROVE  Sound(req'[w], status', escrow')
  <2>1. Good(req[w].g, status', escrow')
    BY <1>2, RequestFacts, StaysGood DEF IInv, Sound
  <2> QED
    BY <1>1, <1>2, <2>1, RequestFacts DEF Sound, Kept
<1> QED
  BY <1>1, <1>2, <1>3, <1>4 DEF IInv

\* A lost request, and a step that changes nothing.
LEMMA CrashStep ==
  ASSUME IInv, NEW w \in Workers, Crash(w)
  PROVE  IInv'
BY EndStep DEF Crash

LEMMA StutterStep ==
  ASSUME IInv, UNCHANGED vars
  PROVE  IInv'
BY DEF IInv, vars, tables

\* No step of the specification breaks the invariant.
LEMMA NextStep == IInv /\ [Next]_vars => IInv'
<1> SUFFICES ASSUME IInv, [Next]_vars PROVE IInv'
  OBVIOUS
<1>1. ASSUME NEW w \in Workers, Continue(w)
      PROVE  IInv'
  BY <1>1, ReadHistoryStep, LookupStep, ApplyCreateStep, OfferAcceptStep, TransitionLookupStep,
     FundCreateStep, CountTransitionsStep, CommitGigStep DEF Continue
<1> QED
  BY <1>1, StartStep, CrashStep, EscrowMovesOn, StutterStep DEF Next

-----------------------------------------------------------------------------
\* Theorems

\* The stored row and every copy in flight stay sound, however requests overlap.
THEOREM Invariance == Spec => []IInv
BY InitIInv, NextStep, PTL DEF Spec

\* The tables and the copies keep their types (the reads and writes of PgGigs and
\* PgApplications, postgres.ts:659-860).
THEOREM TypeCorrect == Spec => []TypeOK
<1>1. IInv => TypeOK
  <2> SUFFICES ASSUME IInv PROVE TypeOK
    OBVIOUS
  <2>1. /\ escrow \in [vendor : Vendors \cup {Nobody}, funded : BOOLEAN, disputed : BOOLEAN]
        /\ escrow.vendor = Nobody => ~HasMovedOn(escrow)
    BY DEF IInv, Tables, Escrows
  <2>2. \A w \in Workers : req[w].g \in Rows
    BY RequestFacts
  <2> QED
    BY <2>1, <2>2 DEF IInv, Tables, TypeOK, Records
<1> QED
  BY <1>1, Invariance, PTL

\* However offers, applications and stale saves overlap, the offer stored with the gig
\* is an accepted application (gigs.ts:295-300).
THEOREM OfferAlwaysAccepted == Spec => []OfferIsAccepted
<1>1. IInv => OfferIsAccepted
  BY DEF IInv, Good, OfferIsAccepted
<1> QED
  BY <1>1, Invariance, PTL

\* The escrow row is made out to the one accepted applicant, always
\* (payments.ts:102-122 over the unique index of 001_init.sql).
THEOREM EscrowAlwaysPaysAccepted == Spec => []EscrowPaysAccepted
<1>1. IInv => EscrowPaysAccepted
  BY DEF IInv, Tables, Escrows, EscrowPaysAccepted
<1> QED
  BY <1>1, Invariance, PTL

\* A gig past the lock holds the offer its escrow pays, and that escrow no longer awaits
\* its deposit: it is booked, or one of the parties has disputed it (the guard of gig.ts
\* with the facts of gigs.ts:333-335, over saves of stale copies).
THEOREM LockedAlwaysBooked == Spec => []LockedIsBooked
<1>1. IInv => LockedIsBooked
  BY DEF IInv, Good, HasMovedOn, LockedIsBooked
<1> QED
  BY <1>1, Invariance, PTL

-----------------------------------------------------------------------------
\* The count: no copy in flight counts an application that is not there.

Counted ==
  /\ IsFiniteSet(Applications)
  /\ gig.count <= Cardinality(Applications)
  /\ \A w \in Workers : req[w].g.count <= Cardinality(Applications)

LEMMA CountedInit == Init => Counted
<1> SUFFICES ASSUME Init PROVE Counted OBVIOUS
<1>1. Applications = {} BY DEF Init, Applications
<1>2. IsFiniteSet(Applications) /\ Cardinality(Applications) = 0 BY <1>1, FS_EmptySet
<1>3. NewGig.count = 0 BY DEF NewGig
<1> QED BY <1>2, <1>3, IdleFacts DEF Init, Counted

\* A request's copy counts no more than a copy or the row did, and no application goes.
LEMMA CountKept ==
  ASSUME IInv, Counted, NEW w \in Workers, NEW x, req' = [req EXCEPT ![w] = x],
         x.g.count \in {0, gig.count, req[w].g.count}, gig' \in {gig, req[w].g},
         IsFiniteSet(Applications'), Applications \subseteq Applications'
  PROVE  Counted'
<1> DEFINE n == Cardinality(Applications)
           m == Cardinality(Applications')
<1>1. n \in Nat /\ m \in Nat /\ n <= m
  <2>1. Applications \in SUBSET Applications' OBVIOUS
  <2> QED BY <2>1, FS_CardinalityType, FS_Subset DEF Counted
<1>2. gig.count \in Nat /\ gig.count <= n BY DEF IInv, Rows, Counted
<1>3. ASSUME NEW u \in Workers PROVE req[u].g.count \in Nat /\ req[u].g.count <= n
  BY RequestFacts DEF Rows, Counted
<1> HIDE DEF n, m
<1>4. x.g.count <= m BY <1>1, <1>2, <1>3
<1>5. gig'.count <= m BY <1>1, <1>2, <1>3
<1>6. ASSUME NEW u \in Workers PROVE req'[u].g.count <= m
  <2>1. req'[u] = IF u = w THEN x ELSE req[u] BY DEF IInv
  <2> QED BY <1>1, <1>3, <1>4, <2>1
<1> QED BY <1>5, <1>6 DEF Counted, m

\* Drive and End leave the count of the copy they are given, or leave no copy.
LEMMA DriveCounts ==
  ASSUME NEW w \in Workers, NEW r \in Requests, NEW to \in GigStates, NEW by, NEW facts,
         Drive(w, r, to, by, facts)
  PROVE  \E x : req' = [req EXCEPT ![w] = x] /\ x.g.count \in {0, r.g.count}
<1>1. Idle.g.count = 0 BY IdleFacts DEF NewGig
<1>2. Moved(r, to).g.count = r.g.count BY DEF Moved, Requests, Rows
<1> QED BY <1>1, <1>2 DEF Drive, End

LEMMA NewApplication ==
  ASSUME IInv, Counted, NEW v \in Vendors, status[v] = "none",
         status' = [status EXCEPT ![v] = "submitted"]
  PROVE  /\ IsFiniteSet(Applications')
         /\ Cardinality(Applications') = Cardinality(Applications) + 1
<1>1. status \in [Vendors -> Statuses] BY DEF IInv, Tables
<1>2. Applications' = Applications \cup {v} BY <1>1 DEF Applications
<1>3. v \notin Applications BY DEF Applications
<1> QED BY <1>2, <1>3, FS_AddElement DEF Counted

LEMMA ApplyCreateCounts ==
  ASSUME IInv, Counted, NEW w \in Workers, ApplyCreate(w)
  PROVE  Counted'
<1> DEFINE v == req[w].v
           x == [req[w] EXCEPT !.g.count = @ + 1, !.at = "count"]
<1>1. v \in Vendors /\ gig' = gig BY RequestFacts DEF ApplyCreate, At, Sound
<1>2. CASE status[v] # "none"
  <2>1. status' = status /\ req' = [req EXCEPT ![w] = Idle] BY <1>2 DEF ApplyCreate, End
  <2>2. Idle.g.count = 0 BY IdleFacts DEF NewGig
  <2>3. Applications' = Applications BY <2>1 DEF Applications
  <2> QED BY <1>1, <2>1, <2>2, <2>3, CountKept DEF Counted
<1>3. CASE status[v] = "none"
  <2>1. status' = [status EXCEPT ![v] = "submitted"] BY <1>3 DEF ApplyCreate
  <2> DEFINE n == Cardinality(Applications)
  <2>2. IsFiniteSet(Applications') /\ Cardinality(Applications') = n + 1
    BY <1>1, <1>3, <2>1, NewApplication
  <2>3. n \in Nat BY FS_CardinalityType DEF Counted
  <2>4. req[w].g \in Rows /\ req[w].g.count \in Nat /\ req[w] \in Requests
    BY RequestFacts DEF Rows
  <2>5. x.g.count = req[w].g.count + 1 BY <2>4 DEF Requests, Rows
  <2>6. \E y : req' = [req EXCEPT ![w] = y] /\ y.g.count \in {0, x.g.count}
    <3>1. CASE x.g.state = "Open"
      <4>1. Drive(w, x, "ApplicationsReview", "system", NoFacts)
        BY <1>3, <3>1 DEF ApplyCreate
      <4>2. x \in Requests
        <5> DEFINE row == [req[w].g EXCEPT !.count = @ + 1]
        <5>1. row \in Rows BY <2>4 DEF Rows
        <5>2. x = [req[w] EXCEPT !.g = row, !.at = "count"] BY <2>4 DEF Requests, Rows
        <5> HIDE DEF row, x
        <5> QED BY <2>4, <5>1, <5>2 DEF Requests, Steps
      <4>3. "ApplicationsReview" \in GigStates BY DEF GigStates
      <4> HIDE DEF x
      <4> QED BY <4>1, <4>2, <4>3, DriveCounts
    <3>2. CASE x.g.state # "Open"
      BY <1>3, <3>2 DEF ApplyCreate
    <3> QED BY <3>1, <3>2
  <2>7. PICK y : req' = [req EXCEPT ![w] = y] /\ y.g.count \in {0, x.g.count} BY <2>6
  <2>8. req[w].g.count <= n BY DEF Counted
  <2> HIDE DEF n
  <2>9. y.g.count <= n + 1 BY <2>3, <2>4, <2>5, <2>7, <2>8
  <2>10. ASSUME NEW u \in Workers PROVE req'[u].g.count <= n + 1
    <3>1. CASE u = w BY <2>7, <2>9, <3>1 DEF IInv
    <3>2. CASE u # w
      <4>1. req'[u] = req[u] BY <2>7, <3>2
      <4>2. req[u].g.count \in Nat /\ req[u].g.count <= n BY RequestFacts DEF Rows, Counted, n
      <4> QED BY <2>3, <4>1, <4>2
    <3> QED BY <3>1, <3>2
  <2>11. gig.count \in Nat /\ gig.count <= n BY DEF IInv, Rows, Counted, n
  <2>12. gig'.count <= n + 1 BY <1>1, <2>3, <2>11
  <2> QED BY <2>2, <2>10, <2>12 DEF Counted
<1> QED BY <1>2, <1>3

LEMMA OfferAcceptCounts ==
  ASSUME IInv, Counted, NEW w \in Workers, OfferAccept(w)
  PROVE  Counted'
<1> DEFINE v == req[w].v
           x == [req[w] EXCEPT !.g.offer = v, !.at = "count"]
<1>1. v \in Vendors /\ gig' = gig BY RequestFacts DEF OfferAccept, At, Sound
<1>2. CASE ~OneAccepted(v)
  <2>1. status' = status /\ req' = [req EXCEPT ![w] = Idle] BY <1>2 DEF OfferAccept, End
  <2>2. Idle.g.count = 0 BY IdleFacts DEF NewGig
  <2>3. Applications' = Applications BY <2>1 DEF Applications
  <2> QED BY <1>1, <2>1, <2>2, <2>3, CountKept DEF Counted
<1>3. CASE OneAccepted(v)
  <2>1. status' = [status EXCEPT ![v] = "accepted"] /\ req' = [req EXCEPT ![w] = x]
    BY <1>3, RequestFacts DEF OfferAccept, IInv, Requests, Rows
  <2>2. Applications' = Applications \cup {v}
    <3>1. status \in [Vendors -> Statuses] BY DEF IInv, Tables
    <3> QED BY <1>1, <2>1, <3>1 DEF Applications
  <2>3. IsFiniteSet(Applications') BY <2>2, FS_AddElement DEF Counted
  <2>4. x.g.count = req[w].g.count BY RequestFacts DEF Requests, Rows
  <2> HIDE DEF x
  <2> QED BY <1>1, <2>1, <2>2, <2>3, <2>4, CountKept
<1> QED BY <1>2, <1>3

\* Every other step leaves the applications alone, and a copy it takes is of the stored row.
LEMMA ContinueCounts ==
  ASSUME IInv, Counted, NEW w \in Workers, Continue(w)
  PROVE  Counted'
<1>1. Idle.g.count = 0 BY IdleFacts DEF NewGig
<1>2. ASSUME NEW x, req' = [req EXCEPT ![w] = x], x.g.count \in {0, req[w].g.count},
             gig' \in {gig, req[w].g}, status' = status
      PROVE  Counted'
  <2>1. Applications' = Applications BY <1>2 DEF Applications
  <2> QED BY <1>2, <2>1, CountKept DEF Counted
<1>3. CASE End(w) /\ gig' \in {gig, req[w].g} /\ status' = status
  BY <1>1, <1>2, <1>3 DEF End
<1>4. ASSUME NEW at \in Steps, GoTo(w, at), gig' = gig, status' = status PROVE Counted'
  <2> DEFINE x == [req[w] EXCEPT !.at = at]
  <2>1. req' = [req EXCEPT ![w] = x] BY <1>4, RequestFacts DEF GoTo, IInv, Requests
  <2>2. x.g.count = req[w].g.count BY RequestFacts DEF Requests
  <2> HIDE DEF x
  <2> QED BY <1>2, <1>4, <2>1, <2>2
<1>5. ASSUME NEW r \in Requests, r.g = req[w].g, NEW to \in GigStates, NEW by, NEW facts,
             Drive(w, r, to, by, facts), gig' = gig, status' = status
      PROVE  Counted'
  BY <1>2, <1>5, DriveCounts
<1>6. CASE ReadHistory(w)
  <2> DEFINE r == [req[w] EXCEPT !.h = history]
  <2>1. r \in Requests /\ r.g = req[w].g BY RequestFacts DEF IInv, Requests
  <2>2. gig' = gig /\ status' = status BY <1>6 DEF ReadHistory, tables
  <2>3. ASSUME req' = [req EXCEPT ![w] = [r EXCEPT !.at = "lookup"]] PROVE Counted'
    <3>1. [r EXCEPT !.at = "lookup"].g.count = req[w].g.count BY <2>1 DEF Requests
    <3> QED BY <1>2, <2>2, <2>3, <3>1
  <2>4. \/ End(w) \/ req' = [req EXCEPT ![w] = [r EXCEPT !.at = "lookup"]]
        \/ Drive(w, r, "Open", "host", NoFacts)
        \/ Drive(w, r, "EscrowLocked", "system", [NoFacts EXCEPT !.depositFunded = TRUE])
        \/ Drive(w, r, "Disputed", r.by, NoFacts)
    BY <1>6 DEF ReadHistory
  <2>5. {"Open", "EscrowLocked", "Disputed"} \subseteq GigStates BY DEF GigStates
  <2> HIDE DEF r
  <2> QED BY <1>3, <1>5, <2>1, <2>2, <2>3, <2>4, <2>5
<1>7. CASE ApplyLookup(w) \/ OfferLookup(w) \/ FundLookup(w)
  <2>1. gig' = gig /\ status' = status
    BY <1>7 DEF ApplyLookup, OfferLookup, FundLookup, tables
  <2>2. End(w) \/ GoTo(w, "create") \/ GoTo(w, "accept")
    BY <1>7 DEF ApplyLookup, OfferLookup, FundLookup, GoOrEnd
  <2>3. "create" \in Steps /\ "accept" \in Steps BY DEF Steps
  <2> QED BY <1>3, <1>4, <2>1, <2>2, <2>3
<1>8. CASE TransitionLookup(w)
  <2>1. gig' = gig /\ status' = status BY <1>8 DEF TransitionLookup, tables
  <2>2. End(w) \/ \E facts : Drive(w, req[w], req[w].to, req[w].by, facts)
    BY <1>8 DEF TransitionLookup
  <2>3. req[w] \in Requests /\ req[w].to \in GigStates BY RequestFacts
  <2> QED BY <1>3, <1>5, <2>1, <2>2, <2>3
<1>9. CASE FundCreate(w)
  <2>1. gig' = gig /\ status' = status /\ (End(w) \/ GoTo(w, "count"))
    BY <1>9 DEF FundCreate
  <2>2. "count" \in Steps BY DEF Steps
  <2> QED BY <1>3, <1>4, <2>1, <2>2
<1>10. CASE CountTransitions(w)
  <2> DEFINE x == [req[w] EXCEPT !.count = Len(history), !.at = "commit"]
  <2>1. req' = [req EXCEPT ![w] = x] /\ gig' = gig /\ status' = status
    BY <1>10, RequestFacts DEF CountTransitions, IInv, Requests, tables
  <2>2. x.g.count = req[w].g.count BY RequestFacts DEF Requests
  <2> HIDE DEF x
  <2> QED BY <1>2, <2>1, <2>2
<1>11. CASE CommitGig(w)
  BY <1>3, <1>11 DEF CommitGig
<1> QED
  BY <1>6, <1>7, <1>8, <1>9, <1>10, <1>11, ApplyCreateCounts, OfferAcceptCounts DEF Continue

LEMMA BeginCounts ==
  ASSUME IInv, Counted, NEW w \in Workers, NEW op, NEW by, NEW v, NEW to, Begin(w, op, by, v, to)
  PROVE  Counted'
<1> DEFINE x == [Idle EXCEPT !.op = op, !.at = "history", !.by = by, !.v = v, !.to = to, !.g = gig]
<1>1. req' = [req EXCEPT ![w] = x] /\ gig' = gig /\ status' = status BY DEF Begin, tables
<1>2. x.g = gig BY DEF Idle
<1>3. Applications' = Applications BY <1>1 DEF Applications
<1> HIDE DEF x
<1> QED BY <1>1, <1>2, <1>3, CountKept DEF Counted

LEMMA NextCounts == IInv /\ Counted /\ [Next]_vars => Counted'
<1> SUFFICES ASSUME IInv, Counted, [Next]_vars PROVE Counted' OBVIOUS
<1>1. ASSUME NEW w \in Workers, Start(w) PROVE Counted'
  BY <1>1, BeginCounts DEF Start, StartPublish, StartFund, StartWebhook, StartDispute,
                                  StartApply, StartOffer,
                         StartTransition
<1>2. ASSUME NEW w \in Workers, Crash(w) PROVE Counted'
  <2>1. req' = [req EXCEPT ![w] = Idle] /\ gig' = gig /\ status' = status
    BY <1>2 DEF Crash, End, tables
  <2>2. Idle.g.count = 0 BY IdleFacts DEF NewGig
  <2>3. Applications' = Applications BY <2>1 DEF Applications
  <2> QED BY <2>1, <2>2, <2>3, CountKept DEF Counted
<1>3. CASE CaptureDeposit \/ OpenDispute \/ UNCHANGED vars
  BY <1>3 DEF CaptureDeposit, OpenDispute, vars, tables, Counted, Applications
<1> QED BY <1>1, <1>2, <1>3, ContinueCounts DEF Next

\* The count of a gig never runs ahead of its applications, whatever copies of the row
\* overwrite it (the application route of gigs.ts, and save() in postgres/store.ts).
THEOREM CountNeverAhead == Spec => []CountNeverInvents
<1>1. Counted => CountNeverInvents BY DEF Counted, CountNeverInvents
<1> QED BY CountedInit, NextCounts, Invariance, <1>1, PTL DEF Spec

-----------------------------------------------------------------------------
\* Requests that do not overlap: a copy in flight is the stored row, or its successor.

\* A history that leads from the draft to a state without a gap.
Explains(h, state) ==
  LET before(i) == IF i = 1 THEN "Draft" ELSE h[i - 1].to
  IN /\ \A i \in DOMAIN h : h[i].from = before(i)
     /\ state = before(Len(h) + 1)

\* A copy that has gone one transition further than the stored gig, which had not ended.
Further(r, g, h) ==
  /\ g.state \notin TerminalStates
  /\ r.h = Append(h, [from |-> g.state, to |-> r.g.state])

Fresh(r, g, h) ==
  /\ r.at \in {"history", "lookup", "create", "accept"} => r.g.state = g.state
  /\ r.at \in {"lookup", "create", "accept"} => r.h = h
  /\ r.at \in {"count", "commit"} => (r.g.state = g.state /\ r.h = h) \/ Further(r, g, h)
  /\ r.at = "commit" => r.count = Len(h)

Steady ==
  alone =>
    /\ Explains(history, gig.state)
    /\ \A u, w \in Workers : req[u] # Idle /\ req[w] # Idle => u = w
    /\ \A w \in Workers : Fresh(req[w], gig, history)

LEMMA IdleIsFresh == ASSUME NEW g, NEW h PROVE Fresh(Idle, g, h)
BY DEF Fresh, Idle

LEMMA SteadyInit == Init => Steady
<1> SUFFICES ASSUME Init PROVE Steady OBVIOUS
<1>1. Explains(history, gig.state) BY IdleFacts DEF Init, Explains
<1> QED BY <1>1, IdleIsFresh DEF Init, Steady

\* One request goes on, or ends; the stored gig does not change.
LEMMA SteadyFrame ==
  ASSUME IInv, Steady, NEW w \in Workers, NEW x, req' = [req EXCEPT ![w] = x],
         UNCHANGED <<gig, history>>, alone' => alone,
         alone' => Fresh(x, gig, history),
         alone' => x = Idle \/ req[w] # Idle \/ \A u \in Workers \ {w} : req[u] = Idle
  PROVE  Steady'
<1> SUFFICES ASSUME alone'
             PROVE  /\ Explains(history', gig'.state)
                    /\ \A u, v \in Workers : req'[u] # Idle /\ req'[v] # Idle => u = v
                    /\ \A v \in Workers : Fresh(req'[v], gig', history')
  BY DEF Steady
<1>1. \A u \in Workers : req'[u] = IF u = w THEN x ELSE req[u] BY DEF IInv
<1>2. \A u, v \in Workers : req'[u] # Idle /\ req'[v] # Idle => u = v BY <1>1 DEF Steady
<1>3. \A v \in Workers : Fresh(req'[v], gig', history')
  <2>1. \A v \in Workers : Fresh(req'[v], gig, history) BY <1>1 DEF Steady
  <2> QED BY <2>1
<1> QED BY <1>2, <1>3 DEF Steady

LEMMA SteadyEnds ==
  ASSUME IInv, Steady, NEW w \in Workers, End(w), UNCHANGED <<gig, history, alone>>
  PROVE  Steady'
BY IdleIsFresh, SteadyFrame DEF End

\* The table leads nowhere from a gig that has ended.
LEMMA EndedIsEnded ==
  ASSUME NEW g, NEW to, NEW by, NEW facts, TransitionAllowed(GuardedGig(g), to, by, facts)
  PROVE  g.state \notin TerminalStates
<1>1. GuardedGig(g).state = g.state BY DEF GuardedGig
<1>2. PICK edge \in Transitions : edge.from = g.state
  BY <1>1 DEF TransitionAllowed, CanTransition
<1> QED BY <1>2 DEF Transitions, Edge, TerminalStates

\* A copy of the stored gig is driven one transition further.
LEMMA SteadyDrives ==
  ASSUME IInv, Steady, NEW w \in Workers, NEW r \in Requests, NEW to \in GigStates, NEW by,
         NEW facts, Drive(w, r, to, by, facts), UNCHANGED <<gig, history, alone>>,
         req[w] # Idle, alone => r.g.state = gig.state /\ r.h = history
  PROVE  Steady'
<1>1. CASE TransitionAllowed(GuardedGig(r.g), to, by, facts)
  <2> DEFINE x == Moved(r, to)
  <2>1. req' = [req EXCEPT ![w] = x] BY <1>1 DEF Drive
  <2>2. /\ x.at = "count" /\ x.g.state = to
        /\ x.h = Append(r.h, [from |-> r.g.state, to |-> to])
    BY DEF Moved, Requests, Rows
  <2> HIDE DEF x
  <2>3. r.g.state \notin TerminalStates BY <1>1, EndedIsEnded
  <2>4. alone => Fresh(x, gig, history) BY <2>2, <2>3 DEF Fresh, Further
  <2> QED BY <2>1, <2>4, SteadyFrame
<1>2. CASE ~TransitionAllowed(GuardedGig(r.g), to, by, facts)
  BY <1>2, SteadyEnds DEF Drive
<1> QED BY <1>1, <1>2

LEMMA SteadyGoes ==
  ASSUME IInv, Steady, NEW w \in Workers, NEW at \in {"create", "accept", "count"}, GoTo(w, at),
         UNCHANGED <<gig, history, alone>>, req[w].at \in {"lookup", "create", "accept"}
  PROVE  Steady'
<1> DEFINE x == [req[w] EXCEPT !.at = at]
<1>1. req' = [req EXCEPT ![w] = x] BY RequestFacts DEF GoTo, IInv, Requests
<1>2. x.at = at /\ x.g = req[w].g /\ x.h = req[w].h BY RequestFacts DEF Requests
<1>3. req[w] # Idle BY DEF Idle
<1> HIDE DEF x
<1>4. alone => Fresh(x, gig, history) BY <1>2 DEF Steady, Fresh
<1> QED BY <1>1, <1>3, <1>4, SteadyFrame

LEMMA SteadyBegins ==
  ASSUME IInv, Steady, NEW w \in Workers, NEW op, NEW by, NEW v, NEW to, Begin(w, op, by, v, to)
  PROVE  Steady'
<1> DEFINE x == [Idle EXCEPT !.op = op, !.at = "history", !.by = by, !.v = v, !.to = to, !.g = gig]
<1>1. req' = [req EXCEPT ![w] = x] /\ UNCHANGED <<gig, history>> BY DEF Begin, tables
<1>2. x.at = "history" /\ x.g = gig BY DEF Idle
<1>3. alone' => alone /\ \A u \in Workers \ {w} : req[u] = Idle BY DEF Begin
<1> HIDE DEF x
<1>4. Fresh(x, gig, history) BY <1>2 DEF Fresh
<1> QED BY <1>1, <1>3, <1>4, SteadyFrame

LEMMA SteadyReads ==
  ASSUME IInv, Steady, NEW w \in Workers, ReadHistory(w)
  PROVE  Steady'
<1> DEFINE r == [req[w] EXCEPT !.h = history]
           x == [r EXCEPT !.at = "lookup"]
<1>1. UNCHANGED <<gig, history, alone>> BY DEF ReadHistory, tables
<1>2. r \in Requests /\ r.g = req[w].g /\ r.h = history
  BY RequestFacts DEF IInv, Requests
<1>3. x.at = "lookup" /\ x.g = r.g /\ x.h = r.h BY <1>2 DEF Requests
<1>4. alone => r.g.state = gig.state BY <1>2 DEF Steady, Fresh, ReadHistory
<1>5. req[w] # Idle BY DEF ReadHistory, Idle
<1>6. \/ End(w) \/ req' = [req EXCEPT ![w] = x]
      \/ Drive(w, r, "Open", "host", NoFacts)
      \/ Drive(w, r, "EscrowLocked", "system", [NoFacts EXCEPT !.depositFunded = TRUE])
      \/ Drive(w, r, "Disputed", r.by, NoFacts)
  BY DEF ReadHistory
<1>7. {"Open", "EscrowLocked", "Disputed"} \subseteq GigStates BY DEF GigStates
<1> HIDE DEF r, x
<1>8. CASE req' = [req EXCEPT ![w] = x]
  <2>1. alone => Fresh(x, gig, history) BY <1>2, <1>3, <1>4 DEF Fresh
  <2> QED BY <1>1, <1>5, <1>8, <2>1, SteadyFrame
<1>9. CASE End(w) BY <1>1, <1>9, SteadyEnds
<1> QED BY <1>1, <1>2, <1>4, <1>5, <1>6, <1>7, <1>8, <1>9, SteadyDrives

LEMMA SteadyApplies ==
  ASSUME IInv, Steady, NEW w \in Workers, ApplyCreate(w)
  PROVE  Steady'
<1> DEFINE row == [req[w].g EXCEPT !.count = @ + 1]
           x == [req[w] EXCEPT !.g.count = @ + 1, !.at = "count"]
<1>1. UNCHANGED <<gig, history, alone>> /\ req[w].at = "create" BY DEF ApplyCreate, At
<1>2. row \in Rows /\ row.state = req[w].g.state BY RequestFacts DEF Rows
<1>3. x \in Requests /\ x.g.state = req[w].g.state /\ x.h = req[w].h /\ x.at = "count"
  <2>1. x = [req[w] EXCEPT !.g = row, !.at = "count"] BY RequestFacts DEF Requests, Rows
  <2> HIDE DEF row, x
  <2> QED BY <1>2, <2>1, RequestFacts DEF Requests, Steps
<1>4. req[w] # Idle BY <1>1 DEF Idle
<1>5. alone => req[w].g.state = gig.state /\ req[w].h = history BY <1>1 DEF Steady, Fresh
<1>6. \/ End(w) \/ req' = [req EXCEPT ![w] = x]
      \/ Drive(w, x, "ApplicationsReview", "system", NoFacts)
  BY DEF ApplyCreate
<1>7. "ApplicationsReview" \in GigStates BY DEF GigStates
<1> HIDE DEF x
<1>8. CASE req' = [req EXCEPT ![w] = x]
  <2>1. alone => Fresh(x, gig, history) BY <1>3, <1>5 DEF Fresh
  <2> QED BY <1>1, <1>4, <1>8, <2>1, SteadyFrame
<1>9. CASE End(w) BY <1>1, <1>9, SteadyEnds
<1> QED BY <1>1, <1>3, <1>4, <1>5, <1>6, <1>7, <1>8, <1>9, SteadyDrives

LEMMA SteadyAccepts ==
  ASSUME IInv, Steady, NEW w \in Workers, OfferAccept(w)
  PROVE  Steady'
<1> DEFINE x == [req[w] EXCEPT !.g.offer = req[w].v, !.at = "count"]
<1>1. UNCHANGED <<gig, history, alone>> /\ req[w].at = "accept" BY DEF OfferAccept, At
<1>2. x.g.state = req[w].g.state /\ x.h = req[w].h /\ x.at = "count"
  BY RequestFacts DEF Requests, Rows
<1>3. req[w] # Idle BY <1>1 DEF Idle
<1>4. End(w) \/ req' = [req EXCEPT ![w] = x]
  BY RequestFacts DEF OfferAccept, IInv, Requests, Rows
<1> HIDE DEF x
<1>5. alone => Fresh(x, gig, history) BY <1>1, <1>2 DEF Steady, Fresh
<1> QED BY <1>1, <1>3, <1>4, <1>5, SteadyFrame, SteadyEnds

LEMMA SteadyCounts ==
  ASSUME IInv, Steady, NEW w \in Workers, CountTransitions(w)
  PROVE  Steady'
<1> DEFINE x == [req[w] EXCEPT !.count = Len(history), !.at = "commit"]
<1>1. UNCHANGED <<gig, history, alone>> /\ req[w].at = "count" BY DEF CountTransitions, tables
<1>2. x.g = req[w].g /\ x.h = req[w].h /\ x.at = "commit" /\ x.count = Len(history)
  BY RequestFacts DEF Requests
<1>3. req[w] # Idle BY <1>1 DEF Idle
<1>4. req' = [req EXCEPT ![w] = x] BY RequestFacts DEF CountTransitions, IInv, Requests
<1> HIDE DEF x
<1>5. alone => Fresh(x, gig, history) BY <1>1, <1>2 DEF Steady, Fresh, Further
<1> QED BY <1>1, <1>3, <1>4, <1>5, SteadyFrame

\* What save() appends beyond the count makes the stored history that of the copy.
LEMMA NothingNew ==
  ASSUME NEW h \in Seq(Records)
  PROVE  h \o SubSeq(h, Len(h) + 1, Len(h)) = h
OBVIOUS

LEMMA OneNew ==
  ASSUME NEW h \in Seq(Records), NEW rec \in Records
  PROVE  h \o SubSeq(Append(h, rec), Len(h) + 1, Len(Append(h, rec))) = Append(h, rec)
<1>1. Len(Append(h, rec)) = Len(h) + 1 /\ Len(h) \in Nat OBVIOUS
<1>2. SubSeq(Append(h, rec), Len(h) + 1, Len(h) + 1) = <<rec>>
  <2> DEFINE n == Len(h) + 1
             k == Append(h, rec)
             s == SubSeq(k, n, n)
  <2>1. n \in Int /\ k[n] = rec OBVIOUS
  <2> HIDE DEF n, k
  <2>2. \A i \in n .. n : k[i] \in Records BY <2>1
  <2>3. s \in Seq(Records) /\ Len(s) = 1 /\ s[1] = k[n]
    <3>1. Len(s) = n - n + 1 BY <2>1, <2>2, SubSeqProperties
    <3>2. 1 \in 1 .. n - n + 1 /\ n + 1 - 1 = n BY <2>1
    <3>3. s[1] = k[n + 1 - 1] BY <2>1, <2>2, <3>2, SubSeqProperties
    <3>4. s \in Seq(Records) BY <2>1, <2>2, SubSeqProperties
    <3> QED BY <2>1, <3>1, <3>2, <3>3, <3>4
  <2> HIDE DEF s
  <2>4. <<rec>> \in Seq(Records) /\ Len(<<rec>>) = 1 OBVIOUS
  <2>5. s = <<rec>> BY <2>1, <2>3, <2>4
  <2> QED BY <2>5 DEF s, k, n
<1>3. h \o <<rec>> = Append(h, rec) OBVIOUS
<1> QED BY <1>1, <1>2, <1>3

LEMMA ExplainsMore ==
  ASSUME NEW h \in Seq(Records), NEW from \in GigStates, NEW to \in GigStates,
         Explains(h, from)
  PROVE  Explains(Append(h, [from |-> from, to |-> to]), to)
<1> DEFINE rec == [from |-> from, to |-> to]
           k == Append(h, rec)
           before(i) == IF i = 1 THEN "Draft" ELSE h[i - 1].to
           now(i) == IF i = 1 THEN "Draft" ELSE k[i - 1].to
<1>1. rec \in Records /\ rec.from = from /\ rec.to = to BY DEF Records
<1>2. Len(h) \in Nat /\ DOMAIN h = 1 .. Len(h) OBVIOUS
<1>3. /\ Len(k) = Len(h) + 1 /\ DOMAIN k = 1 .. Len(h) + 1
      /\ \A i \in 1 .. Len(h) : k[i] = h[i]
      /\ k[Len(h) + 1] = rec
  BY <1>1
<1>4. (\A i \in 1 .. Len(h) : h[i].from = before(i)) /\ from = before(Len(h) + 1)
  BY <1>2 DEF Explains
<1> HIDE DEF rec, k
<1>5. \A i \in 1 .. Len(h) + 1 : now(i) = before(i) BY <1>2, <1>3
<1>6. ASSUME NEW i \in 1 .. Len(h) + 1 PROVE k[i].from = now(i)
  <2>1. CASE i = Len(h) + 1 BY <2>1, <1>1, <1>2, <1>3, <1>4, <1>5
  <2>2. CASE i # Len(h) + 1
    <3>1. i \in 1 .. Len(h) BY <2>2, <1>2
    <3> QED BY <3>1, <1>3, <1>4, <1>5, <1>2
  <2> QED BY <2>1, <2>2
<1>7. to = now(Len(k) + 1) BY <1>1, <1>2, <1>3
<1> QED BY <1>3, <1>6, <1>7 DEF Explains, k, rec

\* The copy that is saved is the stored row or its successor, and nobody else is busy.
LEMMA CommitKeeps ==
  ASSUME IInv, Steady, NEW w \in Workers, CommitGig(w), alone
  PROVE  /\ history' = req[w].h
         /\ \/ gig'.state = gig.state /\ history' = history
            \/ /\ gig.state \notin TerminalStates
               /\ history' = Append(history, [from |-> gig.state, to |-> gig'.state])
<1> DEFINE r == req[w]
<1>1. r.h \in Seq(Records) /\ history \in Seq(Records) /\ gig' = r.g /\ r.g \in Rows
  BY RequestFacts DEF CommitGig, IInv
<1>2. history' = history \o SubSeq(r.h, Len(history) + 1, Len(r.h))
  BY DEF CommitGig, NewTransitions, Steady, Fresh
<1>3. (r.g.state = gig.state /\ r.h = history) \/ Further(r, gig, history)
  BY DEF CommitGig, Steady, Fresh
<1>4. CASE r.g.state = gig.state /\ r.h = history
  <2>1. history' = history BY <1>1, <1>2, <1>4, NothingNew
  <2> QED BY <1>1, <1>4, <2>1
<1>5. CASE Further(r, gig, history)
  <2> DEFINE rec == [from |-> gig.state, to |-> r.g.state]
  <2>1. rec \in Records BY <1>1 DEF IInv, Rows, Records
  <2>2. r.h = Append(history, rec) /\ gig.state \notin TerminalStates BY <1>5 DEF Further
  <2> HIDE DEF rec
  <2>3. history' = Append(history, rec) BY <1>1, <1>2, <2>1, <2>2, OneNew
  <2> QED BY <1>1, <2>2, <2>3 DEF rec
<1> QED BY <1>3, <1>4, <1>5

LEMMA SteadyCommits ==
  ASSUME IInv, Steady, NEW w \in Workers, CommitGig(w)
  PROVE  Steady'
<1> SUFFICES ASSUME alone
             PROVE  /\ Explains(history', gig'.state)
                    /\ \A u, v \in Workers : req'[u] # Idle /\ req'[v] # Idle => u = v
                    /\ \A v \in Workers : Fresh(req'[v], gig', history')
  BY DEF Steady, CommitGig
<1>1. Explains(history, gig.state) BY DEF Steady
<1>2. gig.state \in GigStates /\ gig'.state \in GigStates /\ history \in Seq(Records)
  BY RequestFacts DEF CommitGig, IInv, Rows
<1>3. Explains(history', gig'.state) BY <1>1, <1>2, CommitKeeps, ExplainsMore
<1>4. req[w] # Idle BY DEF CommitGig, Idle
<1>5. \A v \in Workers : req'[v] = Idle BY <1>4 DEF CommitGig, End, IInv, Steady
<1> QED BY <1>3, <1>5, IdleIsFresh

LEMMA SteadyNext == IInv /\ Steady /\ [Next]_vars => Steady'
<1> SUFFICES ASSUME IInv, Steady, [Next]_vars PROVE Steady' OBVIOUS
<1>1. ASSUME NEW w \in Workers, Start(w) PROVE Steady'
  BY <1>1, SteadyBegins DEF Start, StartPublish, StartFund, StartWebhook, StartDispute,
                                  StartApply, StartOffer,
                          StartTransition
<1>2. ASSUME NEW w \in Workers, Crash(w) PROVE Steady'
  BY <1>2, SteadyEnds DEF Crash, tables
<1>3. CASE CaptureDeposit \/ OpenDispute \/ UNCHANGED vars
  BY <1>3 DEF CaptureDeposit, OpenDispute, vars, tables, Steady
<1>4. ASSUME NEW w \in Workers, ApplyLookup(w) \/ OfferLookup(w) \/ FundLookup(w)
      PROVE  Steady'
  <2>1. UNCHANGED <<gig, history, alone>> /\ req[w].at = "lookup"
    BY <1>4 DEF ApplyLookup, OfferLookup, FundLookup, At, tables
  <2>2. End(w) \/ GoTo(w, "create") \/ GoTo(w, "accept")
    BY <1>4 DEF ApplyLookup, OfferLookup, FundLookup, GoOrEnd
  <2> QED BY <2>1, <2>2, SteadyEnds, SteadyGoes
<1>5. ASSUME NEW w \in Workers, FundCreate(w) PROVE Steady'
  <2>1. UNCHANGED <<gig, history, alone>> /\ req[w].at = "create" BY <1>5 DEF FundCreate, At
  <2>2. End(w) \/ GoTo(w, "count") BY <1>5 DEF FundCreate
  <2> QED BY <2>1, <2>2, SteadyEnds, SteadyGoes
<1>6. ASSUME NEW w \in Workers, TransitionLookup(w) PROVE Steady'
  <2>1. UNCHANGED <<gig, history, alone>> /\ req[w].at = "lookup"
    BY <1>6 DEF TransitionLookup, At, tables
  <2>2. End(w) \/ \E facts : Drive(w, req[w], req[w].to, req[w].by, facts)
    BY <1>6 DEF TransitionLookup
  <2>3. req[w] \in Requests /\ req[w].to \in GigStates BY RequestFacts
  <2>4. req[w] # Idle BY <2>1 DEF Idle
  <2>5. alone => req[w].g.state = gig.state /\ req[w].h = history BY <2>1 DEF Steady, Fresh
  <2> QED BY <2>1, <2>2, <2>3, <2>4, <2>5, SteadyEnds, SteadyDrives
<1> QED BY <1>1, <1>2, <1>3, <1>4, <1>5, <1>6, SteadyReads, SteadyApplies, SteadyAccepts,
           SteadyCounts, SteadyCommits DEF Next, Continue

LEMMA SteadyAlways == Spec => [](IInv /\ Steady)
BY InitIInv, NextStep, SteadyInit, SteadyNext, PTL DEF Spec

\* As long as requests do not overlap, and whichever of them die, the stored transitions lead
\* without a gap from the draft to the stored state ("Append-only audit trail; the ledger
\* reconciles against this", gig.ts:100-101, over save() in postgres/store.ts).
THEOREM HistoryAlwaysExplains == Spec => []HistoryExplainsGig
<1>1. Steady => HistoryExplainsGig BY DEF Steady, Explains, HistoryExplainsGig
<1> QED BY SteadyAlways, <1>1, PTL

\* A finished gig stays finished as long as requests do not overlap: the table of gig.ts leads
\* nowhere from its state, and no copy in flight is older than the row.
THEOREM TerminalStays == Spec => TerminalIsFinal
<1>1. ASSUME IInv, Steady, [Next]_vars, alone', gig.state \in TerminalStates
      PROVE  gig'.state = gig.state
  <2>1. ASSUME NEW w \in Workers, Start(w) PROVE gig' = gig
    BY <2>1 DEF Start, StartPublish, StartFund, StartWebhook, StartDispute,
                                  StartApply, StartOffer,
                StartTransition, Begin, tables
  <2>2. ASSUME NEW w \in Workers, CommitGig(w) PROVE gig'.state = gig.state
    <3>1. alone BY <1>1, <2>2 DEF CommitGig
    <3> QED BY <1>1, <2>2, <3>1, CommitKeeps
  <2>3. ASSUME NEW w \in Workers, Continue(w), ~CommitGig(w) PROVE gig' = gig
    BY <2>3 DEF Continue, ReadHistory, ApplyLookup, ApplyCreate, OfferLookup, OfferAccept,
                TransitionLookup, FundLookup, FundCreate, CountTransitions, tables
  <2>4. ASSUME NEW w \in Workers, Crash(w) PROVE gig' = gig BY <2>4 DEF Crash, tables
  <2>5. CASE CaptureDeposit \/ OpenDispute \/ UNCHANGED vars
    BY <2>5 DEF CaptureDeposit, OpenDispute, vars
  <2> QED BY <1>1, <2>1, <2>2, <2>3, <2>4, <2>5 DEF Next
<1>2. IInv /\ Steady /\ [Next]_vars =>
        [(alone' /\ gig.state \in TerminalStates) => gig'.state = gig.state]_vars
  BY <1>1
<1> QED BY SteadyAlways, <1>2, PTL DEF Spec, TerminalIsFinal
=============================================================================
