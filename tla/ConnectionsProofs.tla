-------------------------- MODULE ConnectionsProofs --------------------------
(***************************************************************************)
(* Connections and Deployment for any pools, users, requests and faults.   *)
(*                                                                         *)
(* That rows are returned to their owners only rests on what a connection  *)
(* is on loan for: a pool serves the requests whose actor it is for, and   *)
(* the setting is the borrower's or nobody's, from the loan to the return. *)
(***************************************************************************)
EXTENDS Connections, Deployment, SequenceTheorems, TLAPS

Actors == Users \cup {System, NoActor}
Purposes == {"unit", "statement"}

\* The types of a request and of a loan; outside of Typed nothing depends on the counts.
RequestRecords ==
  [at : {"new", "unit", "within", "running", "answered", "over"}, actor : Actors,
   todo : Int, out : Int]
Loans ==
  [by : Requests \cup {Nobody}, for : Purposes \cup {"none"},
   at : {"idle", "taken", "open", "ran"}, guc : Users \cup {NoUser}]

\* The waits a pool may serve: of requests that have arrived, for whose actor it is.
Waits(pool) ==
  {x \in [by : Requests, for : Purposes] :
     req[x.by].at # "new" /\ Target(req[x.by].actor) = pool}

\* A connection on loan is of the borrower's pool and has no other user's setting.
Lent(c) ==
  conn[c].by # Nobody =>
    /\ req[conn[c].by].at # "new"
    /\ Target(Acting(c)) = PoolOf(c)
    /\ conn[c].guc = NoUser \/ conn[c].guc = Acting(c)

\* One that is not on loan has no setting and nothing under way.
AtRest(c) == conn[c].by = Nobody => conn[c].guc = NoUser /\ conn[c].at = "idle"

IInv ==
  /\ req \in [Requests -> RequestRecords]
  /\ conn \in [Conns -> Loans]
  /\ queue \in [Pools -> Seq([by : Requests, for : Purposes])]
  /\ \A pool \in Pools : queue[pool] \in Seq(Waits(pool))
  /\ \A c \in Conns : AtRest(c) /\ Lent(c)
  /\ RowsAreOwn

LEMMA InitHolds == Init => IInv
<1> SUFFICES ASSUME Init PROVE IInv OBVIOUS
<1>1. \A c \in Conns : conn[c] = Free BY DEF Init
<1>2. Free \in Loans /\ Free.by = Nobody /\ Free.guc = NoUser /\ Free.at = "idle"
  BY DEF Free, Loans
<1>3. New \in RequestRecords BY DEF New, RequestRecords, Actors
<1>4. conn \in [Conns -> Loans] /\ req \in [Requests -> RequestRecords]
  BY <1>2, <1>3 DEF Init
<1>5. \A pool \in Pools : queue[pool] = <<>> BY DEF Init
<1>6. \A S : <<>> \in Seq(S) OBVIOUS
<1>7. queue \in [Pools -> Seq([by : Requests, for : Purposes])] BY <1>6 DEF Init
<1>8. RowsAreOwn BY DEF Init, RowsAreOwn
<1>9. QED BY <1>1, <1>2, <1>4, <1>5, <1>6, <1>7, <1>8 DEF IInv, Lent, AtRest

\* An arrived request keeps its actor, whatever becomes of it.
Kept ==
  /\ req' \in [Requests -> RequestRecords]
  /\ \A w \in Requests :
       req[w].at # "new" => req'[w].at # "new" /\ req'[w].actor = req[w].actor

\* What w becomes: another record of the same request.
LEMMA Became ==
  ASSUME IInv, NEW w \in Requests, NEW r, r \in RequestRecords,
         r.at # "new", r.actor = req[w].actor, req' = [req EXCEPT ![w] = r]
  PROVE  Kept
BY DEF IInv, Kept

LEMMA FailedKeeps ==
  ASSUME IInv, NEW w \in Requests, NEW r \in RequestRecords, r.actor = req[w].actor, Failed(w, r)
  PROVE  Kept
<1>1. CASE r.out = 0
  <2>1. [r EXCEPT !.at = "over", !.todo = 0] \in RequestRecords
    <3>1. [r EXCEPT !.at = "over", !.todo = 0] = [[r EXCEPT !.at = "over"] EXCEPT !.todo = 0]
      BY Zenon DEF RequestRecords
    <3>2. [r EXCEPT !.at = "over"] \in RequestRecords BY DEF RequestRecords
    <3>3. \A s \in RequestRecords : [s EXCEPT !.todo = 0] \in RequestRecords
      BY DEF RequestRecords
    <3>4. QED BY <3>1, <3>2, <3>3 
  <2>2. [r EXCEPT !.at = "over", !.todo = 0].at # "new"
        /\ [r EXCEPT !.at = "over", !.todo = 0].actor = req[w].actor BY DEF RequestRecords
  <2>3. req' = [req EXCEPT ![w] = [r EXCEPT !.at = "over", !.todo = 0]] BY <1>1 DEF Failed
  <2>4. QED BY <2>1, <2>2, <2>3, Became
<1>2. CASE r.out # 0
  <2>1. [r EXCEPT !.at = "answered"] \in RequestRecords BY DEF RequestRecords
  <2>2. [r EXCEPT !.at = "answered"].at # "new" /\ [r EXCEPT !.at = "answered"].actor = req[w].actor
    BY DEF RequestRecords
  <2>3. req' = [req EXCEPT ![w] = [r EXCEPT !.at = "answered"]] BY <1>2 DEF Failed
  <2>4. QED BY <2>1, <2>2, <2>3, Became
<1>3. QED BY <1>1, <1>2

LEMMA SettledKeeps ==
  ASSUME IInv, NEW w \in Requests, req[w].at # "new", NEW ok \in BOOLEAN, Settled(w, ok)
  PROVE  Kept
<1> DEFINE r == [req[w] EXCEPT !.out = @ - 1]
<1>1. req[w] \in RequestRecords BY DEF IInv
<1>2. r \in RequestRecords /\ r.actor = req[w].actor /\ r.at = req[w].at
  BY <1>1 DEF RequestRecords
<1>3. CASE ok /\ r.out = 0 /\ r.todo = 0
  <2>1. req' = [req EXCEPT ![w] = [r EXCEPT !.at = "over"]] BY <1>3 DEF Settled
  <2>2. [r EXCEPT !.at = "over"] \in RequestRecords /\ [r EXCEPT !.at = "over"].at # "new"
        /\ [r EXCEPT !.at = "over"].actor = req[w].actor
    <3> HIDE DEF r
    <3>1. QED BY <1>2 DEF RequestRecords
  <2>3. QED BY <2>1, <2>2, Became
<1>4. CASE ok /\ ~(r.out = 0 /\ r.todo = 0)
  <2>1. req' = [req EXCEPT ![w] = [r EXCEPT !.at = @]] BY <1>4 DEF Settled
  <2>2. [r EXCEPT !.at = @] = r BY <1>1 DEF RequestRecords
  <2>3. QED BY <1>2, <2>1, <2>2, Became
<1>5. CASE ~ok
  <2>1. Failed(w, r) BY <1>5 DEF Settled
  <2> HIDE DEF r
  <2>2. QED BY <1>2, <2>1, FailedKeeps
<1>6. QED BY <1>3, <1>4, <1>5

\* What waits in a pool goes on waiting for it.
LEMMA WaitsStay ==
  ASSUME IInv, Kept, NEW pool \in Pools
  PROVE  Waits(pool) \subseteq Waits(pool)' /\ queue[pool] \in Seq(Waits(pool)')
<1>1. Waits(pool) \subseteq Waits(pool)' BY DEF Kept, Waits
<1>2. queue[pool] \in Seq(Waits(pool)) BY DEF IInv
<1>3. QED BY <1>1, <1>2

LEMMA LentStays ==
  ASSUME IInv, Kept, NEW c \in Conns, conn'[c] = conn[c]
  PROVE  AtRest(c)' /\ Lent(c)'
<1>1. conn[c].by # Nobody => conn[c].by \in Requests BY DEF IInv, Loans
<1>2. Lent(c) /\ AtRest(c) BY DEF IInv
<1>3. QED BY <1>1, <1>2 DEF Lent, AtRest, Acting, Kept

\* A statement of the borrower returns rows of its own user, or runs as the system.
LEMMA OwnRows ==
  ASSUME IInv, NEW c \in Conns, conn[c].by # Nobody, Returned(conn[c].by, c)
  PROVE  RowsAreOwn'
<1>1. Lent(c) /\ RowsAreOwn BY DEF IInv
<1>2. ASSUME NEW owner \in Visible(c) PROVE Acting(c) = System \/ Acting(c) = owner
  <2>1. CASE c \in SystemConns
    <3>1. Target(Acting(c)) = "system" BY <1>1, <2>1 DEF Lent, PoolOf
    <3>2. QED BY <3>1 DEF Target
  <2>2. CASE c \notin SystemConns
    <3>1. owner \in Users /\ conn[c].guc = owner BY <1>2, <2>2 DEF Visible
    <3>2. QED BY <1>1, <3>1, ConnectionsAssumption DEF Lent
  <2>3. QED BY <2>1, <2>2
<1>3. seen' = seen \cup {<<Acting(c), owner>> : owner \in Visible(c)}
  BY DEF Returned, Acting
<1>4. QED BY <1>1, <1>2, <1>3 DEF RowsAreOwn

LEMMA RowsStay == ASSUME IInv, seen' = seen PROVE RowsAreOwn'
BY DEF IInv, RowsAreOwn

-----------------------------------------------------------------------------
(***************************************************************************)
(* The steps.                                                              *)
(***************************************************************************)

LEMMA ArriveKeeps ==
  ASSUME IInv, NEW w \in Requests, NEW actor \in Actors, NEW unit \in BOOLEAN,
         NEW statements \in 1 .. MaxStatements, Arrive(w, actor, unit, statements)
  PROVE  IInv'
<1> DEFINE r == [at |-> IF unit THEN "unit" ELSE "running", actor |-> actor,
                 todo |-> statements, out |-> 0]
<1>1. statements \in Int BY ConnectionsAssumption
<1>2. r \in RequestRecords BY <1>1 DEF RequestRecords
<1>3. req' = [req EXCEPT ![w] = r] /\ req[w].at = "new" BY DEF Arrive
<1>4. r.at # "new" OBVIOUS
<1> HIDE DEF r
<1>5. Kept BY <1>2, <1>3, <1>4 DEF IInv, Kept
<1>6. UNCHANGED <<conn, queue, seen>> BY DEF Arrive
<1>7. \A pool \in Pools : queue'[pool] \in Seq(Waits(pool)') BY <1>5, <1>6, WaitsStay
<1>8. \A c \in Conns : AtRest(c)' /\ Lent(c)'
  BY <1>5, <1>6, LentStays
<1>9. QED BY <1>5, <1>6, <1>7, <1>8, RowsStay DEF IInv, Kept

\* A request that asks for a connection waits in the pool of its actor, or fails.
LEMMA AskKeeps ==
  ASSUME IInv, NEW w \in Requests, NEW for \in Purposes, NEW r \in RequestRecords,
         r.actor = req[w].actor, r.at = req[w].at, r.at # "new", Ask(w, for, r)
  PROVE  /\ Kept
         /\ queue' \in [Pools -> Seq([by : Requests, for : Purposes])]
         /\ \A pool \in Pools : queue'[pool] \in Seq(Waits(pool)')
<1>1. CASE phase = "ending"
  <2>1. Kept /\ queue' = queue BY <1>1, FailedKeeps DEF Ask
  <2>2. QED BY <2>1, WaitsStay DEF IInv
<1>2. CASE phase # "ending"
  <2> DEFINE own == Target(r.actor)  wait == [by |-> w, for |-> for]
  <2>1. queue' = [queue EXCEPT ![own] = Append(@, wait)]
        /\ req' = [req EXCEPT ![w] = [r EXCEPT !.out = @ + 1]]
    BY <1>2 DEF Ask
  <2>2. [r EXCEPT !.out = @ + 1] \in RequestRecords /\ [r EXCEPT !.out = @ + 1].at # "new"
        /\ [r EXCEPT !.out = @ + 1].actor = req[w].actor
    BY DEF RequestRecords
  <2>3. Kept BY <2>1, <2>2, Became
  <2>4. own \in Pools /\ wait \in [by : Requests, for : Purposes] BY DEF Target, Pools
  <2>5. wait \in Waits(own) BY <2>4 DEF Waits
  <2>6. ASSUME NEW pool \in Pools
        PROVE  queue'[pool] \in Seq(Waits(pool)')
               /\ queue'[pool] \in Seq([by : Requests, for : Purposes])
    <3>1. queue[pool] \in Seq(Waits(pool)') BY <2>3, WaitsStay
    <3>2. queue[pool] \in Seq([by : Requests, for : Purposes]) BY DEF IInv
    <3>3. CASE pool # own BY <2>1, <2>4, <3>1, <3>2, <3>3 DEF IInv
    <3>4. CASE pool = own
      <4>1. queue'[pool] = Append(queue[pool], wait) BY <2>1, <2>4, <3>4 DEF IInv
      <4>2. wait \in Waits(pool)' BY <2>3, <2>5, <3>4, WaitsStay
      <4>3. QED BY <2>4, <3>1, <3>2, <4>1, <4>2, AppendProperties
    <3>5. QED BY <3>3, <3>4
  <2>7. queue' \in [Pools -> Seq([by : Requests, for : Purposes])]
    BY <2>1, <2>6 DEF IInv
  <2>8. QED BY <2>3, <2>6, <2>7
<1>3. QED BY <1>1, <1>2

LEMMA RequestKeeps == ASSUME IInv, NEW w \in Requests, Request(w) PROVE IInv'
<1>1. req[w] \in RequestRecords BY DEF IInv
<1>2. CASE AskUnit(w)
  <2>1. Ask(w, "unit", req[w]) /\ req[w].at # "new" /\ UNCHANGED <<conn, seen>>
    BY <1>2 DEF AskUnit
  <2>2. "unit" \in Purposes BY DEF Purposes
  <2>3. /\ Kept
        /\ queue' \in [Pools -> Seq([by : Requests, for : Purposes])]
        /\ \A pool \in Pools : queue'[pool] \in Seq(Waits(pool)')
    BY <1>1, <2>1, <2>2, AskKeeps
  <2>4. \A c \in Conns : AtRest(c)' /\ Lent(c)'
    BY <2>1, <2>3, LentStays
  <2>5. QED BY <2>1, <2>3, <2>4, RowsStay DEF IInv, Kept
<1>3. CASE Statement(w)
  <2> DEFINE r == [req[w] EXCEPT !.todo = @ - 1]
  <2>1. r \in RequestRecords /\ r.actor = req[w].actor /\ r.at = req[w].at
    BY <1>1 DEF RequestRecords
  <2>2. r.at # "new" /\ conn' = conn BY <1>3, <2>1 DEF Statement
  <2>3. CASE UnitOf(w) # {}
    <3>1. PICK c \in UnitOf(w) : Returned(w, c) BY <1>3, <2>3 DEF Statement
    <3>2. req' = [req EXCEPT ![w] = r] /\ queue' = queue BY <1>3, <2>3 DEF Statement
    <3>3. c \in Conns /\ conn[c].by = w BY <3>1 DEF UnitOf
    <3>4. w # Nobody BY ConnectionsAssumption DEF Requests
    <3>5. RowsAreOwn' BY <3>1, <3>3, <3>4, OwnRows
    <3> HIDE DEF r
    <3>6. Kept BY <2>1, <2>2, <3>2, Became
    <3>7. \A pool \in Pools : queue'[pool] \in Seq(Waits(pool)') BY <3>2, <3>6, WaitsStay
    <3>8. \A d \in Conns : AtRest(d)' /\ Lent(d)'
      BY <2>2, <3>6, LentStays
    <3>9. QED BY <2>2, <3>2, <3>5, <3>6, <3>7, <3>8 DEF IInv, Kept
  <2>4. CASE UnitOf(w) = {}
    <3>1. Ask(w, "statement", r) /\ seen' = seen BY <1>3, <2>4 DEF Statement
    <3> HIDE DEF r
    <3>2. "statement" \in Purposes BY DEF Purposes
    <3>3. /\ Kept
          /\ queue' \in [Pools -> Seq([by : Requests, for : Purposes])]
          /\ \A pool \in Pools : queue'[pool] \in Seq(Waits(pool)')
      BY <2>1, <2>2, <3>1, <3>2, AskKeeps
    <3>4. \A c \in Conns : AtRest(c)' /\ Lent(c)'
      BY <2>2, <3>3, LentStays
    <3>5. QED BY <2>2, <3>1, <3>3, <3>4, RowsStay DEF IInv, Kept
  <2>5. QED BY <2>3, <2>4
<1>4. QED BY <1>2, <1>3 DEF Request

\* A connection is given back, or a wait given up: what w stands for goes on.
LEMMA ReleaseKeeps ==
  ASSUME IInv, NEW c \in Conns, conn[c].by # Nobody, NEW ok \in BOOLEAN, Release(c, ok),
         UNCHANGED <<queue, seen>>
  PROVE  IInv'
<1>1. conn[c].by \in Requests /\ req[conn[c].by].at # "new" BY DEF IInv, Loans, Lent
<1>2. Kept BY <1>1, SettledKeeps DEF Release
<1>3. conn' = [conn EXCEPT ![c] = Free] BY DEF Release, Left
<1>4. Free \in Loans /\ Free.by = Nobody /\ Free.guc = NoUser /\ Free.at = "idle"
  BY DEF Free, Loans
<1>5. conn' \in [Conns -> Loans] BY <1>3, <1>4 DEF IInv
<1>6. ASSUME NEW d \in Conns
      PROVE  AtRest(d)' /\ Lent(d)'
  <2>1. CASE d = c BY <1>3, <1>4, <2>1 DEF IInv, Lent, AtRest
  <2>2. CASE d # c
    <3>1. conn'[d] = conn[d] BY <1>3, <2>2 DEF IInv
    <3>2. QED BY <1>2, <3>1, LentStays
  <2>3. QED BY <2>1, <2>2
<1>7. \A pool \in Pools : queue'[pool] \in Seq(Waits(pool)') BY <1>2, WaitsStay
<1>8. QED BY <1>2, <1>5, <1>6, <1>7, RowsStay DEF IInv, Kept

LEMMA GrantKeeps == ASSUME IInv, NEW c \in Conns, Grant(c) PROVE IInv'
<1> DEFINE pool == PoolOf(c)  wait == Head(queue[pool])
           loan == [conn[c] EXCEPT !.by = wait.by, !.for = wait.for, !.at = "taken"]
<1>1. pool \in Pools /\ queue[pool] # <<>> /\ conn[c].by = Nobody BY DEF Grant, PoolOf, Pools
<1>2. queue[pool] \in Seq(Waits(pool)) /\ queue[pool] \in Seq([by : Requests, for : Purposes])
  BY <1>1 DEF IInv
<1>3. wait \in Waits(pool) /\ Tail(queue[pool]) \in Seq(Waits(pool))
      /\ Tail(queue[pool]) \in Seq([by : Requests, for : Purposes])
  BY <1>1, <1>2, HeadTailProperties
<1>4. wait.by \in Requests /\ wait.for \in Purposes /\ req[wait.by].at # "new"
      /\ Target(req[wait.by].actor) = pool
  BY <1>3 DEF Waits
<1>5. /\ conn' = [conn EXCEPT ![c] = loan]
      /\ queue' = [queue EXCEPT ![pool] = Tail(@)]
      /\ UNCHANGED <<req, seen>>
  BY DEF Grant
<1>6. conn[c] \in Loans /\ conn[c].guc = NoUser BY <1>1 DEF IInv, AtRest
<1>7. loan \in Loans /\ loan.by = wait.by /\ loan.guc = NoUser /\ loan.at = "taken"
  BY <1>4, <1>6 DEF Loans
<1> HIDE DEF wait, loan, pool
<1>8. Kept BY <1>5 DEF IInv, Kept
<1>9. conn' \in [Conns -> Loans] /\ conn'[c] = loan BY <1>5, <1>7 DEF IInv
<1>10. ASSUME NEW d \in Conns
       PROVE  AtRest(d)' /\ Lent(d)'
  <2>1. CASE d = c
    BY <1>4, <1>5, <1>7, <1>9, <2>1, ConnectionsAssumption DEF Requests, Lent, AtRest, Acting, pool
  <2>2. CASE d # c
    <3>1. conn'[d] = conn[d] BY <1>5, <2>2 DEF IInv
    <3>2. QED BY <1>8, <3>1, LentStays
  <2>3. QED BY <2>1, <2>2
<1>11. ASSUME NEW p \in Pools
       PROVE  queue'[p] \in Seq(Waits(p)') /\ queue'[p] \in Seq([by : Requests, for : Purposes])
  <2>1. Waits(p)' = Waits(p) BY <1>5 DEF Waits
  <2>2. CASE p = pool BY <1>3, <1>5, <2>1, <2>2 DEF IInv
  <2>3. CASE p # pool BY <1>5, <2>1, <2>3 DEF IInv
  <2>4. QED BY <2>2, <2>3
<1>12. queue' \in [Pools -> Seq([by : Requests, for : Purposes])] BY <1>1, <1>5, <1>11 DEF IInv
<1>13. QED BY <1>5, <1>8, <1>9, <1>10, <1>11, <1>12, RowsStay DEF IInv, Kept

LEMMA OpenKeeps == ASSUME IInv, NEW c \in Conns, Open(c) PROVE IInv'
<1> DEFINE w == conn[c].by
           at == IF conn[c].for = "unit" THEN "within" ELSE req[w].at
           guc == IF Acting(c) \in Users THEN Acting(c) ELSE conn[c].guc
           loan == [conn[c] EXCEPT !.at = "open", !.guc = guc]
           r == [req[w] EXCEPT !.at = at]
<1>1. conn[c] \in Loans /\ conn[c].at = "taken" /\ Lent(c) /\ AtRest(c) BY DEF IInv, Open
<1>2. w \in Requests /\ Lent(c) /\ req[w].at # "new" BY <1>1 DEF Loans, Lent, AtRest
<1>3. w # Nobody BY <1>2, ConnectionsAssumption DEF Requests
<1>4. req[w] \in RequestRecords BY <1>2 DEF IInv
<1>5. /\ conn' = [conn EXCEPT ![c] = loan]
      /\ req' = [req EXCEPT ![w] = r]
      /\ UNCHANGED <<queue, seen>>
  BY <1>1, <1>2 DEF Open, IInv
<1>6. guc = NoUser \/ guc = req[w].actor BY <1>2, <1>3 DEF Lent, Acting
<1>7. guc \in Users \cup {NoUser} BY <1>1 DEF Loans
<1> HIDE DEF guc
<1>8. loan \in Loans /\ loan.by = w /\ loan.guc = guc BY <1>1, <1>7 DEF Loans
<1>9. at \in {"unit", "within", "running", "answered", "over"} BY <1>2, <1>4 DEF RequestRecords
<1> HIDE DEF at
<1>10. r \in RequestRecords /\ r.at # "new" /\ r.actor = req[w].actor
  BY <1>4, <1>9 DEF RequestRecords
<1> HIDE DEF r, loan
<1>11. Kept BY <1>2, <1>5, <1>10, Became
<1>12. conn' \in [Conns -> Loans] /\ conn'[c] = loan BY <1>5, <1>8 DEF IInv
<1>13. ASSUME NEW d \in Conns PROVE AtRest(d)' /\ Lent(d)'
  <2>1. CASE d = c
    <3>1. req'[w].at # "new" /\ req'[w].actor = req[w].actor BY <1>2, <1>11 DEF Kept
    <3>2. Target(req[w].actor) = PoolOf(c) BY <1>2, <1>3 DEF Lent, Acting
    <3>3. QED BY <1>6, <1>8, <1>12, <1>3, <2>1, <3>1, <3>2 DEF AtRest, Lent, Acting
  <2>2. CASE d # c
    <3>1. conn'[d] = conn[d] BY <1>5, <2>2 DEF IInv
    <3>2. QED BY <1>11, <3>1, LentStays
  <2>3. QED BY <2>1, <2>2
<1>14. \A pool \in Pools : queue'[pool] \in Seq(Waits(pool)') BY <1>5, <1>11, WaitsStay
<1>15. QED BY <1>5, <1>11, <1>12, <1>13, <1>14, RowsStay DEF IInv, Kept

LEMMA RunKeeps == ASSUME IInv, NEW c \in Conns, Run(c) PROVE IInv'
<1> DEFINE loan == [conn[c] EXCEPT !.at = "ran"]
<1>1. conn[c] \in Loans /\ conn[c].at # "idle" BY DEF IInv, Run
<1>2. conn[c].by # Nobody BY <1>1 DEF IInv, AtRest
<1>3. RowsAreOwn' BY <1>2, OwnRows DEF Run
<1>4. conn' = [conn EXCEPT ![c] = loan] /\ UNCHANGED <<queue, req>> BY DEF Run, IInv
<1>5. loan \in Loans /\ loan.by = conn[c].by /\ loan.guc = conn[c].guc BY <1>1 DEF Loans
<1> HIDE DEF loan
<1>6. Kept BY <1>4 DEF IInv, Kept
<1>7. conn' \in [Conns -> Loans] /\ conn'[c] = loan BY <1>4, <1>5 DEF IInv
<1>8. ASSUME NEW d \in Conns PROVE AtRest(d)' /\ Lent(d)'
  <2>1. CASE d = c
    <3>1. Lent(c) BY DEF IInv
    <3>2. QED BY <1>2, <1>4, <1>5, <1>7, <2>1, <3>1 DEF AtRest, Lent, Acting
  <2>2. CASE d # c
    <3>1. conn'[d] = conn[d] BY <1>4, <2>2 DEF IInv
    <3>2. QED BY <1>6, <3>1, LentStays
  <2>3. QED BY <2>1, <2>2
<1>9. \A pool \in Pools : queue'[pool] \in Seq(Waits(pool)') BY <1>4, <1>6, WaitsStay
<1>10. QED BY <1>3, <1>4, <1>6, <1>7, <1>8, <1>9 DEF IInv, Kept

LEMMA TimeOutKeeps ==
  ASSUME IInv, NEW pool \in Pools, NEW i \in DOMAIN queue[pool], TimeOut(pool, i) PROVE IInv'
<1> DEFINE q == queue[pool]
<1>1. q \in Seq(Waits(pool)) /\ q \in Seq([by : Requests, for : Purposes]) BY DEF IInv
<1>2. i \in 1 .. Len(q) /\ Len(q) \in Nat BY <1>1
<1>3. q[i] \in Waits(pool) BY <1>1, <1>2
<1>4. q[i].by \in Requests /\ req[q[i].by].at # "new" BY <1>3 DEF Waits
<1>5. UNCHANGED <<conn, seen>> /\ queue' = [queue EXCEPT ![pool] = RemoveAt(q, i)]
  BY DEF TimeOut
<1>6. Settled(q[i].by, FALSE) BY DEF TimeOut
<1>7. Kept BY <1>4, <1>6, SettledKeeps
<1>8. ASSUME NEW S, q \in Seq(S) PROVE RemoveAt(q, i) \in Seq(S)
  <2>1. \A j \in 1 .. i - 1 : q[j] \in S BY <1>2, <1>8
  <2>2. \A j \in i + 1 .. Len(q) : q[j] \in S BY <1>2, <1>8
  <2>3. SubSeq(q, 1, i - 1) \in Seq(S) BY <1>2, <2>1, SubSeqProperties
  <2>4. SubSeq(q, i + 1, Len(q)) \in Seq(S) BY <1>2, <2>2, SubSeqProperties
  <2>5. QED BY <2>3, <2>4, ConcatProperties DEF RemoveAt
<1>9. ASSUME NEW p \in Pools
      PROVE  queue'[p] \in Seq(Waits(p)') /\ queue'[p] \in Seq([by : Requests, for : Purposes])
  <2>1. queue[p] \in Seq(Waits(p)') BY <1>7, WaitsStay
  <2>2. queue[p] \in Seq([by : Requests, for : Purposes]) BY DEF IInv
  <2>3. CASE p = pool
    <3>1. queue'[p] = RemoveAt(q, i) BY <1>5, <2>3 DEF IInv
    <3>2. QED BY <1>8, <2>1, <2>2, <2>3, <3>1
  <2>4. CASE p # pool BY <1>5, <2>1, <2>2, <2>4 DEF IInv
  <2>5. QED BY <2>3, <2>4
<1>10. queue' \in [Pools -> Seq([by : Requests, for : Purposes])] BY <1>5, <1>9 DEF IInv
<1>11. \A c \in Conns : AtRest(c)' /\ Lent(c)' BY <1>5, <1>7, LentStays
<1>12. QED BY <1>5, <1>7, <1>9, <1>10, <1>11, RowsStay DEF IInv, Kept

LEMMA StepHolds == IInv /\ [Next]_vars => IInv'
<1> SUFFICES ASSUME IInv, [Next]_vars PROVE IInv' OBVIOUS
<1>1. ASSUME NEW w \in Requests, NEW actor \in Actors, NEW unit \in BOOLEAN,
             NEW statements \in 1 .. MaxStatements, Arrive(w, actor, unit, statements)
      PROVE  IInv'
  BY <1>1, ArriveKeeps
<1>2. ASSUME NEW w \in Requests, Request(w) PROVE IInv' BY <1>2, RequestKeeps
<1>3. ASSUME NEW c \in Conns, Finish(c) \/ Commit(c) \/ Fail(c) PROVE IInv'
  <2>1. conn[c].by # Nobody BY <1>3 DEF Finish, Commit, Fail, IInv, AtRest
  <2>2. PICK ok \in BOOLEAN : Release(c, ok) BY <1>3 DEF Finish, Commit, Fail
  <2>3. UNCHANGED <<queue, seen>> BY <1>3 DEF Finish, Commit, Fail
  <2>4. QED BY <2>1, <2>2, <2>3, ReleaseKeeps
<1>4. ASSUME NEW c \in Conns, Connection(c) PROVE IInv'
  BY <1>3, <1>4, GrantKeeps, OpenKeeps, RunKeeps DEF Connection
<1>5. ASSUME NEW pool \in Pools, NEW i \in DOMAIN queue[pool], TimeOut(pool, i) PROVE IInv'
  BY <1>5, TimeOutKeeps
<1>6. CASE Signal \/ EndPools \/ Exit \/ UNCHANGED vars
  <2>1. UNCHANGED <<conn, queue, req, seen>> BY <1>6 DEF Signal, EndPools, Exit, vars
  <2>2. Kept BY <2>1 DEF IInv, Kept
  <2>3. \A pool \in Pools : queue'[pool] \in Seq(Waits(pool)') BY <2>1, <2>2, WaitsStay
  <2>4. \A c \in Conns : AtRest(c)' /\ Lent(c)' BY <2>1, <2>2, LentStays
  <2>5. QED BY <2>1, <2>2, <2>3, <2>4, RowsStay DEF IInv, Kept
<1>7. QED BY <1>1, <1>2, <1>3, <1>4, <1>5, <1>6 DEF Next, Actors

\* Whoever had a connection before, however requests fail, time out or outlive their
\* answers, and however small or large the pools: what a statement returns is its own
\* user's, unless it runs as the system (db.ts, app.current_user_id).
THEOREM TenantsAreApart == Spec => []RowsAreOwn
<1>1. IInv => RowsAreOwn BY DEF IInv
<1>2. QED BY InitHolds, StepHolds, <1>1, PTL DEF Spec

-----------------------------------------------------------------------------
\* In production no environment there is, whatever it sets and however many proxies it
\* says it trusts, starts the API on a stand-in (index.ts, buildDeps in app.ts).
THEOREM StartsLiveOrNot ==
  ASSUME NEW hops, NEW env \in Environments({hops}) PROVE ProductionIsLive(env)
<1> SUFFICES ASSUME env.production, Starts(env), NEW d \in DOMAIN BuildDeps(env)
             PROVE  BuildDeps(env)[d] = "live"
  BY DEF ProductionIsLive
<1>1. Required \subseteq env.set BY DEF Starts
<1>2. BuildDeps(env)[d] # "refused" BY DEF Starts
<1>3. DOMAIN BuildDeps(env) = {"store", "bus", "limiter", "stripe", "geocoder", "tokens", "webhooks"}
  BY DEF BuildDeps
<1>4. DefaultStore(env) \in {"live", "refused"} BY DEF DefaultStore, OrStandIn
<1>5. DefaultBus(env) \in {"live", "refused"} BY DEF DefaultBus
<1>6. \A name : OrStandIn(env, name) \in {"live", "refused"} BY DEF OrStandIn
<1>7. Secret(env, "DESI_NEXUS_TOKEN_SECRET") = "live" /\ Secret(env, "DESI_NEXUS_WEBHOOK_SECRET") = "live"
  BY <1>1 DEF Required, Secret
<1>8. BuildDeps(env)[d] \in {"live", "refused"}
  BY <1>3, <1>4, <1>5, <1>6, <1>7
     DEF BuildDeps, DefaultRateLimiter, DefaultStripeGateway, DefaultGeocoder
<1>9. QED BY <1>2, <1>8

\* Whatever a client writes into X-Forwarded-For and however long it makes it, it is counted
\* against the address that the outermost of our proxies saw (resolveClientIp).
THEOREM ForgeryChangesNothing ==
  ASSUME NEW S, NEW forged \in Seq(S), NEW appended \in Seq(S), NEW direct, NEW hops \in Int
  PROVE  ForgeryIsIgnored(forged, appended, direct, hops)
<1> SUFFICES ASSUME hops >= 1, Len(appended) >= hops
             PROVE  ResolveClientIp(forged \o appended, direct, hops)
                      = ResolveClientIp(appended, direct, hops)
  BY DEF ForgeryIsIgnored
<1> DEFINE f == Len(forged)  a == Len(appended)  chain == forged \o appended
<1>1. f \in Nat /\ a \in Nat OBVIOUS
<1>2. Len(chain) = f + a
      /\ \A i \in 1 .. f + a : chain[i] = IF i <= f THEN forged[i] ELSE appended[i - f]
  BY ConcatProperties
<1>3. chain # <<>> /\ appended # <<>> BY <1>1, <1>2
<1>4. chain[f + a - hops + 1] = appended[a - hops + 1]
  <2>1. f + a - hops + 1 \in 1 .. f + a /\ ~(f + a - hops + 1 <= f) BY <1>1
  <2>2. f + a - hops + 1 - f = a - hops + 1 BY <1>1
  <2>3. QED BY <1>2, <2>1, <2>2
<1>5. ResolveClientIp(chain, direct, hops) = chain[f + a - hops + 1]
  BY <1>1, <1>2, <1>3 DEF ResolveClientIp
<1>6. ResolveClientIp(appended, direct, hops) = appended[a - hops + 1]
  BY <1>1, <1>3 DEF ResolveClientIp
<1>7. QED BY <1>4, <1>5, <1>6
=============================================================================
