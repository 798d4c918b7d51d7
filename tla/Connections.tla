----------------------------- MODULE Connections -----------------------------
(***************************************************************************)
(* What lies under every route: from the request listener (app.ts) and the *)
(* router (http/router.ts) to a pooled connection and the row-level        *)
(* policies it is bound by (infra/postgres/db.ts), in one process.         *)
(*                                                                         *)
(* A request acts as a user, as the system or as nobody, which the router  *)
(* binds in the async context.  Its statements run one by one in a unit of *)
(* work, or each on a connection of its own and possibly side by side      *)
(* (Promise.all over the vendors of a search).  A pool has a fixed number  *)
(* of connections and serves who waits in order.                           *)
(*                                                                         *)
(* Of a policed table, escrows, there is here one row of each user; a      *)
(* policy compares its parties with app.current_user_id.                   *)
(***************************************************************************)
EXTENDS Naturals, Sequences, FiniteSets, SequencesExt

CONSTANTS
  Users,            \* acting users
  System, NoActor,  \* the other actors
  AppConns, SystemConns,    \* the connections of the two pools, at most max of each
  Nobody,           \* a connection nobody has borrowed
  NoUser,           \* app.current_user_id is not set
  MaxRequests,      \* bound: requests that arrive
  MaxAtOnce,        \* bound: requests at the same time
  MaxStatements,    \* bound: statements of one request
  MaxFaults         \* bound: statements that fail, waits that time out

ASSUME ConnectionsAssumption ==
  /\ AppConns \cap SystemConns = {}
  /\ System \notin Users /\ NoActor \notin Users /\ NoUser \notin Users
  /\ System # NoActor /\ Nobody \notin Nat
  /\ MaxRequests \in Nat /\ MaxAtOnce \in Nat /\ MaxStatements \in Nat \ {0} /\ MaxFaults \in Nat

VARIABLES
  conn,             \* conn[c]: who has borrowed c, for what, how far, and its GUC
  queue,            \* queue[pool]: who waits for a connection, and for what
  req,              \* req[w]: how far a request is, as whom, with how much to do
  seen,             \* history: <<actor, owner>> of the rows statements have returned
  phase,            \* of the process: up, closing, ending, down
  faults            \* bounded count

vars == <<conn, queue, req, seen, phase, faults>>

Requests == 1 .. MaxRequests      \* in the order they arrive

Conns == AppConns \cup SystemConns
Pools == {"app", "system"}
PoolOf(c) == IF c \in SystemConns THEN "system" ELSE "app"

\* RoutedDatabase.target, outside a unit of work.
Target(actor) == IF actor = System THEN "system" ELSE "app"

Free == [by |-> Nobody, for |-> "none", at |-> "idle", guc |-> NoUser]
New == [at |-> "new", actor |-> NoActor, todo |-> 0, out |-> 0]

Init ==
  /\ conn = [c \in Conns |-> Free]
  /\ queue = [pool \in Pools |-> <<>>]
  /\ req = [w \in Requests |-> New]
  /\ seen = {} /\ phase = "up" /\ faults = 0

-----------------------------------------------------------------------------
\* A request

InFlight(w) == req[w].at \in {"unit", "within", "running"}

\* handleRequest and Router.handle: the acting user is bound when every middleware has run.
Arrive(w, actor, unit, statements) ==
  /\ phase = "up" /\ req[w].at = "new"
  /\ w > 1 => req[w - 1].at # "new"
  /\ Cardinality({v \in Requests : req[v].at \notin {"new", "over"}}) < MaxAtOnce
  /\ req' = [req EXCEPT ![w] = [at |-> IF unit THEN "unit" ELSE "running", actor |-> actor,
                                todo |-> statements, out |-> 0]]
  /\ UNCHANGED <<conn, queue, seen, phase, faults>>

\* What w asked for next is not to be had: the request is answered with an error, and only
\* what Promise.all has begun goes on, without anybody waiting for it.
Failed(w, r) ==
  req' = [req EXCEPT ![w] = IF r.out = 0 THEN [r EXCEPT !.at = "over", !.todo = 0]
                            ELSE [r EXCEPT !.at = "answered"]]

\* pool.connect: wait for a connection.  A pool that has been ended refuses.
Ask(w, for, r) ==
  IF phase = "ending"
    THEN queue' = queue /\ Failed(w, r)
    ELSE /\ queue' = [queue EXCEPT ![Target(r.actor)] = Append(@, [by |-> w, for |-> for])]
         /\ req' = [req EXCEPT ![w] = [r EXCEPT !.out = @ + 1]]

\* withUnitOfWork
AskUnit(w) ==
  /\ req[w].at = "unit" /\ req[w].out = 0
  /\ Ask(w, "unit", req[w])
  /\ UNCHANGED <<conn, seen, phase, faults>>

UnitOfMut(w) == {}    \* mutant: a statement does not look for the unit it is under

\* The open unit of work that a statement of w belongs in.
UnitOf(w) == {c \in Conns : conn[c].by = w /\ conn[c].for = "unit" /\ conn[c].at = "open"}

\* The rows the policies let a statement on c see.
Visible(c) == IF c \in SystemConns THEN Users ELSE {u \in Users : conn[c].guc = u}

Returned(w, c) == seen' = seen \cup {<<req[w].actor, owner>> : owner \in Visible(c)}

\* query of a handle without a client: it joins the unit, or asks for a connection.
Statement(w) ==
  /\ req[w].todo > 0 /\ phase # "down"
  /\ req[w].at \in {"within", "running", "answered"}
  /\ LET r == [req[w] EXCEPT !.todo = @ - 1]
     IN IF UnitOf(w) # {}
          THEN /\ \E c \in UnitOf(w) : Returned(w, c)
               /\ req' = [req EXCEPT ![w] = r]
               /\ queue' = queue
          ELSE Ask(w, "statement", r) /\ seen' = seen
  /\ UNCHANGED <<conn, phase, faults>>

-----------------------------------------------------------------------------
\* A connection

\* The first who waits is given a connection.
Grant(c) ==
  LET pool == PoolOf(c)
  IN /\ conn[c].by = Nobody /\ queue[pool] # <<>> /\ phase \in {"up", "closing"}
     /\ conn' = [conn EXCEPT ![c] = [@ EXCEPT !.by = Head(queue[pool]).by,
                                              !.for = Head(queue[pool]).for, !.at = "taken"]]
     /\ queue' = [queue EXCEPT ![pool] = Tail(@)]
     /\ UNCHANGED <<req, seen, phase, faults>>

Acting(c) == req[conn[c].by].actor

\* A unit is a transaction, and so is a single statement of a user, whom it has to name.
NeedsTransaction(c) == conn[c].for = "unit" \/ Acting(c) \in Users

\* BEGIN, and set_config for a user.
Open(c) ==
  /\ conn[c].at = "taken" /\ NeedsTransaction(c)
  /\ conn' = [conn EXCEPT ![c].at = "open",
                          ![c].guc = IF Acting(c) \in Users THEN Acting(c) ELSE @]
  /\ req' = [req EXCEPT ![conn[c].by].at = IF conn[c].for = "unit" THEN "within" ELSE @]
  /\ UNCHANGED <<queue, seen, phase, faults>>

\* A statement on a connection of its own.
Run(c) ==
  /\ conn[c].for = "statement"
  /\ conn[c].at = IF NeedsTransaction(c) THEN "open" ELSE "taken"
  /\ Returned(conn[c].by, c)
  /\ conn' = [conn EXCEPT ![c].at = "ran"]
  /\ UNCHANGED <<queue, req, phase, faults>>

LeftMut(c) == [Free EXCEPT !.guc = conn[c].guc]    \* mutant: set_config(..., false)

\* COMMIT or ROLLBACK, and release: set_config(..., true) has gone with the transaction.
Left(c) == Free

\* One thing that w asked for is over, well or with an error.
Settled(w, ok) ==
  LET r == [req[w] EXCEPT !.out = @ - 1]
  IN IF ok
       THEN req' = [req EXCEPT ![w] = [r EXCEPT !.at = IF r.out = 0 /\ r.todo = 0 THEN "over" ELSE @]]
       ELSE Failed(w, r)

Release(c, ok) ==
  /\ conn' = [conn EXCEPT ![c] = Left(c)]
  /\ Settled(conn[c].by, ok)

Finish(c) ==
  /\ conn[c].at = "ran"
  /\ Release(c, TRUE)
  /\ UNCHANGED <<queue, seen, phase, faults>>

\* The handler is through and the unit commits.
Commit(c) ==
  /\ conn[c].for = "unit" /\ conn[c].at = "open"
  /\ LET r == req[conn[c].by] IN r.todo = 0 /\ r.out = 1
  /\ Release(c, TRUE)
  /\ UNCHANGED <<queue, seen, phase, faults>>

\* A statement fails; withTransaction rolls back and rethrows.
Fail(c) ==
  /\ conn[c].by # Nobody
  /\ conn[c].for = "unit" => req[conn[c].by].out = 1
  /\ faults < MaxFaults /\ faults' = faults + 1
  /\ Release(c, FALSE)
  /\ UNCHANGED <<queue, seen, phase>>

\* connectionTimeoutMillis
TimeOut(pool, i) ==
  /\ phase # "down"
  /\ faults < MaxFaults /\ faults' = faults + 1
  /\ queue' = [queue EXCEPT ![pool] = RemoveAt(@, i)]
  /\ Settled(queue[pool][i].by, FALSE)
  /\ UNCHANGED <<conn, seen, phase>>

-----------------------------------------------------------------------------
\* SIGTERM: the server takes no more requests, and once those it has are answered the pools
\* are ended, which waits for the connections that are still out.

Signal ==
  /\ phase = "up" /\ phase' = "closing"
  /\ UNCHANGED <<conn, queue, req, seen, faults>>

EndPools ==
  /\ phase = "closing" /\ \A w \in Requests : ~InFlight(w)
  /\ phase' = "ending"
  /\ UNCHANGED <<conn, queue, req, seen, faults>>

Exit ==
  /\ phase = "ending" /\ \A c \in Conns : conn[c].by = Nobody
  /\ phase' = "down"
  /\ UNCHANGED <<conn, queue, req, seen, faults>>

Request(w) == AskUnit(w) \/ Statement(w)
Connection(c) == Grant(c) \/ Open(c) \/ Run(c) \/ Finish(c) \/ Commit(c)

Next ==
  \/ \E w \in Requests :
       \/ \E actor \in Users \cup {System, NoActor}, unit \in BOOLEAN,
             statements \in 1 .. MaxStatements : Arrive(w, actor, unit, statements)
       \/ Request(w)
  \/ \E c \in Conns : Connection(c) \/ Fail(c)
  \/ \E pool \in Pools : \E i \in DOMAIN queue[pool] : TimeOut(pool, i)
  \/ Signal \/ EndPools \/ Exit

Spec == Init /\ [][Next]_vars

\* Handlers run to their end, Postgres answers what it is asked (statement_timeout sees to
\* it), and a closing server closes.
FairSpec ==
  /\ Spec
  /\ \A w \in Requests : WF_vars(Request(w))
  /\ \A c \in Conns : WF_vars(Connection(c))
  /\ WF_vars(EndPools) /\ WF_vars(Exit)

-----------------------------------------------------------------------------
\* Properties

\* "A GUC left set on a returned connection is how one tenant ends up reading another's
\* rows" (db.ts:10-14): whoever had a connection before, a statement returns the rows of its
\* own user, and one that acts as nobody returns none (db.ts:19-23).
RowsAreOwn == \A s \in seen : s[1] = System \/ s[1] = s[2]

\* However small a pool and however many wait for it, every request is answered without a
\* time-out having to break a wait, and SIGTERM ends the process: no unit of work waits for
\* a second connection (db.ts:122-128).
EveryoneIsAnswered ==
  /\ \A w \in Requests : InFlight(w) ~> ~InFlight(w)
  /\ phase = "closing" ~> phase = "down"
==============================================================================
