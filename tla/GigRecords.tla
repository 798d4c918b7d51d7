----------------------------- MODULE GigRecords -----------------------------
(***************************************************************************)
(* The record of one gig from its draft to the locked booking: the         *)
(* handlers of http/routes/gigs.ts, and the funding route, the webhook and *)
(* the dispute route of http/routes/payments.ts as far as they save the    *)
(* gig.  Each of them loads the whole gig, works on its copy and saves the *)
(* whole copy, so a save also writes back the columns the handler never    *)
(* looked at.                                                              *)
(*                                                                         *)
(* As in Booking, every statement and every transaction is a step.  What   *)
(* the same handlers do to the escrow and at Stripe is the matter of       *)
(* Booking; here an escrow is its vendor, whether a deposit has been       *)
(* booked on it and whether it has been disputed.                          *)
(***************************************************************************)
EXTENDS GigLifecycle, Sequences, FiniteSets

CONSTANTS
  Workers,          \* requests that can be in flight at the same time
  Vendors,          \* who may apply; an application is known by its vendor
  Nobody,           \* an absent vendor
  Targets,          \* the states a caller of the transition route asks for
  MaxHistory,       \* bound: no request but a dispute starts on a history this long
  MaxCrashes        \* bound: requests lost in flight

ASSUME RecordsAssumption ==
  /\ Nobody \notin Vendors
  /\ Targets \subseteq GigStates
  /\ MaxHistory \in Nat /\ MaxCrashes \in Nat

VARIABLES
  gig,              \* the gigs row: state, application count, accepted offer
  history,          \* its rows of gig_transitions, in order of their id
  status,           \* the applications rows: status by vendor, "none" if there is no row
  escrow,           \* its vendor (Nobody: no row), whether its deposit is booked, whether disputed
  req,              \* what each worker is doing
  alone,            \* history: no two requests have been in flight together
  crashes           \* requests lost so far

tables == <<gig, history, status, escrow>>
vars == <<gig, history, status, escrow, req, alone, crashes>>

Statuses == {"none", "submitted", "accepted"}
Rows == [state : GigStates, count : Nat, offer : Vendors \cup {Nobody}]

\* escrow.state !== "AwaitingDeposit"
HasMovedOn(e) == e.funded \/ e.disputed

NewGig == [state |-> "Draft", count |-> 0, offer |-> Nobody]

-----------------------------------------------------------------------------
\* Requests.  g and h are the copy of the gig and its history a request works on.

Idle == [op |-> "none", at |-> "idle", by |-> "system", v |-> Nobody, to |-> "Draft",
         g |-> NewGig, h |-> <<>>, count |-> 0]

\* loadGig, its first statement.
Begin(w, op, by, v, to) ==
  /\ req[w] = Idle
  /\ req' = [req EXCEPT ![w] = [Idle EXCEPT !.op = op, !.at = "history", !.by = by, !.v = v,
                                            !.to = to, !.g = gig]]
  /\ alone' = (alone /\ \A u \in Workers \ {w} : req[u] = Idle)
  /\ UNCHANGED <<tables, crashes>>

At(w, op, at) == req[w].op = op /\ req[w].at = at
End(w) == req' = [req EXCEPT ![w] = Idle]
GoTo(w, at) == req' = [req EXCEPT ![w].at = at]
GoOrEnd(w, allowed, at) == IF allowed THEN GoTo(w, at) ELSE End(w)

Init ==
  /\ gig = NewGig
  /\ history = <<>>
  /\ status = [v \in Vendors |-> "none"]
  /\ escrow = [vendor |-> Nobody, funded |-> FALSE, disputed |-> FALSE]
  /\ req = [w \in Workers |-> Idle]
  /\ alone = TRUE
  /\ crashes = 0

-----------------------------------------------------------------------------
\* transition(): the new state, and a record of it at the end of the history

NoFacts == [depositFunded |-> FALSE, hoursUntilEvent |-> 0, cancellationReason |-> TRUE,
            checkedInAtVenue |-> TRUE]

GuardedGig(g) ==
  [state |-> g.state, briefComplete |-> TRUE, applicationCount |-> g.count,
   offerAccepted |-> g.offer # Nobody]

Moved(r, to) ==
  [r EXCEPT !.g.state = to, !.h = Append(@, [from |-> r.g.state, to |-> to]), !.at = "count"]

\* applyTransition, then on to gigs.save.
Drive(w, r, to, by, facts) ==
  IF TransitionAllowed(GuardedGig(r.g), to, by, facts)
    THEN req' = [req EXCEPT ![w] = Moved(r, to)]
    ELSE End(w)

-----------------------------------------------------------------------------
\* The rest of loadGig, and what each handler asks of the gig it has read

Accepting == {"Open", "ApplicationsReview"}

ReadHistory(w) ==
  /\ req[w].at = "history"
  /\ LET r == [req[w] EXCEPT !.h = history]
         ThenGo(allowed, at) == IF allowed THEN req' = [req EXCEPT ![w] = [r EXCEPT !.at = at]]
                                           ELSE End(w)
     IN CASE r.op = "publish" -> Drive(w, r, "Open", "host", NoFacts)
          [] r.op = "apply" -> ThenGo(r.g.state \in Accepting, "lookup")
          [] r.op = "fund" -> ThenGo(r.g.offer # Nobody, "lookup")
          [] r.op = "dispute" -> Drive(w, r, "Disputed", r.by, NoFacts)
          [] r.op = "webhook" ->
               IF r.g.state = "ApplicationsReview"
                 THEN Drive(w, r, "EscrowLocked", "system", [NoFacts EXCEPT !.depositFunded = TRUE])
                 ELSE End(w)
          [] OTHER -> ThenGo(TRUE, "lookup")
  /\ UNCHANGED <<tables, alone, crashes>>

\* POST /v1/gigs/:gigId/applications.  The table holds one row per gig and vendor.
ApplyLookupMut(w) ==    \* mutant: a repeated application is counted again
  /\ At(w, "apply", "lookup")
  /\ IF status[req[w].v] = "none"
       THEN GoTo(w, "create")
       ELSE req' = [req EXCEPT ![w].g.count = @ + 1, ![w].at = "count"]
  /\ UNCHANGED <<tables, alone, crashes>>

ApplyLookup(w) ==
  /\ At(w, "apply", "lookup")
  /\ GoOrEnd(w, status[req[w].v] = "none", "create")
  /\ UNCHANGED <<tables, alone, crashes>>

ApplyCreate(w) ==
  /\ At(w, "apply", "create")
  /\ LET counted == [req[w] EXCEPT !.g.count = @ + 1, !.at = "count"]
     IN IF status[req[w].v] # "none"
          THEN status' = status /\ End(w)
          ELSE /\ status' = [status EXCEPT ![req[w].v] = "submitted"]
               /\ IF counted.g.state = "Open"
                    THEN Drive(w, counted, "ApplicationsReview", "system", NoFacts)
                    ELSE req' = [req EXCEPT ![w] = counted]
  /\ UNCHANGED <<gig, history, escrow, alone, crashes>>

\* POST /v1/gigs/:gigId/offer.  A unique index holds one accepted row per gig.
OfferLookup(w) ==
  /\ At(w, "offer", "lookup")
  /\ GoOrEnd(w, status[req[w].v] # "none" /\ req[w].g.offer = Nobody, "accept")
  /\ UNCHANGED <<tables, alone, crashes>>

OneAcceptedMut(v) == TRUE    \* mutant: there is no such index

OneAccepted(v) == \A u \in Vendors \ {v} : status[u] # "accepted"

OfferAcceptUnsaved(w) ==    \* mutant: the application is not saved
  /\ At(w, "offer", "accept")
  /\ req' = [req EXCEPT ![w].g.offer = req[w].v, ![w].at = "count"]
  /\ UNCHANGED <<tables, alone, crashes>>

OfferAccept(w) ==
  /\ At(w, "offer", "accept")
  /\ LET v == req[w].v
     IN IF OneAccepted(v)
          THEN /\ status' = [status EXCEPT ![v] = "accepted"]
               /\ req' = [req EXCEPT ![w].g.offer = v, ![w].at = "count"]
          ELSE status' = status /\ End(w)
  /\ UNCHANGED <<gig, history, escrow, alone, crashes>>

\* POST /v1/gigs/:gigId/transition.  Any escrow that no longer awaits its deposit passes
\* for a funded one, one that was disputed before it was paid too.  The gigs table
\* refuses a published gig that is Cancelled without a reason, and the save is what
\* publishes a draft.
TransitionLookup(w) ==
  /\ At(w, "transition", "lookup")
  /\ \E hours \in {0, CallTimeWindowHours + 1}, reason, checkedIn \in BOOLEAN :
       IF req[w].to = "Cancelled" /\ ~reason
         THEN End(w)
         ELSE Drive(w, req[w], req[w].to, req[w].by,
                    [depositFunded |-> HasMovedOn(escrow), hoursUntilEvent |-> hours,
                     cancellationReason |-> reason, checkedInAtVenue |-> checkedIn])
  /\ UNCHANGED <<tables, alone, crashes>>

\* POST /v1/gigs/:gigId/escrow.  The escrow is made out to the vendor of the accepted offer.
FundLookup(w) ==
  /\ At(w, "fund", "lookup")
  /\ GoOrEnd(w, escrow.vendor = Nobody, "create")
  /\ UNCHANGED <<tables, alone, crashes>>

FundCreate(w) ==
  /\ At(w, "fund", "create")
  /\ IF escrow.vendor = Nobody
       THEN escrow' = [escrow EXCEPT !.vendor = req[w].g.offer] /\ GoTo(w, "count")
       ELSE escrow' = escrow /\ End(w)
  /\ UNCHANGED <<gig, history, status, alone, crashes>>

-----------------------------------------------------------------------------
\* gigs.save: it counts the stored transitions, overwrites the row, and appends the
\* records of the copy from that count on.

CountTransitions(w) ==
  /\ req[w].at = "count"
  /\ req' = [req EXCEPT ![w].count = Len(history), ![w].at = "commit"]
  /\ UNCHANGED <<tables, alone, crashes>>

NewTransitionsMut(r) == r.h    \* mutant: the whole history is written again

NewTransitions(r) == SubSeq(r.h, r.count + 1, Len(r.h))

CommitGig(w) ==
  /\ req[w].at = "commit"
  /\ gig' = req[w].g
  /\ history' = history \o NewTransitions(req[w])
  /\ End(w)
  /\ UNCHANGED <<status, escrow, alone, crashes>>

-----------------------------------------------------------------------------

StartPublish(w) == Begin(w, "publish", "host", Nobody, "Open")
StartApply(w, v) == Begin(w, "apply", "vendor", v, "Draft")
StartOffer(w, v) == Begin(w, "offer", "host", v, "Draft")
StartFund(w) == Begin(w, "fund", "host", Nobody, "Draft")

\* A request the table refuses for the gig it reads changes nothing and is left out.
StartTransition(w, by, to) ==
  /\ CanTransition(gig.state, to, by)
  /\ Begin(w, "transition", by, Nobody, to)

\* The host has paid the deposit; the webhook books it, then reads the gig.  Either
\* party opens a dispute, of a paid escrow or not; the route saves it, then reads the
\* gig.  When the two overlap, each may be saved after the other.
CaptureDeposit ==
  /\ escrow.vendor # Nobody /\ ~escrow.funded
  /\ escrow' = [escrow EXCEPT !.funded = TRUE]
  /\ UNCHANGED <<gig, history, status, req, alone, crashes>>

OpenDispute ==
  /\ escrow.vendor # Nobody /\ ~escrow.disputed
  /\ escrow' = [escrow EXCEPT !.disputed = TRUE]
  /\ UNCHANGED <<gig, history, status, req, alone, crashes>>

StartWebhook(w) == escrow.funded /\ Begin(w, "webhook", "system", Nobody, "EscrowLocked")
StartDispute(w, by) == escrow.disputed /\ Begin(w, "dispute", by, Nobody, "Disputed")

Crash(w) ==
  /\ req[w] # Idle
  /\ crashes < MaxCrashes
  /\ crashes' = crashes + 1
  /\ End(w)
  /\ UNCHANGED <<tables, alone>>

Start(w) ==
  \/ /\ Len(history) < MaxHistory
     /\ \/ StartPublish(w) \/ StartFund(w) \/ StartWebhook(w)
        \/ \E v \in Vendors : StartApply(w, v) \/ StartOffer(w, v)
        \/ \E by \in Parties, to \in Targets : StartTransition(w, by, to)
  \/ \E by \in {"host", "vendor"} : StartDispute(w, by)

Continue(w) ==
  \/ ReadHistory(w) \/ ApplyLookup(w) \/ ApplyCreate(w) \/ OfferLookup(w) \/ OfferAccept(w)
  \/ TransitionLookup(w) \/ FundLookup(w) \/ FundCreate(w)
  \/ CountTransitions(w) \/ CommitGig(w)

Next ==
  \/ \E w \in Workers : Start(w) \/ Continue(w) \/ Crash(w)
  \/ CaptureDeposit \/ OpenDispute

Spec == Init /\ [][Next]_vars

-----------------------------------------------------------------------------
\* Properties

PastTheLock ==
  {"EscrowLocked", "InTransit", "Active", "DeliveryPending", "Disputed", "Completed"}

Applications == {v \in Vendors : status[v] # "none"}

\* The types of the tables and of the copies in flight.
TypeOK ==
  /\ gig \in Rows
  /\ history \in Seq([from : GigStates, to : GigStates])
  /\ status \in [Vendors -> Statuses]
  /\ escrow \in [vendor : Vendors \cup {Nobody}, funded : BOOLEAN, disputed : BOOLEAN]
  /\ escrow.vendor = Nobody => ~HasMovedOn(escrow)
  /\ \A w \in Workers : req[w].g \in Rows

\* "Append-only audit trail; the ledger reconciles against this" (gig.ts:100-101): as
\* long as requests do not overlap, and whichever of them die, the stored
\* transitions lead without a gap from the draft to the stored state.
HistoryExplainsGig ==
  alone =>
    LET before(i) == IF i = 1 THEN "Draft" ELSE history[i - 1].to
    IN /\ \A i \in DOMAIN history : history[i].from = before(i)
       /\ gig.state = before(Len(history) + 1)

\* However requests overlap and die, the count may fall behind the applications but
\* never runs ahead of them, so ApplicationsReview always has something to review.
CountNeverInvents == gig.count <= Cardinality(Applications)

\* However offers, applications and stale saves overlap, the offer stored with the gig
\* is the accepted application (gigs.ts:295-300).
OfferIsAccepted == gig.offer # Nobody => status[gig.offer] = "accepted"

\* The vendor an escrow is made out to is the one and only accepted applicant, even
\* after a stale save has wiped the offer from the gig and it is made again.
EscrowPaysAccepted ==
  escrow.vendor # Nobody => {v \in Vendors : status[v] = "accepted"} = {escrow.vendor}

\* What the lock stands for (gigs.ts:333-335, gig.ts:165-172): whoever drives the gig,
\* and on however stale a copy, a gig past the lock has its offer, it is the offer its
\* escrow pays, and a deposit has been booked on that escrow unless a party has
\* disputed it: the guard takes the dispute of an unpaid escrow for its deposit.
LockedIsBooked ==
  gig.state \in PastTheLock => gig.offer = escrow.vendor /\ (escrow.funded \/ escrow.disputed)

\* A finished gig stays finished as long as requests do not overlap; an application
\* that overlaps a cancellation revives it.
TerminalIsFinal ==
  [][(alone' /\ gig.state \in TerminalStates) => gig'.state = gig.state]_vars
=============================================================================
