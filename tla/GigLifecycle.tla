---------------------------- MODULE GigLifecycle ----------------------------
(***************************************************************************)
(* The lifecycle of a gig, as domain/gig.ts defines it: the table of its   *)
(* transitions, who may drive each, and the guards.  Constant operators    *)
(* only; the modules that keep a gig as state use them.                    *)
(***************************************************************************)
EXTENDS Integers

GigStates ==
  {"Draft", "Open", "ApplicationsReview", "EscrowLocked", "InTransit", "Active",
   "DeliveryPending", "Completed", "Cancelled", "Disputed"}

TerminalStates == {"Completed", "Cancelled"}

Actors == {"host", "vendor", "system", "admin"}

CallTimeWindowHours == 24

Edge(from, to, actors) == [from |-> from, to |-> to, actors |-> actors]

Parties == {"host", "vendor", "admin"}

Transitions ==
  {Edge("Draft", "Open", {"host"}),
   Edge("Draft", "Cancelled", {"host", "admin"}),
   Edge("Open", "ApplicationsReview", {"host", "system"}),
   Edge("Open", "Cancelled", {"host", "admin"}),
   Edge("ApplicationsReview", "Open", {"host"}),
   Edge("ApplicationsReview", "EscrowLocked", {"host", "system"}),
   Edge("ApplicationsReview", "Cancelled", {"host", "admin"}),
   Edge("EscrowLocked", "InTransit", {"vendor", "system"}),
   Edge("EscrowLocked", "Cancelled", Parties),
   Edge("EscrowLocked", "Disputed", Parties),
   Edge("InTransit", "Active", {"vendor", "system"}),
   Edge("InTransit", "Disputed", Parties),
   Edge("InTransit", "Cancelled", {"admin"}),
   Edge("Active", "DeliveryPending", {"vendor"}),
   Edge("Active", "Disputed", Parties),
   Edge("DeliveryPending", "Completed", {"host", "system"}),
   Edge("DeliveryPending", "Disputed", {"host", "admin"}),
   Edge("Disputed", "Completed", {"admin"}),
   Edge("Disputed", "Cancelled", {"admin"})}

CanTransitionMut(from, to, actor) ==    \* mutant: the table is looked up by its target alone
  \E edge \in Transitions : edge.to = to /\ actor \in edge.actors

CanTransition(from, to, actor) ==
  \E edge \in Transitions : edge.from = from /\ edge.to = to /\ actor \in edge.actors

GuardMut(gig, to, ctx) ==    \* mutant: an accepted offer is enough to lock
  <<gig.state, to>> = <<"ApplicationsReview", "EscrowLocked">> => gig.offerAccepted

\* What the guards know: of the gig, whether its brief is complete, how many
\* applications it has and whether an offer is accepted; of the call, whether the
\* deposit is captured, how far the event is, and what the body carries.
Guard(gig, to, ctx) ==
  LET edge == <<gig.state, to>>
  IN /\ edge = <<"Draft", "Open">> => gig.briefComplete
     /\ edge = <<"Open", "ApplicationsReview">> => gig.applicationCount > 0
     /\ edge = <<"ApplicationsReview", "Open">> => ~gig.offerAccepted
     /\ edge = <<"ApplicationsReview", "EscrowLocked">> => gig.offerAccepted /\ ctx.depositFunded
     /\ edge = <<"EscrowLocked", "InTransit">> => ctx.hoursUntilEvent <= CallTimeWindowHours
     /\ edge = <<"EscrowLocked", "Cancelled">> => ctx.cancellationReason
     /\ edge = <<"InTransit", "Active">> => ctx.checkedInAtVenue

\* transition() returns rather than throws.
TransitionAllowed(gig, to, actor, ctx) ==
  CanTransition(gig.state, to, actor) /\ Guard(gig, to, ctx)

\* refundFraction, in percent
RefundPercent(hoursUntilEvent, cancelledBy) ==
  CASE cancelledBy = "vendor" -> 100
    [] cancelledBy # "vendor" /\ hoursUntilEvent >= 30 * 24 -> 100
    [] cancelledBy # "vendor" /\ hoursUntilEvent \in 14 * 24 .. 30 * 24 - 1 -> 75
    [] cancelledBy # "vendor" /\ hoursUntilEvent \in 7 * 24 .. 14 * 24 - 1 -> 50
    [] cancelledBy # "vendor" /\ hoursUntilEvent \in 48 .. 7 * 24 - 1 -> 25
    [] OTHER -> 0
=============================================================================
