------------------------------ MODULE MCOutbox ------------------------------
(***************************************************************************)
(* Outbox for TLC: the publication of a gig, two events in one unit of     *)
(* work, and a payment, whose event is published outside of its            *)
(* transaction and which one of the two handlers never takes.              *)
(***************************************************************************)
EXTENDS Outbox

CONSTANTS gig, payment, notify, audit

MCRequests == {gig, payment}
MCCount == [r \in MCRequests |-> IF r = gig THEN 2 ELSE 1]
MCSubscribers == {notify, audit}
MCDeaf == {<<notify, payment>>}
=============================================================================
