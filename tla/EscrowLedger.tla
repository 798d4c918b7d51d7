----------------------------- MODULE EscrowLedger -----------------------------
(***************************************************************************)
(* One escrow under every sequence of calls of the functions of            *)
(* domain/escrow.ts, each call taken as one step (what two overlapping     *)
(* requests do to the stored row is the matter of Booking).  A call that   *)
(* throws leaves the escrow as it was and is a stuttering step.            *)
(*                                                                         *)
(* Inputs.  A PaymentIntent is created for exactly depositDue or           *)
(* balanceDue (payments.ts:111, 162), so a capture is never of more; it    *)
(* may be of less, which the code refuses.  The refund route skips a       *)
(* refund of zero (payments.ts:277).  The four kinds of call name Stripe   *)
(* objects made under idempotency keys of their own (deposit_ / balance_,  *)
(* refund_, release_, dispute_), so their ids are four disjoint sets.      *)
(***************************************************************************)
EXTENDS Escrow

CONSTANTS
  Intents,        \* PaymentIntents a webhook may report
  Refunds,        \* refunds of a cancellation
  Payouts,        \* transfers of a release
  Rulings,        \* the transfer and the refund of a dispute's resolution
  MaxEntries      \* bound: no dispute is opened on a ledger this long

ASSUME InputAssumption ==
  /\ Intents \subseteq Refs /\ Refunds \subseteq Refs
  /\ Payouts \subseteq Refs /\ Rulings \subseteq Refs
  /\ Intents \cap (Refunds \cup Payouts \cup Rulings) = {}
  /\ Refunds \cap (Payouts \cup Rulings) = {}
  /\ Payouts \cap Rulings = {}
  /\ MaxEntries \in Nat

VARIABLE escrow

Init == escrow = CreateEscrow

CaptureDeposit(amount, ref) ==
  /\ RecordDepositAllowed(escrow, amount, ref)
  /\ escrow' = RecordDeposit(escrow, amount, ref)

CaptureBalance(amount, ref) ==
  /\ RecordBalanceAllowed(escrow, amount, ref)
  /\ escrow' = RecordBalance(escrow, amount, ref)

ReleaseFunds(approval, transfer) ==
  /\ ReleaseAllowed(escrow, approval)
  /\ escrow' = Release(escrow, transfer)

RefundHost(amount, ref) ==
  /\ RefundAllowed(escrow, amount, ref)
  /\ escrow' = Refund(escrow, amount, ref)

RaiseDispute ==
  /\ OpenDisputeAllowed(escrow)
  /\ Len(escrow.entries) < MaxEntries
  /\ escrow' = OpenDispute(escrow)

Resolve(toVendor, toHost, transfer, refund) ==
  /\ ResolveDisputeAllowed(escrow, toVendor, toHost)
  /\ escrow' = ResolveDispute(escrow, toVendor, toHost, transfer, refund)

Next ==
  \/ \E ref \in Intents :
       \/ \E amount \in 0 .. DepositDue : CaptureDeposit(amount, ref)
       \/ \E amount \in 0 .. BalanceDue : CaptureBalance(amount, ref)
  \/ \E approval \in Approvals, transfer \in Payouts : ReleaseFunds(approval, transfer)
  \/ \E amount \in 1 .. HostTotal, ref \in Refunds : RefundHost(amount, ref)
  \/ RaiseDispute
  \/ \E toVendor, toHost \in 0 .. HostTotal, transfer, refund \in Rulings :
       transfer # refund /\ Resolve(toVendor, toHost, transfer, refund)

Spec == Init /\ [][Next]_escrow

-----------------------------------------------------------------------------
\* Properties

\* The type of the record, of every ledger row and of the balances.
TypeOK == escrow \in EscrowRecords

\* No sequence of calls reaches an escrow on which assertLedgerBalances
\* (escrow.ts:326-363) throws: the check the handlers make before each save is
\* a backstop that never fires while calls do not overlap.
LedgerBalances == AssertLedgerBalances(escrow)

\* No Stripe object is booked twice, whatever is retried or redelivered: the
\* replay check of the recording functions, transferId in release and the state
\* check in resolveDispute are between them enough.
RefsBookedOnce ==
  \A i, j \in DOMAIN escrow.entries :
    escrow.entries[i].ref = escrow.entries[j].ref /\ escrow.entries[i].ref # NoRef => i = j

\* A release (payout and commission, escrow.ts:212-213) takes the price exactly
\* as quoted and is the only outflow there ever is: nothing of the money was
\* refunded before it and nothing is refunded after it.
ReleaseIsWhole ==
  escrow.transfer # NoRef =>
    /\ escrow.captured = HostTotal
    /\ escrow.released = HostTotal
    /\ escrow.refunded = 0

\* Closed is closed: from Released and from Refunded no call, in any order,
\* posts another row or changes the state again.
ClosedIsFinal ==
  [][escrow.state \in {"Released", "Refunded"} => escrow' = escrow]_escrow

\* The escrow keeps the promise of Vault, its balances read off the ledger.
V == INSTANCE Vault WITH
       Price <- HostTotal,
       taken <- escrow.captured,
       returned <- escrow.refunded,
       paid <- escrow.released,
       open <- escrow.state \notin {"Released", "Refunded"}

\* EscrowLedger implements Vault: an escrow takes money in, gives it back, pays
\* it out whole or splits what a dispute leaves, and does nothing else.
KeepsVault == V!Spec
=============================================================================
