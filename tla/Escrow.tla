------------------------------- MODULE Escrow --------------------------------
(***************************************************************************)
(* The escrow of one booking and the functions that move it, as            *)
(* domain/escrow.ts defines them: a state, the ids of the Stripe objects   *)
(* it is tied to, and an append-only ledger.  Each exported function is a  *)
(* pair of operators here: <Name>Allowed holds when the function returns   *)
(* (its no-op returns included) rather than throws, and <Name> is the      *)
(* escrow it returns.                                                      *)
(*                                                                         *)
(* The code folds the ledger whenever it needs a balance.  The record      *)
(* carries those folds along (captured, refunded, released), so that no    *)
(* operator is recursive; LedgerFolds in MCEscrowLedger checks that they   *)
(* are the folds of the entries.                                           *)
(***************************************************************************)
EXTENDS Integers, Sequences

CONSTANTS
  HostTotal,      \* quote.hostTotal: what the host pays in all
  DepositDue,     \* quote.depositDue: the part taken to lock the booking
  VendorPayout,   \* quote.vendorPayout: what the vendor gets on release
  Refs,           \* ids of Stripe objects
  NoRef           \* an absent id

\* The identities of a Quote (domain/money.ts, and the CHECKs of the escrows
\* table): both splits of the total are splits into non-negative parts.
ASSUME QuoteAssumption ==
  /\ HostTotal \in Nat \ {0}
  /\ DepositDue \in 0 .. HostTotal
  /\ VendorPayout \in 0 .. HostTotal

ASSUME RefAssumption == NoRef \notin Refs

BalanceDue == HostTotal - DepositDue
PlatformRevenue == HostTotal - VendorPayout

EscrowStates ==
  {"Initiated", "AwaitingDeposit", "DepositHeld", "FullyFunded", "ReleasePending",
   "Released", "PartiallyRefunded", "Refunded", "Disputed"}

CaptureTypes == {"deposit_captured", "balance_captured"}
PayoutTypes == {"payout_released", "commission_taken", "dispute_released"}
EntryTypes == CaptureTypes \cup PayoutTypes \cup {"refund_issued", "dispute_hold"}

Entries == [type : EntryTypes, amount : Int, ref : Refs \cup {NoRef}]

EscrowRecords ==
  [state : EscrowStates,
   deposit : Refs \cup {NoRef},
   balance : Refs \cup {NoRef},
   transfer : Refs \cup {NoRef},
   entries : Seq(Entries),
   captured : Int, refunded : Int, released : Int]

\* createEscrow
CreateEscrow ==
  [state |-> "AwaitingDeposit", deposit |-> NoRef, balance |-> NoRef,
   transfer |-> NoRef, entries |-> <<>>, captured |-> 0, refunded |-> 0, released |-> 0]

OutflowOf(e) == e.refunded + e.released
HeldCents(e) == e.captured - OutflowOf(e)

Post(e, type, amount, ref) ==
  [e EXCEPT !.entries = Append(@, [type |-> type, amount |-> amount, ref |-> ref]),
            !.captured = IF type \in CaptureTypes THEN @ + amount ELSE @,
            !.refunded = IF type = "refund_issued" THEN @ - amount ELSE @,
            !.released = IF type \in PayoutTypes THEN @ - amount ELSE @]

\* The replay check every recording function begins with.
Booked(e, ref) == \E i \in DOMAIN e.entries : e.entries[i].ref = ref

-----------------------------------------------------------------------------
\* recordDeposit

RecordDepositAllowed(e, amount, ref) ==
  \/ Booked(e, ref)
  \/ e.state = "AwaitingDeposit" /\ amount >= DepositDue

RecordDepositMut(e, amount, ref) ==    \* mutant: books the total, not the captured amount
  IF Booked(e, ref) THEN e
  ELSE LET posted == Post([e EXCEPT !.deposit = ref], "deposit_captured", HostTotal, ref)
       IN [posted EXCEPT !.state =
             IF posted.captured >= HostTotal THEN "FullyFunded" ELSE "DepositHeld"]

RecordDeposit(e, amount, ref) ==
  IF Booked(e, ref) THEN e
  ELSE LET posted == Post([e EXCEPT !.deposit = ref], "deposit_captured", amount, ref)
       IN [posted EXCEPT !.state =
             IF posted.captured >= HostTotal THEN "FullyFunded" ELSE "DepositHeld"]

\* recordBalance

RecordBalanceAllowed(e, amount, ref) ==
  \/ Booked(e, ref)
  \/ e.state = "DepositHeld" /\ e.captured + amount >= HostTotal

RecordBalance(e, amount, ref) ==
  IF Booked(e, ref) THEN e
  ELSE [Post([e EXCEPT !.balance = ref], "balance_captured", amount, ref)
          EXCEPT !.state = "FullyFunded"]

\* release; approval is the three booleans the callers pass

Approvals == [hostSignedOff : BOOLEAN, autoReleaseElapsed : BOOLEAN, deliveryConfirmed : BOOLEAN]

ReleaseAllowedMut(e, approval) ==    \* mutant: a held deposit is enough to release
  \/ e.transfer # NoRef
  \/ /\ e.state \in {"DepositHeld", "FullyFunded", "ReleasePending"}
     /\ approval.deliveryConfirmed
     /\ approval.hostSignedOff \/ approval.autoReleaseElapsed

ReleaseAllowed(e, approval) ==
  \/ e.transfer # NoRef
  \/ /\ e.state \in {"FullyFunded", "ReleasePending"}
     /\ approval.deliveryConfirmed
     /\ approval.hostSignedOff \/ approval.autoReleaseElapsed

Release(e, transfer) ==
  IF e.transfer # NoRef THEN e
  ELSE LET paid == Post([e EXCEPT !.transfer = transfer],
                        "payout_released", -VendorPayout, transfer)
       IN [Post(paid, "commission_taken", -PlatformRevenue, NoRef) EXCEPT !.state = "Released"]

\* refund

RefundAllowedMut(e, amount, ref) ==    \* mutant: the amount is not held against the balance
  e.state # "Released"

RefundAllowed(e, amount, ref) ==
  /\ e.state # "Released"
  /\ Booked(e, ref) \/ amount <= HeldCents(e)

RefundMut(e, amount, ref) ==    \* mutant: a replayed refund is booked again
  LET posted == Post(e, "refund_issued", -amount, ref)
  IN [posted EXCEPT !.state =
        IF HeldCents(posted) <= 0 THEN "Refunded" ELSE "PartiallyRefunded"]

Refund(e, amount, ref) ==
  IF Booked(e, ref) THEN e
  ELSE LET posted == Post(e, "refund_issued", -amount, ref)
       IN [posted EXCEPT !.state =
             IF HeldCents(posted) = 0 THEN "Refunded" ELSE "PartiallyRefunded"]

\* openDispute

OpenDisputeAllowedMut(e) == e.state # "Released"    \* mutant: a refunded escrow reopens

OpenDisputeAllowed(e) == e.state \notin {"Released", "Refunded"}

OpenDisputeMut(e) ==    \* mutant: a row type the ledger does not know
  [Post(e, "dispute_opened", 0, NoRef) EXCEPT !.state = "Disputed"]

OpenDispute(e) == [Post(e, "dispute_hold", 0, NoRef) EXCEPT !.state = "Disputed"]

\* resolveDispute

ResolveDisputeAllowedMut(e, toVendor, toHost) ==    \* mutant: a ruling may leave a rest
  /\ e.state = "Disputed"
  /\ toVendor + toHost <= HeldCents(e)

ResolveDisputeAllowed(e, toVendor, toHost) ==
  /\ e.state = "Disputed"
  /\ toVendor + toHost = HeldCents(e)

ResolveDisputeMut(e, toVendor, toHost, transfer, refund) ==    \* mutant: the ids swapped
  LET hostPart == IF toHost > 0 THEN Post(e, "refund_issued", -toHost, transfer) ELSE e
      split == IF toVendor > 0
                 THEN Post(hostPart, "dispute_released", -toVendor, refund)
                 ELSE hostPart
  IN [split EXCEPT !.state = IF toVendor > 0 THEN "Released" ELSE "Refunded"]

ResolveDispute(e, toVendor, toHost, transfer, refund) ==
  LET hostPart == IF toHost > 0 THEN Post(e, "refund_issued", -toHost, refund) ELSE e
      split == IF toVendor > 0
                 THEN Post(hostPart, "dispute_released", -toVendor, transfer)
                 ELSE hostPart
  IN [split EXCEPT !.state = IF toVendor > 0 THEN "Released" ELSE "Refunded"]

-----------------------------------------------------------------------------
\* assertLedgerBalances does not throw

OutflowStates == {"Released", "PartiallyRefunded", "Refunded", "Disputed"}

AssertLedgerBalances(e) ==
  /\ HeldCents(e) >= 0
  /\ OutflowOf(e) <= e.captured
  /\ e.captured <= HostTotal
  /\ OutflowOf(e) > 0 => e.state \in OutflowStates
  /\ e.state \in {"Released", "Refunded"} => HeldCents(e) = 0
  /\ e.state = "FullyFunded" => e.captured = HostTotal
=============================================================================
