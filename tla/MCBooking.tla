------------------------------ MODULE MCBooking ------------------------------
(***************************************************************************)
(* Booking for TLC: the values the booking_*.cfg files share.  The quote   *)
(* is a deposit of 1 and a balance of 2; the vendor's part is 2 of the 3.  *)
(***************************************************************************)
EXTENDS Booking, StripeErrors, TLC

\* A failed Stripe call is made again only if Stripe did not decide it: StripeErrors.
ASSUME StripeFailures == RetriesOnlyUndecided

MCTransfers == {ReleaseTransfer, DisputeTransfer}
MCRefs == DepositIntents \cup {BalanceIntent} \cup MCTransfers \cup {CancelRefund, DisputeRefund}

\* Every event names its escrow, as those of the tests do; or the events of one
\* deposit do not, or none does, as those the live gateway causes.
MCIntents == DepositIntents \cup {BalanceIntent}
AllButOneDeposit == MCIntents \ {CHOOSE i \in DepositIntents : TRUE}
NoIntent == {}

WorkerSymmetry == Permutations(Workers)

\* Rulings on nothing, on a deposit or the rest of a refund, and on the price.
AllSplits == {<<0, 0>>, <<1, 0>>, <<2, 1>>, <<0, 3>>}
FewSplits == {<<2, 1>>}

\* A booking whose two legs are captured, booked and answered for, with the gig
\* locked or delivered: where the requests that move money out begin.
FundedInit ==
  /\ \E d \in DepositIntents :
       LET paid == Record(Record([CreateEscrow EXCEPT !.deposit = d], d), BalanceIntent)
       IN /\ row = RowOf(paid)
          /\ ledger = paid.entries
          /\ intents = {d, BalanceIntent}
  /\ tokens = intents /\ charged = intents /\ acked = intents
  /\ gig \in {"EscrowLocked", "DeliveryPending"}
  /\ hoursLeft \in EventHours
  /\ transfers = [k \in Transfers |-> 0]
  /\ refunds = [k \in RefundKeys |-> NoRefund]
  /\ req = [w \in Workers |-> Idle]
  /\ crashes = 0

FundedSpec == FundedInit /\ [][Next]_vars
=============================================================================
