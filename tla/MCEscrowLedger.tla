--------------------------- MODULE MCEscrowLedger ---------------------------
(***************************************************************************)
(* EscrowLedger for TLC, and the check that the balances Escrow carries    *)
(* along are the folds escrow.ts computes.                                 *)
(***************************************************************************)
EXTENDS EscrowLedger

LOCAL INSTANCE Folds
LOCAL INSTANCE SequencesExt

MCRefs == Intents \cup Refunds \cup Payouts \cup Rulings

\* heldCents, capturedCents, refundedCents: the amounts of the entries of some types
SumOf(entries, types) ==
  MapThenFoldSet(LAMBDA a, b : a + b, 0,
                 LAMBDA i : entries[i].amount,
                 LAMBDA S : CHOOSE i \in S : TRUE,
                 {i \in DOMAIN entries : entries[i].type \in types})

\* Every ledger of three entries, as append() builds it; a hold is booked as 0.
Posts == (EntryTypes \ {"dispute_hold"}) \X {-2, -1, 1} \cup {<<"dispute_hold", 0>>}
Ledgers ==
  {FoldLeft(LAMBDA e, p : Post(e, p[1], p[2], NoRef), CreateEscrow, posts) :
     posts \in [1 .. 3 -> Posts]}

\* The balances carried in the record are the folds of the ledger that
\* heldCents, capturedCents and refundedCents (escrow.ts:76-90) compute.
ASSUME LedgerFolds ==
  \A e \in Ledgers :
    /\ e.captured = SumOf(e.entries, CaptureTypes)
    /\ e.refunded = -SumOf(e.entries, {"refund_issued"})
    /\ HeldCents(e) = SumOf(e.entries, EntryTypes)
=============================================================================
