--------------------------- MODULE EscrowLedgerProofs ---------------------------
(***************************************************************************)
(* Proofs about EscrowLedger, for every quote, every set of Stripe ids and *)
(* every bound on the ledger.                                              *)
(*                                                                         *)
(* AssertLedgerBalances is not inductive: that a Released escrow is empty  *)
(* follows only from what its predecessor FullyFunded has captured, and    *)
(* that from what DepositHeld has.  StateStory says, state by state, what  *)
(* the balances and the transfer id are; RefStory which Stripe ids the     *)
(* ledger can mention in which state.                                      *)
(***************************************************************************)
EXTENDS EscrowLedger, TLAPS

\* What each state says of the balances and of transferId.
StateStory ==
  /\ escrow.captured \in {0, DepositDue, HostTotal}
  /\ escrow.refunded >= 0 /\ escrow.released >= 0
  /\ HeldCents(escrow) >= 0
  /\ escrow.state \in {"AwaitingDeposit", "DepositHeld", "FullyFunded"} =>
       OutflowOf(escrow) = 0
  /\ escrow.state = "AwaitingDeposit" => escrow.captured = 0
  /\ escrow.state = "DepositHeld" => escrow.captured = DepositDue
  /\ escrow.state = "FullyFunded" => escrow.captured = HostTotal
  /\ escrow.state \in {"Released", "Refunded"} => HeldCents(escrow) = 0
  /\ escrow.state # "Released" => escrow.released = 0 /\ escrow.transfer = NoRef
  /\ escrow.state \notin {"Initiated", "ReleasePending"}

Spent == escrow.state \in {"Released", "Refunded"}

\* Which ids a ledger may mention: a payout's only once transferId is set, a
\* ruling's only once the dispute is closed.
Story(s, paid, spent) ==
  \A i \in DOMAIN s :
    /\ s[i].ref \in Payouts => paid
    /\ s[i].ref \in Rulings => spent

RefStory == Story(escrow.entries, escrow.transfer # NoRef, Spent)

IInv == TypeOK /\ StateStory /\ RefStory /\ RefsBookedOnce /\ ReleaseIsWhole

\* A step of the ledger as Vault sees it.
VaultStep == [V!Next]_(V!vars)

-----------------------------------------------------------------------------
\* Facts about the operators of Escrow

\* What posting a row does to a ledger: the type is kept, the fields other than
\* the entries and the balances are kept, and exactly one balance moves.
LEMMA PostFacts ==
  ASSUME NEW e \in EscrowRecords, NEW type \in EntryTypes, NEW amount \in Int,
         NEW ref \in Refs \cup {NoRef}
  PROVE  LET p == Post(e, type, amount, ref) IN
         /\ p \in EscrowRecords
         /\ p.state = e.state /\ p.transfer = e.transfer
         /\ p.deposit = e.deposit /\ p.balance = e.balance
         /\ p.entries = Append(e.entries, [type |-> type, amount |-> amount, ref |-> ref])
         /\ p.captured = IF type \in CaptureTypes THEN e.captured + amount ELSE e.captured
         /\ p.refunded = IF type = "refund_issued" THEN e.refunded - amount ELSE e.refunded
         /\ p.released = IF type \in PayoutTypes THEN e.released - amount ELSE e.released
<1> DEFINE row == [type |-> type, amount |-> amount, ref |-> ref]
<1>1. row \in Entries
  BY DEF Entries
<1>2. Append(e.entries, row) \in Seq(Entries)
  BY <1>1 DEF EscrowRecords
<1> DEFINE p == Post(e, type, amount, ref)
           captured == IF type \in CaptureTypes THEN e.captured + amount ELSE e.captured
           refunded == IF type = "refund_issued" THEN e.refunded - amount ELSE e.refunded
           released == IF type \in PayoutTypes THEN e.released - amount ELSE e.released
<1>3. p = [e EXCEPT !.entries = Append(e.entries, row), !.captured = captured,
                     !.refunded = refunded, !.released = released]
  BY DEF Post
<1>4. captured \in Int /\ refunded \in Int /\ released \in Int
  BY DEF EscrowRecords
<1> HIDE DEF captured, refunded, released, row, p
<1>5. p \in EscrowRecords
  BY <1>2, <1>3, <1>4 DEF EscrowRecords
<1>6. /\ p.state = e.state /\ p.transfer = e.transfer
      /\ p.deposit = e.deposit /\ p.balance = e.balance
      /\ p.entries = Append(e.entries, row)
      /\ p.captured = captured /\ p.refunded = refunded /\ p.released = released
  BY <1>3 DEF EscrowRecords
<1>7. QED
  BY <1>5, <1>6 DEF captured, refunded, released, row, p

\* A capture adds to what was captured, and moves no other balance.
LEMMA PostCapture ==
  ASSUME NEW e \in EscrowRecords, NEW type \in CaptureTypes, NEW amount \in Int,
         NEW ref \in Refs \cup {NoRef}
  PROVE  LET p == Post(e, type, amount, ref) IN
         /\ p \in EscrowRecords /\ p.state = e.state /\ p.transfer = e.transfer
         /\ p.entries = Append(e.entries, [type |-> type, amount |-> amount, ref |-> ref])
         /\ p.captured = e.captured + amount /\ p.refunded = e.refunded
         /\ p.released = e.released
<1>1. /\ type \in EntryTypes
      /\ type \in CaptureTypes <=> TRUE
      /\ type = "refund_issued" <=> FALSE
      /\ type \in PayoutTypes <=> FALSE
  BY DEF EntryTypes, CaptureTypes, PayoutTypes
<1>2. QED
  BY <1>1, PostFacts

\* A refund row adds to what was refunded only.
LEMMA PostRefund ==
  ASSUME NEW e \in EscrowRecords, NEW type \in {"refund_issued"}, NEW amount \in Int,
         NEW ref \in Refs \cup {NoRef}
  PROVE  LET p == Post(e, type, amount, ref) IN
         /\ p \in EscrowRecords /\ p.state = e.state /\ p.transfer = e.transfer
         /\ p.entries = Append(e.entries, [type |-> type, amount |-> amount, ref |-> ref])
         /\ p.captured = e.captured /\ p.refunded = e.refunded - amount
         /\ p.released = e.released
<1>1. /\ type \in EntryTypes
      /\ type \in CaptureTypes <=> FALSE
      /\ type = "refund_issued" <=> TRUE
      /\ type \in PayoutTypes <=> FALSE
  BY DEF EntryTypes, CaptureTypes, PayoutTypes
<1>2. QED
  BY <1>1, PostFacts

\* A payout, a commission or a ruling adds to what was released only.
LEMMA PostPayout ==
  ASSUME NEW e \in EscrowRecords, NEW type \in PayoutTypes, NEW amount \in Int,
         NEW ref \in Refs \cup {NoRef}
  PROVE  LET p == Post(e, type, amount, ref) IN
         /\ p \in EscrowRecords /\ p.state = e.state /\ p.transfer = e.transfer
         /\ p.entries = Append(e.entries, [type |-> type, amount |-> amount, ref |-> ref])
         /\ p.captured = e.captured /\ p.refunded = e.refunded
         /\ p.released = e.released - amount
<1>1. /\ type \in EntryTypes
      /\ type \in CaptureTypes <=> FALSE
      /\ type = "refund_issued" <=> FALSE
      /\ type \in PayoutTypes <=> TRUE
  BY DEF EntryTypes, CaptureTypes, PayoutTypes
<1>2. QED
  BY <1>1, PostFacts

\* A dispute moves no balance.
LEMMA PostHold ==
  ASSUME NEW e \in EscrowRecords, NEW type \in {"dispute_hold"}, NEW amount \in Int,
         NEW ref \in Refs \cup {NoRef}
  PROVE  LET p == Post(e, type, amount, ref) IN
         /\ p \in EscrowRecords /\ p.state = e.state /\ p.transfer = e.transfer
         /\ p.entries = Append(e.entries, [type |-> type, amount |-> amount, ref |-> ref])
         /\ p.captured = e.captured /\ p.refunded = e.refunded
         /\ p.released = e.released
<1>1. /\ type \in EntryTypes
      /\ type \in CaptureTypes <=> FALSE
      /\ type = "refund_issued" <=> FALSE
      /\ type \in PayoutTypes <=> FALSE
  BY DEF EntryTypes, CaptureTypes, PayoutTypes
<1>2. QED
  BY <1>1, PostFacts

\* A new row leaves the earlier ones where they were.
LEMMA AppendRows ==
  ASSUME NEW s \in Seq(Entries), NEW row \in Entries
  PROVE  /\ DOMAIN Append(s, row) = DOMAIN s \cup {Len(s) + 1}
         /\ Len(s) + 1 \notin DOMAIN s
         /\ Append(s, row)[Len(s) + 1] = row
         /\ \A i \in DOMAIN s : Append(s, row)[i] = s[i]
OBVIOUS

\* The balances of a quote.
LEMMA QuoteFacts ==
  /\ HostTotal \in Int /\ HostTotal > 0
  /\ DepositDue \in Int /\ 0 <= DepositDue /\ DepositDue <= HostTotal
  /\ VendorPayout \in Int /\ 0 <= VendorPayout /\ VendorPayout <= HostTotal
BY QuoteAssumption

\* RefsBookedOnce, as a predicate on a ledger.
Once(s) ==
  \A i, j \in DOMAIN s : s[i].ref = s[j].ref /\ s[i].ref # NoRef => i = j

\* A row with an id the ledger does not hold, or with none, keeps ids unique.
LEMMA FreshRow ==
  ASSUME NEW s \in Seq(Entries), NEW row \in Entries, Once(s),
         row.ref = NoRef \/ \A i \in DOMAIN s : s[i].ref # row.ref
  PROVE  Once(Append(s, row))
<1> DEFINE t == Append(s, row)
<1>1. /\ DOMAIN t = DOMAIN s \cup {Len(s) + 1}
      /\ Len(s) + 1 \notin DOMAIN s
      /\ t[Len(s) + 1] = row
      /\ \A i \in DOMAIN s : t[i] = s[i]
  BY AppendRows
<1> HIDE DEF t
<1>2. Once(t)
  BY <1>1 DEF Once
<1>3. QED
  BY <1>2 DEF t

\* A row whose id the new escrow accounts for keeps the story.
LEMMA TellingRow ==
  ASSUME NEW s \in Seq(Entries), NEW row \in Entries, NEW paid \in BOOLEAN, NEW spent \in BOOLEAN,
         Story(s, paid, spent), row.ref \in Payouts => paid, row.ref \in Rulings => spent
  PROVE  Story(Append(s, row), paid, spent)
<1> DEFINE t == Append(s, row)
<1>1. /\ DOMAIN t = DOMAIN s \cup {Len(s) + 1}
      /\ t[Len(s) + 1] = row
      /\ \A i \in DOMAIN s : t[i] = s[i]
  BY AppendRows
<1> HIDE DEF t
<1>2. Story(t, paid, spent)
  BY <1>1 DEF Story
<1>3. QED
  BY <1>2 DEF t

-----------------------------------------------------------------------------
\* Each call of a domain function preserves the inductive invariant

LEMMA InitIInv == Init => IInv
<1> SUFFICES ASSUME Init PROVE IInv
  OBVIOUS
<1>1. escrow.entries = <<>> /\ escrow.state = "AwaitingDeposit" /\ escrow.transfer = NoRef
      /\ escrow.captured = 0 /\ escrow.refunded = 0 /\ escrow.released = 0
  BY DEF Init, CreateEscrow
<1>2. TypeOK
  BY DEF Init, CreateEscrow, TypeOK, EscrowRecords, EscrowStates
<1>3. StateStory
  BY <1>1, QuoteFacts DEF StateStory, HeldCents, OutflowOf
<1>4. RefStory /\ RefsBookedOnce /\ ReleaseIsWhole
  BY <1>1 DEF RefStory, Story, RefsBookedOnce, ReleaseIsWhole
<1>5. QED
  BY <1>2, <1>3, <1>4 DEF IInv

\* A call that returns the escrow it was given.
LEMMA NoOp == ASSUME IInv, escrow' = escrow PROVE IInv' /\ VaultStep
BY DEF VaultStep, V!vars, IInv, TypeOK, StateStory, RefStory, Story, RefsBookedOnce, ReleaseIsWhole, Spent,
       HeldCents, OutflowOf

LEMMA CaptureDepositStep ==
  ASSUME IInv, NEW ref \in Intents, NEW amount \in 0 .. DepositDue, CaptureDeposit(amount, ref)
  PROVE  IInv' /\ VaultStep
<1>1. CASE Booked(escrow, ref)
  BY <1>1, NoOp DEF CaptureDeposit, RecordDeposit
<1>2. CASE ~Booked(escrow, ref)
  <2> DEFINE tied == [escrow EXCEPT !.deposit = ref]
             row == [type |-> "deposit_captured", amount |-> amount, ref |-> ref]
             posted == Post(tied, "deposit_captured", amount, ref)
             next == IF posted.captured >= HostTotal THEN "FullyFunded" ELSE "DepositHeld"
  <2>1. /\ escrow.state = "AwaitingDeposit" /\ amount = DepositDue
        /\ escrow' = [posted EXCEPT !.state = next]
    BY <1>2, QuoteFacts DEF CaptureDeposit, RecordDepositAllowed, RecordDeposit
  <2>2. /\ escrow \in EscrowRecords /\ ref \in Refs /\ row \in Entries
        /\ escrow.captured = 0 /\ escrow.refunded = 0 /\ escrow.released = 0
        /\ escrow.transfer = NoRef
    BY <2>1, InputAssumption, QuoteFacts
       DEF IInv, TypeOK, StateStory, HeldCents, OutflowOf, EscrowRecords,
           Entries, EntryTypes, CaptureTypes
  <2>3. /\ tied \in EscrowRecords /\ tied.state = "AwaitingDeposit"
        /\ tied.captured = 0 /\ tied.refunded = 0 /\ tied.released = 0
        /\ tied.transfer = NoRef /\ tied.entries = escrow.entries
    BY <2>1, <2>2 DEF EscrowRecords
  <2> HIDE DEF tied
  <2>4. /\ posted \in EscrowRecords /\ posted.transfer = NoRef
        /\ posted.entries = Append(escrow.entries, row)
        /\ posted.captured = DepositDue /\ posted.refunded = 0 /\ posted.released = 0
    <3>1. "deposit_captured" \in CaptureTypes /\ amount \in Int
      BY <2>1, QuoteFacts DEF CaptureTypes
    <3>2. QED
      BY <2>1, <2>2, <2>3, <3>1, PostCapture
  <2> HIDE DEF posted
  <2>5. /\ TypeOK' /\ escrow'.state = next /\ escrow'.transfer = NoRef
        /\ escrow'.entries = Append(escrow.entries, row)
        /\ escrow'.captured = DepositDue /\ escrow'.refunded = 0 /\ escrow'.released = 0
    BY <2>1, <2>4 DEF TypeOK, EscrowRecords, EscrowStates
  <2>6. StateStory'
    BY <2>4, <2>5, QuoteFacts DEF StateStory, HeldCents, OutflowOf
  <2>7. RefStory' /\ RefsBookedOnce'
    <3>1. /\ escrow.entries \in Seq(Entries) /\ row.ref = ref
          /\ Once(escrow.entries) /\ \A i \in DOMAIN escrow.entries : escrow.entries[i].ref # ref
      BY <1>2, <2>2 DEF EscrowRecords, Once, IInv, RefsBookedOnce, Booked
    <3>2. Once(Append(escrow.entries, row))
      BY <2>2, <3>1, FreshRow
    <3>3. Story(escrow.entries, FALSE, FALSE) /\ ref \notin Payouts /\ ref \notin Rulings
      BY <2>1, <2>2, InputAssumption DEF IInv, RefStory, Story, Spent
    <3>4. Story(Append(escrow.entries, row), FALSE, FALSE)
      BY <2>2, <3>1, <3>3, TellingRow
    <3>5. QED
      BY <2>5, <3>2, <3>4 DEF Once, RefsBookedOnce, RefStory, Story
  <2>8. VaultStep
    <3>1. V!Take(amount)
      BY <2>1, <2>2, <2>4, <2>5, QuoteFacts DEF V!Take
    <3>2. amount \in 0 .. HostTotal
      BY QuoteFacts
    <3>3. QED
      BY <3>1, <3>2 DEF VaultStep, V!Next
  <2>9. QED
    BY <2>5, <2>6, <2>7, <2>8 DEF IInv, ReleaseIsWhole
<1>3. QED
  BY <1>1, <1>2

LEMMA CaptureBalanceStep ==
  ASSUME IInv, NEW ref \in Intents, NEW amount \in 0 .. BalanceDue, CaptureBalance(amount, ref)
  PROVE  IInv' /\ VaultStep
<1>1. CASE Booked(escrow, ref)
  BY <1>1, NoOp DEF CaptureBalance, RecordBalance
<1>2. CASE ~Booked(escrow, ref)
  <2> DEFINE tied == [escrow EXCEPT !.balance = ref]
             row == [type |-> "balance_captured", amount |-> amount, ref |-> ref]
             posted == Post(tied, "balance_captured", amount, ref)
  <2>1. /\ escrow.state = "DepositHeld" /\ escrow.captured + amount >= HostTotal
        /\ escrow' = [posted EXCEPT !.state = "FullyFunded"]
    BY <1>2 DEF CaptureBalance, RecordBalanceAllowed, RecordBalance
  <2>2. /\ escrow \in EscrowRecords /\ ref \in Refs /\ row \in Entries /\ amount \in Int
        /\ escrow.captured = DepositDue /\ escrow.refunded = 0 /\ escrow.released = 0
        /\ escrow.transfer = NoRef
    BY <2>1, InputAssumption, QuoteFacts
       DEF IInv, TypeOK, StateStory, HeldCents, OutflowOf, EscrowRecords, BalanceDue,
           Entries, EntryTypes, CaptureTypes
  <2>3. /\ tied \in EscrowRecords
        /\ tied.captured = DepositDue /\ tied.refunded = 0 /\ tied.released = 0
        /\ tied.transfer = NoRef /\ tied.entries = escrow.entries
    BY <2>1, <2>2 DEF EscrowRecords
  <2> HIDE DEF tied
  <2>4. /\ posted \in EscrowRecords /\ posted.transfer = NoRef
        /\ posted.entries = Append(escrow.entries, row)
        /\ posted.captured = HostTotal /\ posted.refunded = 0 /\ posted.released = 0
    <3>1. "balance_captured" \in CaptureTypes
      BY DEF CaptureTypes
    <3>2. DepositDue + amount = HostTotal
      BY <2>1, <2>2, QuoteFacts DEF BalanceDue
    <3>3. QED
      BY <2>2, <2>3, <3>1, <3>2, PostCapture
  <2> HIDE DEF posted
  <2>5. /\ TypeOK' /\ escrow'.state = "FullyFunded" /\ escrow'.transfer = NoRef
        /\ escrow'.entries = Append(escrow.entries, row)
        /\ escrow'.captured = HostTotal /\ escrow'.refunded = 0 /\ escrow'.released = 0
    BY <2>1, <2>4 DEF TypeOK, EscrowRecords, EscrowStates
  <2>6. StateStory'
    BY <2>5, QuoteFacts DEF StateStory, HeldCents, OutflowOf
  <2>7. RefStory' /\ RefsBookedOnce'
    <3>1. /\ escrow.entries \in Seq(Entries) /\ row.ref = ref
          /\ Once(escrow.entries) /\ \A i \in DOMAIN escrow.entries : escrow.entries[i].ref # ref
      BY <1>2, <2>2 DEF EscrowRecords, Once, IInv, RefsBookedOnce, Booked
    <3>2. Once(Append(escrow.entries, row))
      BY <2>2, <3>1, FreshRow
    <3>3. Story(escrow.entries, FALSE, FALSE) /\ ref \notin Payouts /\ ref \notin Rulings
      BY <2>1, <2>2, InputAssumption DEF IInv, RefStory, Story, Spent
    <3>4. Story(Append(escrow.entries, row), FALSE, FALSE)
      BY <2>2, <3>1, <3>3, TellingRow
    <3>5. QED
      BY <2>5, <3>2, <3>4 DEF Once, RefsBookedOnce, RefStory, Story
  <2>8. VaultStep
    <3>1. DepositDue + amount = HostTotal
      BY <2>1, <2>2, QuoteFacts DEF BalanceDue
    <3>2. V!Take(amount)
      BY <2>1, <2>2, <2>5, <3>1, QuoteFacts DEF V!Take
    <3>3. amount \in 0 .. HostTotal
      BY QuoteFacts DEF BalanceDue
    <3>4. QED
      BY <3>2, <3>3 DEF VaultStep, V!Next
  <2>9. QED
    BY <2>5, <2>6, <2>7, <2>8 DEF IInv, ReleaseIsWhole
<1>3. QED
  BY <1>1, <1>2

LEMMA ReleaseFundsStep ==
  ASSUME IInv, NEW approval \in Approvals, NEW transfer \in Payouts,
         ReleaseFunds(approval, transfer)
  PROVE  IInv' /\ VaultStep
<1>1. CASE escrow.transfer # NoRef
  BY <1>1, NoOp DEF ReleaseFunds, Release
<1>2. CASE escrow.transfer = NoRef
  <2> DEFINE tied == [escrow EXCEPT !.transfer = transfer]
             row == [type |-> "payout_released", amount |-> -VendorPayout, ref |-> transfer]
             fee == [type |-> "commission_taken", amount |-> -PlatformRevenue, ref |-> NoRef]
             paid == Post(tied, "payout_released", -VendorPayout, transfer)
             posted == Post(paid, "commission_taken", -PlatformRevenue, NoRef)
  <2>1. /\ escrow.state \in {"FullyFunded", "ReleasePending"}
        /\ escrow' = [posted EXCEPT !.state = "Released"]
    BY <1>2 DEF ReleaseFunds, ReleaseAllowed, Release
  <2>2. /\ escrow \in EscrowRecords /\ transfer \in Refs /\ row \in Entries /\ fee \in Entries
        /\ -VendorPayout \in Int /\ -PlatformRevenue \in Int
        /\ escrow.captured = HostTotal /\ escrow.refunded = 0 /\ escrow.released = 0
        /\ escrow.state = "FullyFunded" /\ transfer # NoRef
    BY <2>1, InputAssumption, RefAssumption, QuoteFacts
       DEF IInv, TypeOK, StateStory, HeldCents, OutflowOf, EscrowRecords, PlatformRevenue,
           Entries, EntryTypes, PayoutTypes
  <2>3. /\ tied \in EscrowRecords
        /\ tied.captured = HostTotal /\ tied.refunded = 0 /\ tied.released = 0
        /\ tied.transfer = transfer /\ tied.entries = escrow.entries
    BY <2>2 DEF EscrowRecords
  <2> HIDE DEF tied
  <2>4. "payout_released" \in PayoutTypes /\ "commission_taken" \in PayoutTypes
    BY DEF PayoutTypes
  <2>5. /\ paid \in EscrowRecords /\ paid.transfer = transfer
        /\ paid.entries = Append(escrow.entries, row)
        /\ paid.captured = HostTotal /\ paid.refunded = 0 /\ paid.released = VendorPayout
    BY <2>2, <2>3, <2>4, PostPayout, QuoteFacts
  <2> HIDE DEF paid
  <2>6. /\ posted \in EscrowRecords /\ posted.transfer = transfer
        /\ posted.entries = Append(Append(escrow.entries, row), fee)
        /\ posted.captured = HostTotal /\ posted.refunded = 0 /\ posted.released = HostTotal
    <3>1. VendorPayout - (-PlatformRevenue) = HostTotal
      BY QuoteFacts DEF PlatformRevenue
    <3>2. QED
      BY <2>2, <2>4, <2>5, <3>1, PostPayout
  <2> HIDE DEF posted
  <2>7. /\ TypeOK' /\ escrow'.state = "Released" /\ escrow'.transfer = transfer
        /\ escrow'.entries = Append(Append(escrow.entries, row), fee)
        /\ escrow'.captured = HostTotal /\ escrow'.refunded = 0 /\ escrow'.released = HostTotal
    BY <2>1, <2>6 DEF TypeOK, EscrowRecords, EscrowStates
  <2>8. StateStory'
    BY <2>7, QuoteFacts DEF StateStory, HeldCents, OutflowOf
  <2>9. RefStory' /\ RefsBookedOnce'
    <3>1. /\ escrow.entries \in Seq(Entries) /\ row.ref = transfer /\ fee.ref = NoRef
          /\ Once(escrow.entries) /\ Story(escrow.entries, FALSE, FALSE)
      BY <1>2, <2>2 DEF EscrowRecords, Once, IInv, RefsBookedOnce, RefStory, Story, Spent
    <3>2. \A i \in DOMAIN escrow.entries : escrow.entries[i].ref # transfer
      BY <3>1 DEF Story
    <3>3. Append(escrow.entries, row) \in Seq(Entries)
      BY <2>2, <3>1
    <3>4. Once(Append(escrow.entries, row))
      BY <2>2, <3>1, <3>2, FreshRow
    <3>5. Once(Append(Append(escrow.entries, row), fee))
      BY <2>2, <3>1, <3>3, <3>4, FreshRow
    <3>6. Story(Append(Append(escrow.entries, row), fee), TRUE, TRUE)
      BY DEF Story
    <3>7. QED
      BY <2>2, <2>7, <3>5, <3>6 DEF Once, RefsBookedOnce, RefStory, Story, Spent
  <2>10. VaultStep
    <3>1. V!PayOut
      BY <2>2, <2>7 DEF V!PayOut
    <3>2. QED
      BY <3>1 DEF VaultStep, V!Next
  <2>11. QED
    BY <2>7, <2>8, <2>9, <2>10 DEF IInv, ReleaseIsWhole
<1>3. QED
  BY <1>1, <1>2

LEMMA RefundHostStep ==
  ASSUME IInv, NEW ref \in Refunds, NEW amount \in 1 .. HostTotal, RefundHost(amount, ref)
  PROVE  IInv' /\ VaultStep
<1>1. CASE Booked(escrow, ref)
  BY <1>1, NoOp DEF RefundHost, Refund
<1>2. CASE ~Booked(escrow, ref)
  <2> DEFINE row == [type |-> "refund_issued", amount |-> -amount, ref |-> ref]
             posted == Post(escrow, "refund_issued", -amount, ref)
             next == IF HeldCents(posted) = 0 THEN "Refunded" ELSE "PartiallyRefunded"
  <2>1. /\ escrow.state # "Released" /\ amount <= HeldCents(escrow)
        /\ escrow' = [posted EXCEPT !.state = next]
    BY <1>2 DEF RefundHost, RefundAllowed, Refund
  <2>2. /\ escrow \in EscrowRecords /\ ref \in Refs /\ row \in Entries /\ -amount \in Int
        /\ escrow.refunded >= 0 /\ escrow.released = 0
        /\ escrow.captured \in {0, DepositDue, HostTotal} /\ escrow.transfer = NoRef
    BY <2>1, InputAssumption, QuoteFacts
       DEF IInv, TypeOK, StateStory, EscrowRecords, Entries, EntryTypes
  <2>3. escrow.state \notin {"Refunded", "Released"}
    BY <2>1, QuoteFacts DEF IInv, StateStory
  <2>4. /\ posted \in EscrowRecords /\ posted.transfer = NoRef
        /\ posted.entries = Append(escrow.entries, row)
        /\ posted.captured = escrow.captured /\ posted.released = 0
        /\ posted.refunded = escrow.refunded + amount
    <3>1. escrow.refunded - (-amount) = escrow.refunded + amount
      BY <2>2, QuoteFacts DEF EscrowRecords
    <3>2. "refund_issued" \in {"refund_issued"} /\ ref \in Refs \cup {NoRef}
      BY <2>2
    <3>3. QED
      BY <2>2, <3>1, <3>2, PostRefund
  <2> HIDE DEF posted
  <2>5. /\ TypeOK' /\ escrow'.state = next /\ escrow'.transfer = NoRef
        /\ escrow'.entries = Append(escrow.entries, row)
        /\ escrow'.captured = escrow.captured /\ escrow'.released = 0
        /\ escrow'.refunded = escrow.refunded + amount
    BY <2>1, <2>4 DEF TypeOK, EscrowRecords, EscrowStates
  <2>6. StateStory'
    <3>1. /\ escrow.captured \in Int /\ escrow.refunded \in Int
          /\ amount <= escrow.captured - (escrow.refunded + 0)
      BY <2>1, <2>2 DEF EscrowRecords, HeldCents, OutflowOf
    <3>2. /\ HeldCents(escrow') >= 0
          /\ next = "Refunded" => HeldCents(escrow') = 0
      BY <2>4, <2>5, <3>1, QuoteFacts DEF HeldCents, OutflowOf
    <3>3. QED
      BY <2>2, <2>5, <3>1, <3>2, QuoteFacts DEF StateStory
  <2>7. RefStory' /\ RefsBookedOnce'
    <3>1. /\ escrow.entries \in Seq(Entries) /\ row.ref = ref
          /\ Once(escrow.entries) /\ \A i \in DOMAIN escrow.entries : escrow.entries[i].ref # ref
      BY <1>2, <2>2 DEF EscrowRecords, Once, IInv, RefsBookedOnce, Booked
    <3>2. Once(Append(escrow.entries, row))
      BY <2>2, <3>1, FreshRow
    <3>3. Story(escrow.entries, FALSE, FALSE) /\ ref \notin Payouts /\ ref \notin Rulings
      BY <2>2, <2>3, InputAssumption DEF IInv, RefStory, Story, Spent
    <3>4. Story(Append(escrow.entries, row), FALSE, FALSE)
      BY <2>2, <3>1, <3>3, TellingRow
    <3>5. QED
      BY <2>5, <3>2, <3>4 DEF Once, RefsBookedOnce, RefStory, Story
  <2>8. VaultStep
    <3>1. /\ escrow.captured \in Int /\ escrow.refunded \in Int
          /\ HeldCents(escrow) = escrow.captured - escrow.refunded
          /\ HeldCents(posted) = escrow.captured - escrow.refunded - amount
          /\ V!Left = escrow.captured - escrow.refunded
      BY <2>2, <2>4, QuoteFacts DEF EscrowRecords, HeldCents, OutflowOf, V!Left
    <3>2. next = "Refunded" <=> amount = V!Left
      BY <3>1, QuoteFacts
    <3>3. V!GiveBack(amount)
      BY <2>1, <2>2, <2>3, <2>5, <3>1, <3>2 DEF V!GiveBack
    <3>4. amount \in 0 .. HostTotal
      BY QuoteFacts
    <3>5. QED
      BY <3>3, <3>4 DEF VaultStep, V!Next
  <2>9. QED
    BY <2>5, <2>6, <2>7, <2>8 DEF IInv, ReleaseIsWhole
<1>3. QED
  BY <1>1, <1>2

LEMMA RaiseDisputeStep == ASSUME IInv, RaiseDispute PROVE IInv' /\ VaultStep
<1> DEFINE row == [type |-> "dispute_hold", amount |-> 0, ref |-> NoRef]
           posted == Post(escrow, "dispute_hold", 0, NoRef)
<1>1. /\ escrow.state \notin {"Released", "Refunded"}
      /\ escrow' = [posted EXCEPT !.state = "Disputed"]
  BY DEF RaiseDispute, OpenDisputeAllowed, OpenDispute
<1>2. /\ escrow \in EscrowRecords /\ row \in Entries
      /\ escrow.released = 0 /\ escrow.transfer = NoRef
  BY <1>1 DEF IInv, TypeOK, StateStory, Entries, EntryTypes
<1>3. /\ posted \in EscrowRecords /\ posted.transfer = NoRef
      /\ posted.entries = Append(escrow.entries, row)
      /\ posted.captured = escrow.captured /\ posted.released = 0
      /\ posted.refunded = escrow.refunded
  <2>1. "dispute_hold" \in {"dispute_hold"} /\ NoRef \in Refs \cup {NoRef} /\ 0 \in Int
    OBVIOUS
  <2>2. QED
    BY <1>2, <2>1, PostHold
<1> HIDE DEF posted
<1>4. /\ TypeOK' /\ escrow'.state = "Disputed" /\ escrow'.transfer = NoRef
      /\ escrow'.entries = Append(escrow.entries, row)
      /\ escrow'.captured = escrow.captured /\ escrow'.released = 0
      /\ escrow'.refunded = escrow.refunded
  BY <1>1, <1>3 DEF TypeOK, EscrowRecords, EscrowStates
<1>5. StateStory'
  BY <1>2, <1>4 DEF IInv, StateStory, HeldCents, OutflowOf
<1>6. RefStory' /\ RefsBookedOnce'
  <2>1. /\ escrow.entries \in Seq(Entries) /\ row.ref = NoRef
        /\ Once(escrow.entries) /\ Story(escrow.entries, FALSE, FALSE)
    BY <1>1, <1>2 DEF EscrowRecords, Once, IInv, RefsBookedOnce, RefStory, Story, Spent
  <2>2. NoRef \notin Payouts /\ NoRef \notin Rulings
    BY InputAssumption, RefAssumption
  <2>3. Once(Append(escrow.entries, row))
    BY <1>2, <2>1, FreshRow
  <2>4. Story(Append(escrow.entries, row), FALSE, FALSE)
    BY <1>2, <2>1, <2>2, TellingRow
  <2>5. QED
    BY <1>4, <2>3, <2>4 DEF Once, RefsBookedOnce, RefStory, Story
<1>7. VaultStep
  BY <1>1, <1>2, <1>4 DEF VaultStep, V!vars
<1>8. QED
  BY <1>4, <1>5, <1>6, <1>7 DEF IInv, ReleaseIsWhole

LEMMA ResolveStep ==
  ASSUME IInv, NEW toVendor \in 0 .. HostTotal, NEW toHost \in 0 .. HostTotal,
         NEW transfer \in Rulings, NEW refund \in Rulings, transfer # refund,
         Resolve(toVendor, toHost, transfer, refund)
  PROVE  IInv' /\ VaultStep
<1> DEFINE back == [type |-> "refund_issued", amount |-> -toHost, ref |-> refund]
           paid == [type |-> "dispute_released", amount |-> -toVendor, ref |-> transfer]
           hostPart == IF toHost > 0 THEN Post(escrow, "refund_issued", -toHost, refund)
                       ELSE escrow
           split == IF toVendor > 0
                      THEN Post(hostPart, "dispute_released", -toVendor, transfer)
                      ELSE hostPart
           next == IF toVendor > 0 THEN "Released" ELSE "Refunded"
<1>1. /\ escrow.state = "Disputed" /\ toVendor + toHost = HeldCents(escrow)
      /\ escrow' = [split EXCEPT !.state = next]
  BY DEF Resolve, ResolveDisputeAllowed, ResolveDispute
<1>2. /\ escrow \in EscrowRecords /\ back \in Entries /\ paid \in Entries
      /\ toHost \in Int /\ -toHost \in Int /\ toVendor \in Int /\ -toVendor \in Int
      /\ transfer \in Refs /\ refund \in Refs
      /\ escrow.released = 0 /\ escrow.transfer = NoRef
      /\ escrow.captured \in Int /\ escrow.refunded \in Int
      /\ escrow.captured \in {0, DepositDue, HostTotal} /\ escrow.refunded >= 0
  BY <1>1, InputAssumption, QuoteFacts
     DEF IInv, TypeOK, StateStory, EscrowRecords, Entries, EntryTypes, PayoutTypes
<1>3. /\ escrow.entries \in Seq(Entries)
      /\ Once(escrow.entries) /\ Story(escrow.entries, FALSE, FALSE)
  BY <1>1, <1>2 DEF EscrowRecords, Once, IInv, RefsBookedOnce, RefStory, Story, Spent
<1>4. \A i \in DOMAIN escrow.entries : escrow.entries[i].ref \notin Rulings
  BY <1>3 DEF Story
<1>5. transfer \notin Payouts /\ refund \notin Payouts
  BY InputAssumption
\* the host's part
<1>6. /\ hostPart \in EscrowRecords /\ hostPart.transfer = NoRef
      /\ hostPart.captured = escrow.captured /\ hostPart.released = 0
      /\ hostPart.refunded = escrow.refunded + toHost
      /\ Once(hostPart.entries) /\ Story(hostPart.entries, FALSE, TRUE)
      /\ \A i \in DOMAIN hostPart.entries : hostPart.entries[i].ref # transfer
  <2>1. CASE toHost > 0
    <3>1. "refund_issued" \in {"refund_issued"} /\ refund \in Refs \cup {NoRef}
      BY <1>2
    <3>2. escrow.refunded - (-toHost) = escrow.refunded + toHost
      BY <1>2
    <3>3. hostPart = Post(escrow, "refund_issued", -toHost, refund)
      BY <2>1
    <3>4. /\ hostPart \in EscrowRecords /\ hostPart.transfer = NoRef
          /\ hostPart.captured = escrow.captured /\ hostPart.released = 0
          /\ hostPart.refunded = escrow.refunded + toHost
          /\ hostPart.entries = Append(escrow.entries, back)
      BY <1>2, <3>1, <3>2, <3>3, PostRefund
    <3>5. Once(Append(escrow.entries, back))
      BY <1>2, <1>3, <1>4, FreshRow
    <3>6. Story(escrow.entries, FALSE, TRUE)
      BY <1>3 DEF Story
    <3>7. Story(Append(escrow.entries, back), FALSE, TRUE)
      BY <1>2, <1>3, <1>5, <3>6, TellingRow
    <3>8. \A i \in DOMAIN Append(escrow.entries, back) :
             Append(escrow.entries, back)[i].ref # transfer
      BY <1>2, <1>3, <1>4, AppendRows
    <3> HIDE DEF hostPart
    <3>9. QED
      BY <3>4, <3>5, <3>7, <3>8
  <2>2. CASE ~(toHost > 0)
    <3>1. hostPart = escrow /\ toHost = 0
      BY <2>2, QuoteFacts
    <3>2. Story(escrow.entries, FALSE, TRUE)
      BY <1>3 DEF Story
    <3>3. \A i \in DOMAIN escrow.entries : escrow.entries[i].ref # transfer
      BY <1>4
    <3>4. escrow.refunded = escrow.refunded + toHost
      BY <1>2, <3>1
    <3> HIDE DEF hostPart
    <3>5. QED
      BY <1>2, <1>3, <3>1, <3>2, <3>3, <3>4
  <2>3. QED
    BY <2>1, <2>2
<1> HIDE DEF hostPart
\* and the vendor's
<1>7. /\ split \in EscrowRecords /\ split.transfer = NoRef
      /\ split.captured = escrow.captured /\ split.released = toVendor
      /\ split.refunded = escrow.refunded + toHost
      /\ Once(split.entries) /\ Story(split.entries, FALSE, TRUE)
  <2>1. CASE toVendor > 0
    <3>1. "dispute_released" \in PayoutTypes /\ transfer \in Refs \cup {NoRef}
      BY <1>2 DEF PayoutTypes
    <3>2. 0 - (-toVendor) = toVendor
      BY <1>2
    <3>3. split = Post(hostPart, "dispute_released", -toVendor, transfer)
      BY <2>1
    <3>4. /\ split \in EscrowRecords /\ split.transfer = NoRef
          /\ split.captured = escrow.captured /\ split.released = toVendor
          /\ split.refunded = escrow.refunded + toHost
          /\ split.entries = Append(hostPart.entries, paid)
      BY <1>2, <1>6, <3>1, <3>2, <3>3, PostPayout
    <3>5. hostPart.entries \in Seq(Entries)
      BY <1>6 DEF EscrowRecords
    <3>6. Once(Append(hostPart.entries, paid))
      BY <1>2, <1>6, <3>5, FreshRow
    <3>7. Story(Append(hostPart.entries, paid), FALSE, TRUE)
      BY <1>2, <1>5, <1>6, <3>5, TellingRow
    <3> HIDE DEF split
    <3>8. QED
      BY <3>4, <3>6, <3>7
  <2>2. CASE ~(toVendor > 0)
    <3>1. split = hostPart /\ toVendor = 0
      BY <2>2, QuoteFacts
    <3>2. QED
      BY <1>6, <3>1
  <2>3. QED
    BY <2>1, <2>2
<1> HIDE DEF split
<1>8. /\ TypeOK' /\ escrow'.state = next /\ escrow'.transfer = NoRef
      /\ escrow'.entries = split.entries
      /\ escrow'.captured = escrow.captured /\ escrow'.released = toVendor
      /\ escrow'.refunded = escrow.refunded + toHost
  BY <1>1, <1>7 DEF TypeOK, EscrowRecords, EscrowStates
<1>9. StateStory'
  <2>1. HeldCents(escrow') = 0
    BY <1>1, <1>2, <1>8 DEF HeldCents, OutflowOf
  <2>2. QED
    BY <1>2, <1>8, <2>1, QuoteFacts DEF StateStory
<1>10. RefStory' /\ RefsBookedOnce'
  BY <1>7, <1>8 DEF Once, RefsBookedOnce, RefStory, Story, Spent
<1>11. VaultStep
  <2>1. V!Left = HeldCents(escrow)
    BY <1>2 DEF V!Left, HeldCents, OutflowOf
  <2>2. V!Rule(toVendor, toHost)
    BY <1>1, <1>2, <1>8, <2>1 DEF V!Rule
  <2>3. QED
    BY <2>2 DEF VaultStep, V!Next
<1>12. QED
  BY <1>8, <1>9, <1>10, <1>11 DEF IInv, ReleaseIsWhole

LEMMA NextIInv == ASSUME IInv, [Next]_escrow PROVE IInv' /\ VaultStep
<1>1. CASE UNCHANGED escrow
  BY <1>1, NoOp
<1>2. ASSUME NEW ref \in Intents, NEW amount \in 0 .. DepositDue, CaptureDeposit(amount, ref)
      PROVE  IInv' /\ VaultStep
  BY <1>2, CaptureDepositStep
<1>3. ASSUME NEW ref \in Intents, NEW amount \in 0 .. BalanceDue, CaptureBalance(amount, ref)
      PROVE  IInv' /\ VaultStep
  BY <1>3, CaptureBalanceStep
<1>4. ASSUME NEW approval \in Approvals, NEW transfer \in Payouts,
             ReleaseFunds(approval, transfer)
      PROVE  IInv' /\ VaultStep
  BY <1>4, ReleaseFundsStep
<1>5. ASSUME NEW amount \in 1 .. HostTotal, NEW ref \in Refunds, RefundHost(amount, ref)
      PROVE  IInv' /\ VaultStep
  BY <1>5, RefundHostStep
<1>6. CASE RaiseDispute
  BY <1>6, RaiseDisputeStep
<1>7. ASSUME NEW toVendor \in 0 .. HostTotal, NEW toHost \in 0 .. HostTotal,
             NEW transfer \in Rulings, NEW refund \in Rulings, transfer # refund,
             Resolve(toVendor, toHost, transfer, refund)
      PROVE  IInv' /\ VaultStep
  BY <1>7, ResolveStep
<1>8. QED
  BY <1>1, <1>2, <1>3, <1>4, <1>5, <1>6, <1>7 DEF Next

-----------------------------------------------------------------------------
\* The theorems

\* The inductive invariant holds throughout.
THEOREM Invariance == Spec => []IInv
<1>1. IInv /\ [Next]_escrow => IInv'
  BY NextIInv
<1>2. QED
  BY InitIInv, <1>1, PTL DEF Spec

\* The record, every ledger row and every balance keep their types.
THEOREM TypeCorrect == Spec => []TypeOK
<1>1. IInv => TypeOK
  BY DEF IInv
<1>2. QED
  BY Invariance, <1>1, PTL

\* assertLedgerBalances (escrow.ts:326-363) never throws, whatever the quote
\* and whatever the sequence of calls.
THEOREM LedgerAlwaysBalances == Spec => []LedgerBalances
<1>1. IInv => LedgerBalances
  <2> SUFFICES ASSUME IInv PROVE LedgerBalances
    OBVIOUS
  <2>1. /\ escrow.captured \in Int /\ escrow.refunded \in Int /\ escrow.released \in Int
        /\ escrow.state \in EscrowStates
    BY DEF IInv, TypeOK, EscrowRecords
  <2>2. escrow.captured <= HostTotal
    BY QuoteFacts DEF IInv, StateStory
  <2>3. OutflowOf(escrow) > 0 => escrow.state \in OutflowStates
    BY <2>1 DEF IInv, StateStory, EscrowStates, OutflowStates
  <2>4. QED
    BY <2>1, <2>2, <2>3
       DEF IInv, StateStory, LedgerBalances, AssertLedgerBalances, HeldCents, OutflowOf
<1>2. QED
  BY Invariance, <1>1, PTL

\* No Stripe object is ever booked twice.
THEOREM RefsAlwaysBookedOnce == Spec => []RefsBookedOnce
<1>1. IInv => RefsBookedOnce
  BY DEF IInv
<1>2. QED
  BY Invariance, <1>1, PTL

\* A release is of the whole price and is the only outflow.
THEOREM ReleaseAlwaysWhole == Spec => []ReleaseIsWhole
<1>1. IInv => ReleaseIsWhole
  BY DEF IInv
<1>2. QED
  BY Invariance, <1>1, PTL

\* From a closed escrow every call is a no-op or throws.
LEMMA ClosedStep ==
  ASSUME IInv, Next, escrow.state \in {"Released", "Refunded"}
  PROVE  escrow' = escrow
<1>1. ASSUME NEW ref \in Intents, NEW amount, CaptureDeposit(amount, ref)
      PROVE  escrow' = escrow
  BY <1>1 DEF CaptureDeposit, RecordDepositAllowed, RecordDeposit
<1>2. ASSUME NEW ref \in Intents, NEW amount, CaptureBalance(amount, ref)
      PROVE  escrow' = escrow
  BY <1>2 DEF CaptureBalance, RecordBalanceAllowed, RecordBalance
<1>3. ASSUME NEW approval \in Approvals, NEW transfer \in Payouts,
             ReleaseFunds(approval, transfer)
      PROVE  escrow' = escrow
  BY <1>3 DEF ReleaseFunds, ReleaseAllowed, Release
<1>4. ASSUME NEW amount \in 1 .. HostTotal, NEW ref \in Refunds, RefundHost(amount, ref)
      PROVE  escrow' = escrow
  <2>1. HeldCents(escrow) = 0 /\ amount > 0
    BY QuoteFacts DEF IInv, StateStory
  <2>2. QED
    BY <1>4, <2>1, QuoteFacts DEF RefundHost, RefundAllowed, Refund
<1>5. ~RaiseDispute
  BY DEF RaiseDispute, OpenDisputeAllowed
<1>6. ASSUME NEW toVendor, NEW toHost, NEW transfer, NEW refund
      PROVE  ~Resolve(toVendor, toHost, transfer, refund)
  BY DEF Resolve, ResolveDisputeAllowed
<1>7. QED
  BY <1>1, <1>2, <1>3, <1>4, <1>5, <1>6 DEF Next

\* Released and Refunded are final: the whole escrow is frozen, ledger included.
THEOREM ClosedStaysClosed == Spec => ClosedIsFinal
<1>1. IInv /\ [Next]_escrow => [escrow.state \in {"Released", "Refunded"} => escrow' = escrow]_escrow
  BY ClosedStep
<1>2. QED
  BY Invariance, <1>1, PTL DEF Spec, ClosedIsFinal

\* The ledger implements Vault: for every quote, money is taken in, given back,
\* paid out whole or split by a ruling, and moves in no other way.
THEOREM LedgerKeepsVault == Spec => KeepsVault
<1>1. Init => V!Init
  BY DEF Init, CreateEscrow, V!Init
<1>2. IInv /\ [Next]_escrow => [V!Next]_(V!vars)
  BY NextIInv DEF VaultStep
<1>3. QED
  BY Invariance, <1>1, <1>2, PTL DEF Spec, KeepsVault, V!Spec
=============================================================================
