------------------------------- MODULE Booking -------------------------------
(***************************************************************************)
(* One booking from its accepted offer on: the requests of                 *)
(* http/routes/payments.ts and the transition route of                     *)
(* http/routes/gigs.ts, running concurrently over one escrow row, its      *)
(* ledger and one gig row in Postgres, and against Stripe.                 *)
(*                                                                         *)
(* A handler holds no lock and no transaction between two awaits, so every *)
(* statement, every transaction and every Stripe call is a step of its own *)
(* and other requests run in between on rows this one has already read.    *)
(* What a handler does in memory between two awaits belongs to the step    *)
(* before the second of them.  Errors answer the request and end it; a     *)
(* request may also be lost at any await (Crash).                          *)
(*                                                                         *)
(* Reads of users and profiles, which do not change here, are left out, as *)
(* are published events, the gig's history and its other columns.          *)
(***************************************************************************)
EXTENDS Escrow, GigLifecycle, FiniteSets

CONSTANTS
  Workers,            \* requests that can be in flight at the same time
  Ops,                \* the handlers this instance exercises
  DepositIntents,     \* PaymentIntents that can be made for the deposit
  BalanceIntent,      \* the PaymentIntent made under balance_<escrow>
  Named,              \* intents whose event names escrow and leg where the webhook looks
  ReleaseTransfer,    \* the transfer made under release_<escrow>
  DisputeTransfer,    \* the transfer made under dispute_transfer_<escrow>
  CancelRefund,       \* the refund made under refund_<escrow>
  DisputeRefund,      \* the refund made under dispute_refund_<escrow>
  EventHours,         \* the values the hours left to the event pass through
  NoRow,              \* the escrows table has no row for this gig
  Splits,             \* bound: the rulings an admin may send, as <<toVendor, toHost>>
  MaxEntries,         \* bound: no dispute starts on a ledger this long
  MaxCrashes          \* bound: requests lost in flight

Transfers == {ReleaseTransfer, DisputeTransfer}
RefundKeys == {CancelRefund, DisputeRefund}
Intents == DepositIntents \cup {BalanceIntent}

EscrowRows ==
  [state : EscrowStates, deposit : Refs \cup {NoRef}, balance : Refs \cup {NoRef},
   transfer : Refs \cup {NoRef}]

Handlers == {"fund", "balance", "webhook", "release", "sweep", "cancel", "dispute",
             "resolve", "transition"}

ASSUME BookingAssumption ==
  /\ Refs = Intents \cup Transfers \cup RefundKeys
  /\ BalanceIntent \notin DepositIntents
  /\ Intents \cap (Transfers \cup RefundKeys) = {}
  /\ Transfers \cap RefundKeys = {}
  /\ ReleaseTransfer # DisputeTransfer /\ CancelRefund # DisputeRefund
  /\ Named \subseteq Intents
  /\ Ops \subseteq Handlers
  /\ EventHours \subseteq Int
  /\ Splits \subseteq Nat \X Nat
  /\ MaxEntries \in Nat /\ MaxCrashes \in Nat
  /\ NoRow \notin EscrowRows

VARIABLES
  row,          \* the escrows row: state and Stripe ids, or NoRow
  ledger,       \* the ledger_entries rows, in order of their id
  gig,          \* the state column of the gigs row
  hoursLeft,    \* hours until the event
  intents,      \* PaymentIntents that exist at Stripe
  tokens,       \* PaymentIntents whose client token has reached the host
  charged,      \* PaymentIntents that succeeded
  acked,        \* succeeded PaymentIntents whose event was answered 2xx
  transfers,    \* Stripe: amount transferred under each key, 0 if none was
  refunds,      \* Stripe: refund made under each key, NoRefund if none was
  req,          \* what each worker is doing
  crashes       \* requests lost so far

rows == <<row, ledger, gig>>
money == <<intents, charged, transfers, refunds>>
vars == <<row, ledger, gig, hoursLeft, intents, tokens, charged, acked, transfers,
          refunds, req, crashes>>

-----------------------------------------------------------------------------
\* Stripe

NoRefund == [intent |-> NoRef, amount |-> 0]

\* What an intent charges (payments.ts:111, 162).
AmountOf(intent) == IF intent = BalanceIntent THEN BalanceDue ELSE DepositDue

RefundedOn(intent) ==
  LET part(key) == IF refunds[key].intent = intent THEN refunds[key].amount ELSE 0
  IN part(CancelRefund) + part(DisputeRefund)

\* What an intent still holds of its charge.
RefundableOn(intent) ==
  (IF intent \in charged THEN AmountOf(intent) ELSE 0) - RefundedOn(intent)

\* A call under a used key returns the first call's object if it asks for the
\* same again and is an error otherwise; a refund beyond the charge is refused.
TransferAccepted(key, amount) == transfers[key] \in {0, amount}

RefundAccepted(key, refund) ==
  \/ refunds[key] = refund
  \/ refunds[key] = NoRefund /\ refund.amount <= RefundableOn(refund.intent)

ChargedCents ==
  DepositDue * Cardinality(charged \cap DepositIntents)
    + BalanceDue * Cardinality(charged \cap {BalanceIntent})

-----------------------------------------------------------------------------
\* The tables

RowOf(e) == [state |-> e.state, deposit |-> e.deposit, balance |-> e.balance,
             transfer |-> e.transfer]

\* loadEscrow: the row's columns, the entries, and the balances their fold.
Load(r, entries) ==
  LET columns == [CreateEscrow EXCEPT !.state = r.state, !.deposit = r.deposit,
                                      !.balance = r.balance, !.transfer = r.transfer]
      after[n \in 0 .. Len(entries)] ==
        IF n = 0 THEN columns
        ELSE Post(after[n - 1], entries[n].type, entries[n].amount, entries[n].ref)
  IN after[Len(entries)]

\* The UNIQUE index on ledger_entries.stripe_ref accepts the new rows.
UniqueRefsMut(new) == TRUE    \* mutant: there is no such index

UniqueRefs(new) ==
  LET all == ledger \o new
  IN \A i, j \in DOMAIN all :
       i # j /\ all[i].ref = all[j].ref => all[i].ref = NoRef

\* appendLedger: entries.slice(alreadyWritten)
NewEntriesMut(e, alreadyWritten) ==    \* mutant: one row for each save
  IF Len(e.entries) > alreadyWritten THEN <<e.entries[Len(e.entries)]>> ELSE <<>>

NewEntries(e, alreadyWritten) ==
  SubSeq(e.entries, alreadyWritten + 1, Len(e.entries))

\* The gig as the guards see it: past publication, with an accepted offer.
GigIn(state) ==
  [state |-> state, briefComplete |-> TRUE, applicationCount |-> 1, offerAccepted |-> TRUE]

-----------------------------------------------------------------------------
\* Requests.  e and g are the snapshots of the escrow and the gig a request
\* works on, want the amounts it sends to either party, to the gig state it
\* drives to, ref the intent it is about, count the ledger rows save() counted.

NoWant == [toVendor |-> 0, toHost |-> 0]

Idle == [op |-> "none", at |-> "idle", by |-> "system", e |-> CreateEscrow,
         g |-> "Draft", want |-> NoWant, to |-> "Draft", ref |-> NoRef, count |-> 0]

Request(op, at, by) == [Idle EXCEPT !.op = op, !.at = at, !.by = by]

Begin(w, request) ==
  /\ req[w] = Idle
  /\ request.op \in Ops
  /\ req' = [req EXCEPT ![w] = request]

At(w, at) == req[w].at = at
Doing(w, ops) == req[w].op \in ops
GoTo(w, at) == req' = [req EXCEPT ![w].at = at]
\* The escrow is saved; the request needs its snapshot no more.
Saved(w, at) == req' = [req EXCEPT ![w] = [@ EXCEPT !.e = CreateEscrow, !.count = 0, !.at = at]]
End(w) == req' = [req EXCEPT ![w] = Idle]

\* The escrow function returned (or threw), assertLedgerBalances passed (or
\* threw): go on to save the result, or answer with the error.
SaveIf(w, allowed, result) ==
  IF allowed /\ AssertLedgerBalances(result)
    THEN req' = [req EXCEPT ![w].e = result, ![w].at = "count"]
    ELSE End(w)

Init ==
  /\ row = NoRow /\ ledger = <<>> /\ gig = "ApplicationsReview"
  /\ hoursLeft \in EventHours
  /\ intents = {} /\ tokens = {} /\ charged = {} /\ acked = {}
  /\ transfers = [k \in Transfers |-> 0]
  /\ refunds = [k \in RefundKeys |-> NoRefund]
  /\ req = [w \in Workers |-> Idle]
  /\ crashes = 0

-----------------------------------------------------------------------------
\* POST /v1/gigs/:gigId/escrow.  No guard on the gig's state; one escrow per gig
\* is left to the UNIQUE constraint on escrows.gig_id.  The idempotency key of the
\* PaymentIntent holds the id the request draws for its escrow, so every request
\* makes an intent of its own.

StartFund(w, i) ==
  /\ i \notin intents /\ \A v \in Workers : req[v].ref # i
  /\ Begin(w, [Request("fund", "escrow", "host") EXCEPT !.g = gig, !.ref = i])
  /\ UNCHANGED <<rows, money, hoursLeft, tokens, acked, crashes>>

FundLookup(w) ==
  /\ Doing(w, {"fund"}) /\ At(w, "escrow")
  /\ IF row = NoRow THEN GoTo(w, "intent") ELSE End(w)
  /\ UNCHANGED <<rows, money, hoursLeft, tokens, acked, crashes>>

FundIntent(w) ==
  /\ Doing(w, {"fund"}) /\ At(w, "intent")
  /\ intents' = intents \cup {req[w].ref}
  /\ req' = [req EXCEPT ![w].e.deposit = req[w].ref, ![w].at = "create"]
  /\ UNCHANGED <<rows, hoursLeft, tokens, charged, acked, transfers, refunds, crashes>>

FundCreateMut(w) ==    \* mutant: escrows.gig_id is not UNIQUE
  /\ Doing(w, {"fund"}) /\ At(w, "create")
  /\ row' = RowOf(req[w].e) /\ Saved(w, "save")
  /\ UNCHANGED <<ledger, gig, money, hoursLeft, tokens, acked, crashes>>

FundCreate(w) ==
  /\ Doing(w, {"fund"}) /\ At(w, "create")
  /\ IF row = NoRow
       THEN row' = RowOf(req[w].e) /\ Saved(w, "save")
       ELSE row' = row /\ End(w)
  /\ UNCHANGED <<ledger, gig, money, hoursLeft, tokens, acked, crashes>>

\* gigs.save with the gig as it was first read: only escrowId is new on it.
FundSaveGig(w) ==
  /\ Doing(w, {"fund"}) /\ At(w, "save")
  /\ gig' = req[w].g
  /\ req' = [req EXCEPT ![w].g = Idle.g, ![w].at = "respond"]
  /\ UNCHANGED <<row, ledger, money, hoursLeft, tokens, acked, crashes>>

\* POST /v1/gigs/:gigId/escrow/balance

StartBalance(w) ==
  /\ row # NoRow
  /\ row.state = "DepositHeld"
  /\ Begin(w, [Request("balance", "intent", "host") EXCEPT !.ref = BalanceIntent])
  /\ UNCHANGED <<rows, money, hoursLeft, tokens, acked, crashes>>

BalanceMakeIntent(w) ==
  /\ Doing(w, {"balance"}) /\ At(w, "intent")
  /\ intents' = intents \cup {BalanceIntent}
  /\ GoTo(w, "respond")
  /\ UNCHANGED <<rows, hoursLeft, tokens, charged, acked, transfers, refunds, crashes>>

\* The 201 carries the intent's client token.
Respond(w) ==
  /\ Doing(w, {"fund", "balance"}) /\ At(w, "respond")
  /\ tokens' = tokens \cup {req[w].ref}
  /\ End(w)
  /\ UNCHANGED <<rows, money, hoursLeft, acked, crashes>>

\* The host confirms the payment with Stripe; no route of the service is called.
Pay(i) ==
  /\ i \in tokens \ charged
  /\ charged' = charged \cup {i}
  /\ UNCHANGED <<rows, intents, transfers, refunds, hoursLeft, tokens, acked, req, crashes>>

-----------------------------------------------------------------------------
\* POST /v1/webhooks/stripe.  Stripe delivers an event at least once.  The handler
\* looks for escrowId and leg at the top of the event's object, where the tests put
\* them; the live gateway writes them into the intent's metadata (live.ts:174).

Found(i) == i \in Named /\ row # NoRow

Deliver(w, i) ==
  /\ i \in charged
  /\ Found(i)
  /\ Begin(w, [Request("webhook", "ledger", "system") EXCEPT !.e = Load(row, <<>>), !.ref = i])
  /\ UNCHANGED <<rows, money, hoursLeft, tokens, acked, crashes>>

\* An event without an escrow, or of an escrow that is not stored, is answered 200
\* and not acted on.
Dismiss(w, i) ==
  /\ i \in charged
  /\ ~ Found(i)
  /\ "webhook" \in Ops /\ req[w] = Idle
  /\ acked' = acked \cup {i}
  /\ UNCHANGED <<rows, money, hoursLeft, tokens, req, crashes>>

RecordAllowed(e, i) ==
  IF i = BalanceIntent THEN RecordBalanceAllowed(e, AmountOf(i), i)
                       ELSE RecordDepositAllowed(e, AmountOf(i), i)

Record(e, i) ==
  IF i = BalanceIntent THEN RecordBalance(e, AmountOf(i), i)
                       ELSE RecordDeposit(e, AmountOf(i), i)

\* The error is bad_state: a capture not booked yet that the state does not expect.
OutOfOrder(e, i) ==
  /\ ~ Booked(e, i)
  /\ e.state # (IF i = BalanceIntent THEN "DepositHeld" ELSE "AwaitingDeposit")

WebhookLedgerEarly(w) ==    \* mutant: the event is acknowledged on receipt
  /\ Doing(w, {"webhook"}) /\ At(w, "ledger")
  /\ LET i == req[w].ref
         e == Load(RowOf(req[w].e), ledger)
     IN /\ acked' = acked \cup {i}
        /\ SaveIf(w, RecordAllowed(e, i), Record(e, i))
  /\ UNCHANGED <<rows, money, hoursLeft, tokens, crashes>>

WebhookLedgerShort(w) ==    \* mutant: a booked capture is acknowledged at once
  /\ Doing(w, {"webhook"}) /\ At(w, "ledger")
  /\ LET i == req[w].ref
         e == Load(RowOf(req[w].e), ledger)
     IN IF OutOfOrder(e, i) \/ Booked(e, i)
          THEN acked' = acked \cup {i} /\ End(w)
          ELSE acked' = acked /\ SaveIf(w, RecordAllowed(e, i), Record(e, i))
  /\ UNCHANGED <<rows, money, hoursLeft, tokens, crashes>>

WebhookLedger(w) ==
  /\ Doing(w, {"webhook"}) /\ At(w, "ledger")
  /\ LET i == req[w].ref
         e == Load(RowOf(req[w].e), ledger)
     IN IF OutOfOrder(e, i)
          THEN acked' = acked \cup {i} /\ End(w)
          ELSE acked' = acked /\ SaveIf(w, RecordAllowed(e, i), Record(e, i))
  /\ UNCHANGED <<rows, money, hoursLeft, tokens, crashes>>

-----------------------------------------------------------------------------
\* The routes that start from the stored escrow

StartOn(w, op, by, want) ==
  /\ row # NoRow
  /\ Begin(w, [Request(op, "ledger", by) EXCEPT !.e = Load(row, <<>>), !.want = want])
  /\ UNCHANGED <<rows, money, hoursLeft, tokens, acked, crashes>>

ReleaseWant == [toVendor |-> VendorPayout, toHost |-> 0]

\* POST /v1/escrow/:escrowId/release, /cancel, /dispute, /resolve
StartRelease(w, by) == StartOn(w, "release", by, ReleaseWant)
StartCancel(w, by) == StartOn(w, "cancel", by, NoWant)
StartDispute(w, by) == Len(ledger) < MaxEntries /\ StartOn(w, "dispute", by, NoWant)
StartResolve(w, split) ==
  StartOn(w, "resolve", "admin", [toVendor |-> split[1], toHost |-> split[2]])

\* POST /v1/internal/escrow/auto-release.  The scheduler, which is not part of
\* the repository, calls for a gig it finds in DeliveryPending for long enough;
\* the call reaches the handler some time later.
StartSweep(w) ==
  /\ gig = "DeliveryPending"
  /\ row # NoRow
  /\ Begin(w, [Request("sweep", "row", "system") EXCEPT !.want = ReleaseWant])
  /\ UNCHANGED <<rows, money, hoursLeft, tokens, acked, crashes>>

SweepRow(w) ==
  /\ Doing(w, {"sweep"}) /\ At(w, "row")
  /\ req' = [req EXCEPT ![w].e = Load(row, <<>>), ![w].at = "ledger"]
  /\ UNCHANGED <<rows, money, hoursLeft, tokens, acked, crashes>>

\* The second statement of loadEscrow, and the way on to the next await.
ReadLedger(w) ==
  /\ Doing(w, {"release", "sweep", "cancel"}) /\ At(w, "ledger")
  /\ req' = [req EXCEPT ![w].e = Load(RowOf(@), ledger),
                        ![w].at = IF req[w].op = "sweep" THEN "transfer" ELSE "gig"]
  /\ UNCHANGED <<rows, money, hoursLeft, tokens, acked, crashes>>

DisputeLedger(w) ==
  /\ Doing(w, {"dispute"}) /\ At(w, "ledger")
  /\ LET e == Load(RowOf(req[w].e), ledger)
     IN IF OpenDisputeAllowed(e)
          THEN req' = [req EXCEPT ![w].e = OpenDispute(e), ![w].at = "count"]
          ELSE End(w)
  /\ UNCHANGED <<rows, money, hoursLeft, tokens, acked, crashes>>

ResolveLedger(w) ==
  /\ Doing(w, {"resolve"}) /\ At(w, "ledger")
  /\ LET e == Load(RowOf(req[w].e), ledger)
         want == req[w].want
     IN IF want = NoWant
          THEN SaveIf(w, ResolveDisputeAllowed(e, 0, 0), ResolveDispute(e, 0, 0, NoRef, NoRef))
          ELSE req' = [req EXCEPT ![w].e = e,
                                  ![w].at = IF want.toVendor > 0 THEN "transfer" ELSE "refund"]
  /\ UNCHANGED <<rows, money, hoursLeft, tokens, acked, crashes>>

\* Math.round(held * fraction)
RefundAmount(held, percent) == (held * percent + 50) \div 100

ReadGig(w) ==
  /\ Doing(w, {"release", "cancel"}) /\ At(w, "gig")
  /\ LET toHost == RefundAmount(HeldCents(req[w].e), RefundPercent(hoursLeft, req[w].by))
     IN IF req[w].op = "release"
          THEN IF gig = "DeliveryPending"
                 THEN req' = [req EXCEPT ![w].g = gig, ![w].at = "transfer"]
                 ELSE End(w)
          ELSE req' = [req EXCEPT ![w].g = gig, ![w].want.toHost = toHost,
                                  ![w].at = IF toHost > 0 THEN "refund" ELSE "save"]
  /\ UNCHANGED <<rows, money, hoursLeft, tokens, acked, crashes>>

-----------------------------------------------------------------------------
\* Money leaves at Stripe; then the domain decides whether it may.

TransferKey(op) == IF op = "resolve" THEN DisputeTransfer ELSE ReleaseTransfer
RefundKey(op) == IF op = "resolve" THEN DisputeRefund ELSE CancelRefund

\* What the callers of release() assert.
ApprovalOf(op) == [hostSignedOff |-> op = "release", autoReleaseElapsed |-> op = "sweep",
                   deliveryConfirmed |-> TRUE]

SaveRuling(w) ==
  LET want == req[w].want
      e == req[w].e
  IN SaveIf(w, ResolveDisputeAllowed(e, want.toVendor, want.toHost),
            ResolveDispute(e, want.toVendor, want.toHost, DisputeTransfer, DisputeRefund))

CallTransfer(w) ==
  /\ At(w, "transfer")
  /\ LET key == TransferKey(req[w].op)
         want == req[w].want
         e == req[w].e
     IN IF ~ TransferAccepted(key, want.toVendor)
          THEN End(w) /\ transfers' = transfers
          ELSE /\ transfers' = [transfers EXCEPT ![key] = want.toVendor]
               /\ CASE req[w].op # "resolve" ->
                         SaveIf(w, ReleaseAllowed(e, ApprovalOf(req[w].op)), Release(e, key))
                    [] req[w].op = "resolve" /\ want.toHost > 0 -> GoTo(w, "refund")
                    [] OTHER -> SaveRuling(w)
  /\ UNCHANGED <<rows, intents, charged, refunds, hoursLeft, tokens, acked, crashes>>

\* A cancellation refunds all of its amount on one intent: the balance's if there
\* is one (planRefund takes the balance first), else the deposit's.  A ruling
\* refunds on the deposit's.
RefundTarget(op, e) ==
  IF op = "cancel" /\ BalanceDue > 0 /\ e.balance # NoRef THEN e.balance ELSE e.deposit

RefundOf(w) == [intent |-> RefundTarget(req[w].op, req[w].e), amount |-> req[w].want.toHost]

CallRefund(w) ==
  /\ At(w, "refund")
  /\ LET key == RefundKey(req[w].op)
         e == req[w].e
         toHost == req[w].want.toHost
     IN IF ~ RefundAccepted(key, RefundOf(w))
          THEN End(w) /\ refunds' = refunds
          ELSE /\ refunds' = [refunds EXCEPT ![key] = RefundOf(w)]
               /\ IF req[w].op = "cancel"
                    THEN SaveIf(w, RefundAllowed(e, toHost, key), Refund(e, toHost, key))
                    ELSE SaveRuling(w)
  /\ UNCHANGED <<rows, intents, charged, transfers, hoursLeft, tokens, acked, crashes>>

-----------------------------------------------------------------------------
\* escrows.save: one transaction at READ COMMITTED.  It counts the stored entries
\* before its UPDATE takes the row's lock, so another save can commit in between;
\* from the UPDATE to the COMMIT it is alone.

CountLedger(w) ==
  /\ At(w, "count")
  /\ req' = [req EXCEPT ![w].count = Len(ledger), ![w].at = "commit"]
  /\ UNCHANGED <<rows, money, hoursLeft, tokens, acked, crashes>>

CommitEscrow(w) ==
  /\ At(w, "commit")
  /\ LET new == NewEntries(req[w].e, req[w].count)
     IN IF UniqueRefs(new)
          THEN /\ row' = RowOf(req[w].e)
               /\ ledger' = ledger \o new
               /\ Saved(w, IF Doing(w, {"release", "cancel"}) THEN "save" ELSE "regig")
          ELSE UNCHANGED <<row, ledger>> /\ End(w)
  /\ UNCHANGED <<gig, money, hoursLeft, tokens, acked, crashes>>

\* webhook, sweep, dispute and resolve read the gig only after the save; the first
\* two drive it only from one state.
RereadGig(w) ==
  /\ At(w, "regig")
  /\ LET due == CASE Doing(w, {"webhook"}) -> gig = "ApplicationsReview"
                  [] Doing(w, {"sweep"}) -> gig = "DeliveryPending"
                  [] OTHER -> TRUE
     IN IF due
          THEN acked' = acked /\ req' = [req EXCEPT ![w].g = gig, ![w].at = "save"]
          ELSE /\ acked' = IF Doing(w, {"webhook"}) THEN acked \cup {req[w].ref} ELSE acked
               /\ End(w)
  /\ UNCHANGED <<rows, money, hoursLeft, tokens, crashes>>

\* The state a handler drives the gig to.
TargetOf(w) ==
  CASE Doing(w, {"webhook"}) -> "EscrowLocked"
    [] Doing(w, {"release", "sweep"}) -> "Completed"
    [] Doing(w, {"cancel"}) -> "Cancelled"
    [] Doing(w, {"dispute"}) -> "Disputed"
    [] Doing(w, {"resolve"}) -> IF req[w].want.toVendor > 0 THEN "Completed" ELSE "Cancelled"
    [] OTHER -> req[w].to

\* The fact the transition route takes for a funded deposit.
DepositFundedMut(w) == Doing(w, {"webhook"}) \/ row # NoRow    \* mutant: an escrow exists

DepositFunded(w) ==
  \/ Doing(w, {"webhook"})
  \/ Doing(w, {"transition"}) /\ req[w].e.state # "AwaitingDeposit"

\* The CHECK of the gigs table on a published gig; only the transition route takes
\* a body that need not hold a reason.
RowAccepted(state, reason) == state = "Cancelled" => reason

\* applyTransition on the gig as it was read, then gigs.save, which overwrites the
\* row's state with the result whatever the row has become since.
SaveGig(w) ==
  /\ Doing(w, Ops \ {"fund"}) /\ At(w, "save")
  /\ \E reason, checkedIn \in (IF Doing(w, {"transition"}) THEN BOOLEAN ELSE {TRUE}) :
       gig' = IF /\ TransitionAllowed(GigIn(req[w].g), TargetOf(w), req[w].by,
                                      [depositFunded |-> DepositFunded(w),
                                       hoursUntilEvent |-> hoursLeft,
                                       cancellationReason |-> reason,
                                       checkedInAtVenue |-> checkedIn])
                 /\ RowAccepted(TargetOf(w), reason)
                THEN TargetOf(w) ELSE gig
  /\ acked' = IF Doing(w, {"webhook"}) THEN acked \cup {req[w].ref} ELSE acked
  /\ End(w)
  /\ UNCHANGED <<row, ledger, money, hoursLeft, tokens, crashes>>

-----------------------------------------------------------------------------
\* POST /v1/gigs/:gigId/transition

\* A request the table refuses for the gig it reads changes nothing and is left out.

StartTransition(w, by, to) ==
  /\ CanTransition(gig, to, by)
  /\ Begin(w, [Request("transition", "escrow", by) EXCEPT !.g = gig, !.to = to])
  /\ UNCHANGED <<rows, money, hoursLeft, tokens, acked, crashes>>

TransitionLookup(w) ==
  /\ Doing(w, {"transition"}) /\ At(w, "escrow")
  /\ req' = [req EXCEPT ![w].e.state = IF row = NoRow THEN "AwaitingDeposit" ELSE row.state,
                        ![w].at = "save"]
  /\ UNCHANGED <<rows, money, hoursLeft, tokens, acked, crashes>>

\* The event comes nearer.
Tick ==
  /\ \E h \in EventHours : h < hoursLeft /\ hoursLeft' = h
  /\ UNCHANGED <<rows, money, tokens, acked, req, crashes>>

\* A request dies at an await: its pod is gone, or the awaited call fails.
Crash(w) ==
  /\ req[w] # Idle
  /\ crashes < MaxCrashes
  /\ crashes' = crashes + 1
  /\ End(w)
  /\ UNCHANGED <<rows, money, hoursLeft, tokens, acked>>

Start(w) ==
  \/ \E i \in DepositIntents : StartFund(w, i)
  \/ StartBalance(w)
  \/ \E i \in Intents : Deliver(w, i) \/ Dismiss(w, i)
  \/ \E by \in {"host", "admin"} : StartRelease(w, by)
  \/ StartSweep(w)
  \/ \E by \in Parties : StartCancel(w, by)
  \/ \E by \in {"host", "vendor"} : StartDispute(w, by)
  \/ \E split \in Splits : StartResolve(w, split)
  \/ \E by \in Parties, to \in GigStates : StartTransition(w, by, to)

\* The next step of a request in flight.
Continue(w) ==
  \/ FundLookup(w) \/ FundIntent(w) \/ FundCreate(w) \/ FundSaveGig(w)
  \/ BalanceMakeIntent(w) \/ Respond(w)
  \/ WebhookLedger(w) \/ SweepRow(w) \/ ReadLedger(w) \/ DisputeLedger(w) \/ ResolveLedger(w)
  \/ ReadGig(w) \/ CallTransfer(w) \/ CallRefund(w)
  \/ CountLedger(w) \/ CommitEscrow(w) \/ RereadGig(w) \/ SaveGig(w)
  \/ TransitionLookup(w)

Next ==
  \/ \E w \in Workers : Start(w) \/ Continue(w) \/ Crash(w)
  \/ \E i \in Intents : Pay(i)
  \/ Tick

Spec == Init /\ [][Next]_vars

\* A request in flight goes on; Stripe redelivers an event until it is answered
\* 2xx, and an attempt is answered as soon as a worker is free often enough.
Redeliver(i) == \E w \in Workers : i \notin acked /\ (Deliver(w, i) \/ Dismiss(w, i))

FairSpec ==
  /\ Spec
  /\ \A w \in Workers : WF_vars(Continue(w))
  /\ \A i \in Intents : SF_vars(Redeliver(i))

-----------------------------------------------------------------------------
\* Properties.  Some of them need requests not to overlap, or no dispute before the
\* deposit, and hold in the instances that keep to it.

Stored == Load(row, ledger)
HasEntry(types) == \E i \in DOMAIN ledger : ledger[i].type \in types
Drained == row # NoRow /\ row.state \in OutflowStates
HasEntryOf(ref) == \E i \in DOMAIN ledger : ledger[i].ref = ref

\* The stored escrow always passes assertLedgerBalances (escrow.ts:326-363),
\* through crashes at every await, as long as requests do not overlap.
StoredLedgerBalances == row # NoRow => AssertLedgerBalances(Stored)

\* Every ledger row that names a Stripe object is the record of money that moved
\* there, in that amount, whatever requests overlap and wherever they die: the
\* ledger may miss a movement but never invents one.
BookedMoneyMoved ==
  \A i \in DOMAIN ledger :
    LET entry == ledger[i]
    IN CASE entry.ref \in Intents -> entry.ref \in charged /\ entry.amount = AmountOf(entry.ref)
         [] entry.ref \in Transfers -> entry.amount = -transfers[entry.ref]
         [] entry.ref \in RefundKeys -> entry.amount = -refunds[entry.ref].amount
         [] OTHER -> entry.type \in {"commission_taken", "dispute_hold"}

\* However often an event is delivered and however two saves interleave, no
\* Stripe object is in the ledger twice (001_init.sql:379-390).
BookedOnce ==
  \A i, j \in DOMAIN ledger :
    ledger[i].ref = ledger[j].ref /\ ledger[i].ref # NoRef => i = j

\* A payout in the ledger stands on the whole price having been charged to the
\* host's card, whichever of the routes led there and wherever one of them died:
\* what release() believes of the ledger (escrow.ts:202-213) is true of Stripe.
PayoutIsCovered == HasEntry({"payout_released"}) => ChargedCents = HostTotal

\* Overlapping and retried funding requests never let the host pay two deposits.
DepositChargedOnce == Cardinality(charged \cap DepositIntents) <= 1

\* "An unguarded jump ... would run a gig with no funds held" (gig.ts:4-7): a gig
\* is locked, under way or delivered only with its deposit charged.
LockedIsFunded ==
  gig \in {"EscrowLocked", "InTransit", "Active", "DeliveryPending"} =>
    charged \cap DepositIntents # {}

\* A capture whose event was answered 2xx, so that Stripe will not send it again,
\* is in the ledger, if the event names its escrow and the escrow had not been
\* disputed or refunded before: the handler drops a capture it no longer expects
\* (payments.ts:495-499).  What a dispute or a refund has drained never takes a
\* capture again, so the escrow's state of now tells.
AckedIsBooked ==
  \A i \in acked \cap Named : HasEntryOf(i) \/ Drained

\* "The only path that may record a capture" (payments.ts:436-440): an event that
\* has been answered for has been recorded.  False of the events the live gateway
\* causes, which the handler does not recognise.
AckedIsRecorded == \A i \in acked : HasEntryOf(i)

\* A paid deposit eventually moves the gig on, although the handler that locks it
\* may die between its two saves: redelivery finishes the job (payments.ts:504-510),
\* unless a dispute came first or the event does not name the escrow.
DepositLocksBooking ==
  \A i \in DepositIntents \cap Named :
    i \in charged ~> gig # "ApplicationsReview" \/ Drained
=============================================================================
