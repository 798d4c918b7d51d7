---------------------------- MODULE BookingProofs ----------------------------
(***************************************************************************)
(* What Booking promises, for every quote, every set of requests in flight *)
(* and every length of the ledger.                                         *)
(*                                                                         *)
(* The inductive invariant IInv says of every row, entry and copy that it  *)
(* tells of something that has happened: an entry of a movement at Stripe  *)
(* in that amount, a state of the charges it stands for, a locked gig of   *)
(* its deposit.  What has happened is World, and no step takes any of it   *)
(* back (Kept), so what a request read long ago stays true of it however   *)
(* stale it is; that is the whole reason why overlapping requests and lost *)
(* ones cannot invent money.  IInv needs, beside it, that a host can only  *)
(* ever pay the deposit of the row (Payable), which is what makes a second *)
(* deposit impossible, and that the ledger has no id twice (Once).         *)
(*                                                                         *)
(* A booking whose requests do not overlap (Alone) has two more            *)
(* invariants.  Straight: what a request read is what the tables still     *)
(* hold, so that a save writes exactly the escrow it has checked.          *)
(* Answered: until money leaves or is held back, the state of the row says *)
(* which captures are written, so that until then no event that names its  *)
(* escrow is acknowledged without its entry.                               *)
(*                                                                         *)
(* The escrow in memory is a fold of the ledger; what the fold does is     *)
(* proved first, by induction over its length.                             *)
(***************************************************************************)
EXTENDS Booking, WellFoundedInduction, SequenceTheorems, FiniteSetTheorems, TLAPS

Stages == {"idle", "escrow", "intent", "create", "save", "respond", "ledger", "row", "gig",
           "transfer", "refund", "count", "commit", "regig"}

Requests ==
  [op : Handlers \cup {"none"}, at : Stages, by : Actors, e : EscrowRecords, g : GigStates,
   want : [toVendor : Nat, toHost : Int], to : GigStates, ref : Refs \cup {NoRef}, count : Nat]

\* What the entries and the states speak of: the row and what has happened at Stripe.
World == [row |-> row, charged |-> charged, transfers |-> transfers, refunds |-> refunds]

\* Facts of a world are never taken back.
Kept(m, n) ==
  /\ m.charged \subseteq n.charged
  /\ m.row # NoRow => n.row # NoRow /\ n.row.deposit = m.row.deposit
  /\ \A k \in Transfers : m.transfers[k] > 0 => n.transfers[k] = m.transfers[k]
  /\ m.transfers[ReleaseTransfer] = VendorPayout => n.transfers[ReleaseTransfer] = VendorPayout
  /\ \A k \in RefundKeys : m.refunds[k] # NoRefund => n.refunds[k] = m.refunds[k]

Locked == {"EscrowLocked", "InTransit", "Active", "DeliveryPending"}

DepositPaid(m) == \E i \in DepositIntents : i \in m.charged
PricePaid(m) == DepositPaid(m) /\ (BalanceDue = 0 \/ BalanceIntent \in m.charged)

\* An entry, of the table or of a snapshot, tells of something that has happened.
EntryTold(x, m) ==
  /\ x.type \in CaptureTypes => x.ref \in m.charged /\ x.amount = AmountOf(x.ref)
  /\ x.type = "payout_released" =>
       /\ x.ref = ReleaseTransfer /\ x.amount = -VendorPayout
       /\ m.transfers[ReleaseTransfer] = VendorPayout
       /\ PricePaid(m)
  /\ x.type = "dispute_released" =>
       /\ x.ref = DisputeTransfer /\ x.amount = -m.transfers[DisputeTransfer]
       /\ m.transfers[DisputeTransfer] > 0
  /\ x.type = "refund_issued" =>
       /\ x.ref \in RefundKeys /\ x.amount = -m.refunds[x.ref].amount
       /\ m.refunds[x.ref] # NoRefund
  /\ x.type \in {"commission_taken", "dispute_hold"} => x.ref = NoRef

EntriesTold(s, m) == \A i \in DOMAIN s : EntryTold(s[i], m)

\* So does a state of the escrow; without disputes a state past the first says the
\* deposit is paid.
StateTold(s, m) ==
  /\ s = "DepositHeld" => DepositPaid(m)
  /\ s = "FullyFunded" => PricePaid(m)
  /\ s \notin {"Initiated", "ReleasePending"}
  /\ "dispute" \notin Ops => s # "Disputed" /\ (s # "AwaitingDeposit" => DepositPaid(m))

GigTold(g, m) == "dispute" \notin Ops /\ g \in Locked => DepositPaid(m)

\* The stages at which a request works on a copy of the escrow.
Snapshot == {"ledger", "gig", "transfer", "refund", "count", "commit"}

Sound(r, m) ==
  /\ StateTold(r.e.state, m) /\ EntriesTold(r.e.entries, m) /\ GigTold(r.g, m)
  /\ r.op \in Ops \cup {"none"}
  /\ r.at = "row" => m.row # NoRow
  /\ r.at \in Snapshot => m.row # NoRow /\ r.e.deposit = m.row.deposit
  /\ r.op = "fund" =>
       /\ r.ref \in DepositIntents /\ r.at \notin Snapshot \cup {"regig"}
       /\ r.at \in {"escrow", "intent"} => r.e = CreateEscrow
       /\ r.at = "create" => r.e = [CreateEscrow EXCEPT !.deposit = r.ref]
       /\ r.at \in {"save", "respond"} => m.row # NoRow /\ r.ref = m.row.deposit
  /\ r.op = "balance" => r.ref = BalanceIntent /\ DepositPaid(m)
  /\ r.op = "webhook" => r.ref \in m.charged
  /\ r.op \in {"release", "sweep"} => r.want.toVendor = VendorPayout
  /\ r.op = "resolve" => r.want.toHost >= 0
  /\ r.at = "transfer" =>
       \/ r.op \in {"release", "sweep"}
       \/ r.op = "resolve" /\ r.want.toVendor > 0
  /\ r.at = "refund" =>
       /\ r.op \in {"cancel", "resolve"} /\ r.want.toHost > 0
       /\ r.op = "resolve" /\ r.want.toVendor > 0 =>
            m.transfers[DisputeTransfer] = r.want.toVendor

\* What Stripe holds, and the row.
Accounts(m) ==
  /\ m.row \in EscrowRows \cup {NoRow}
  /\ m.row # NoRow => StateTold(m.row.state, m)
  /\ m.charged \subseteq Intents
  /\ BalanceIntent \in m.charged => DepositPaid(m)
  /\ m.transfers \in [Transfers -> Nat]
  /\ m.transfers[ReleaseTransfer] \in {0, VendorPayout}
  /\ \A k \in RefundKeys :
       \/ m.refunds[k] = NoRefund
       \/ m.refunds[k].amount \in Nat \ {0} /\ m.refunds[k].intent \in m.charged
  /\ m.refunds = [k \in RefundKeys |-> m.refunds[k]]

\* The host can pay only the deposit of the row.
Payable(paid, toks, m) ==
  /\ paid \subseteq toks /\ toks \subseteq Intents
  /\ \A i \in toks \cap DepositIntents : m.row # NoRow /\ m.row.deposit = i
  /\ BalanceIntent \in toks => DepositPaid(m)

Once(s) == \A i, j \in DOMAIN s : s[i].ref = s[j].ref /\ s[i].ref # NoRef => i = j

IInv ==
  /\ Accounts(World) /\ Payable(charged, tokens, World)
  /\ ledger \in Seq(Entries) /\ EntriesTold(ledger, World) /\ Once(ledger)
  /\ gig \in GigStates /\ GigTold(gig, World)
  /\ req \in [Workers -> Requests]
  /\ \A w \in Workers : Sound(req[w], World)

tables == <<row, ledger, gig, tokens, charged, transfers, refunds>>

-----------------------------------------------------------------------------
\* Induction over the numbers, stated of a set of them.
LEMMA Induction ==
  ASSUME NEW S, 0 \in S, \A n \in Nat : n \in S => n + 1 \in S
  PROVE  \A n \in Nat : n \in S
<1> DEFINE less == {ss \in Nat \X Nat : ss[1] < ss[2]}
           rest == Nat \ S
<1>1. IsWellFoundedOn(less, Nat) BY NatLessThanWellFounded DEF OpToRel
<1> HIDE DEF less
<1>2. SUFFICES ASSUME rest # {} PROVE FALSE OBVIOUS
<1>3. rest \subseteq Nat OBVIOUS
<1> HIDE DEF rest
<1>4. PICK n \in rest : \A m \in rest : ~ (<<m, n>> \in less) BY <1>1, <1>2, <1>3, WFMin, Zenon
<1> USE DEF rest
<1>5. n \in Nat /\ n # 0 BY <1>4
<1>6. n - 1 \in Nat /\ n - 1 < n BY <1>5
<1>7. n - 1 \in rest BY <1>4, <1>6
<1>8. <<n - 1, n>> \in less BY <1>5, <1>6 DEF less
<1> QED BY <1>4, <1>7, <1>8

\* The escrow a row is loaded into before its entries are folded.
Columns(r) ==
  [CreateEscrow EXCEPT !.state = r.state, !.deposit = r.deposit, !.balance = r.balance,
                       !.transfer = r.transfer]

\* f holds the escrow after each of the first n entries of s.
IsFold(f, r, s, n) ==
  f = [i \in 0 .. n |-> IF i = 0 THEN Columns(r)
                        ELSE Post(f[i - 1], s[i].type, s[i].amount, s[i].ref)]

LEMMA FoldExists ==
  ASSUME NEW r, NEW s \in Seq(Entries)
  PROVE  \A n \in Nat : \E f : IsFold(f, r, s, n)
<1> DEFINE S == {n \in Nat : \E f : IsFold(f, r, s, n)}
<1>1. 0 \in S
  <2> DEFINE f == [i \in 0 .. 0 |-> Columns(r)]
  <2>1. IsFold(f, r, s, 0) BY DEF IsFold
  <2> QED BY <2>1
<1>2. ASSUME NEW n \in Nat, n \in S PROVE n + 1 \in S
  <2>1. PICK f : IsFold(f, r, s, n) BY <1>2
  <2> DEFINE step(i, last) == Post(last, s[i].type, s[i].amount, s[i].ref)
             g == [i \in 0 .. n + 1 |-> IF i = n + 1 THEN step(n + 1, f[n]) ELSE f[i]]
  <2> HIDE DEF step
  <2>2. \A i \in 0 .. n : f[i] = IF i = 0 THEN Columns(r) ELSE step(i, f[i - 1])
    BY <2>1 DEF IsFold, step
  <2>3. g = [i \in 0 .. n + 1 |-> IF i = 0 THEN Columns(r) ELSE step(i, g[i - 1])]
    <3>1. ASSUME NEW i \in 0 .. n + 1
          PROVE  g[i] = IF i = 0 THEN Columns(r) ELSE step(i, g[i - 1])
      <4>1. CASE i = n + 1
        <5>1. g[i] = step(n + 1, f[n]) /\ g[n] = f[n] /\ i - 1 = n /\ i # 0 BY <4>1
        <5> QED BY <5>1, <4>1
      <4>2. CASE i \in 0 .. n /\ i # 0
        <5>1. i - 1 \in 0 .. n /\ i # n + 1 /\ i - 1 # n + 1 BY <4>2
        <5>2. g[i] = f[i] /\ g[i - 1] = f[i - 1] BY <5>1, <4>2
        <5> QED BY <5>2, <4>2, <2>2
      <4>3. CASE i = 0
        <5>1. g[i] = f[0] BY <4>3
        <5> QED BY <5>1, <4>3, <2>2
      <4> QED BY <4>1, <4>2, <4>3
    <3> QED BY <3>1
  <2>4. IsFold(g, r, s, n + 1) BY <2>3 DEF IsFold, step
  <2> QED BY <2>4
<1> HIDE DEF S
<1>3. \A n \in Nat : n \in S BY <1>1, <1>2, Induction
<1> QED BY <1>3 DEF S

LEMMA LoadIsFold ==
  ASSUME NEW r, NEW s \in Seq(Entries)
  PROVE  \E f : IsFold(f, r, s, Len(s)) /\ Load(r, s) = f[Len(s)]
<1>1. Len(s) \in Nat OBVIOUS
<1>2. \A n \in Nat : \E f : IsFold(f, r, s, n) BY FoldExists, Zenon
<1>3. \E f : IsFold(f, r, s, Len(s)) BY <1>1, <1>2
<1>4. QED BY <1>3 DEF Load, IsFold, Columns

\* Two folds agree as long as the entries do.
LEMMA FoldAgree ==
  ASSUME NEW r, NEW s, NEW t, NEW m \in Nat, NEW n \in Nat, NEW k \in Nat, k <= m, k <= n,
         NEW f, NEW g, IsFold(f, r, s, m), IsFold(g, r, t, n),
         \A i \in 1 .. k : s[i] = t[i]
  PROVE  f[k] = g[k]
<1> DEFINE S == {i \in Nat : i <= k => f[i] = g[i]}
<1>1. 0 \in S BY DEF IsFold
<1>2. ASSUME NEW i \in Nat, i \in S PROVE i + 1 \in S
  <2>1. SUFFICES ASSUME i + 1 <= k PROVE f[i + 1] = g[i + 1] OBVIOUS
  <2>2. /\ i + 1 \in 0 .. m /\ i + 1 \in 0 .. n /\ i + 1 \in 1 .. k /\ i + 1 # 0
        /\ (i + 1) - 1 = i /\ i <= k
    BY <2>1
  <2>3. f[i] = g[i] /\ s[i + 1] = t[i + 1] BY <1>2, <2>2
  <2>4. f[i + 1] = Post(f[i], s[i + 1].type, s[i + 1].amount, s[i + 1].ref) BY <2>2 DEF IsFold
  <2>5. g[i + 1] = Post(g[i], t[i + 1].type, t[i + 1].amount, t[i + 1].ref) BY <2>2 DEF IsFold
  <2> QED BY <2>3, <2>4, <2>5
<1> HIDE DEF S
<1>3. k \in S BY <1>1, <1>2, Induction
<1> QED BY <1>3 DEF S

LEMMA LoadEmpty ==
  ASSUME NEW r
  PROVE  Load(r, <<>>) =
           [state |-> r.state, deposit |-> r.deposit, balance |-> r.balance,
            transfer |-> r.transfer, entries |-> <<>>,
            captured |-> 0, refunded |-> 0, released |-> 0]
<1>1. <<>> \in Seq(Entries) /\ Len(<<>>) = 0 OBVIOUS
<1>2. PICK f : IsFold(f, r, <<>>, 0) /\ Load(r, <<>>) = f[0] BY <1>1, LoadIsFold
<1>3. Load(r, <<>>) = Columns(r) BY <1>2 DEF IsFold
<1> QED BY <1>3 DEF Columns, CreateEscrow

\* Loading one more entry posts it to what was loaded before.
LEMMA LoadAppend ==
  ASSUME NEW r, NEW s \in Seq(Entries), NEW x \in Entries
  PROVE  Load(r, Append(s, x)) = Post(Load(r, s), x.type, x.amount, x.ref)
<1> DEFINE t == Append(s, x)
           n == Len(s)
<1>1. /\ n \in Nat /\ t \in Seq(Entries) /\ Len(t) = n + 1 /\ t[n + 1] = x
      /\ \A i \in 1 .. n : s[i] = t[i]
  OBVIOUS
<1> HIDE DEF t, n
<1>2. PICK f : IsFold(f, r, s, n) /\ Load(r, s) = f[n] BY LoadIsFold DEF n
<1>3. PICK g : IsFold(g, r, t, n + 1) /\ Load(r, t) = g[n + 1] BY <1>1, LoadIsFold
<1>4. n <= n /\ n <= n + 1 /\ n + 1 \in Nat BY <1>1
<1>5. f[n] = g[n] BY <1>1, <1>2, <1>3, <1>4, FoldAgree
<1>6. n + 1 \in 0 .. n + 1 /\ n + 1 # 0 /\ (n + 1) - 1 = n BY <1>1
<1>7. g[n + 1] = Post(g[n], t[n + 1].type, t[n + 1].amount, t[n + 1].ref)
  BY <1>3, <1>6 DEF IsFold
<1> QED BY <1>1, <1>2, <1>3, <1>5, <1>7 DEF t

\* Induction over the ledgers, stated of a set of them.
LEMMA LedgerInduction ==
  ASSUME NEW S, <<>> \in S,
         \A s \in Seq(Entries), x \in Entries : s \in S => Append(s, x) \in S
  PROVE  \A s \in Seq(Entries) : s \in S
<1> DEFINE N == {n \in Nat : \A s \in Seq(Entries) : Len(s) = n => s \in S}
<1>1. 0 \in N
  <2>1. \A s \in Seq(Entries) : Len(s) = 0 => s = <<>> BY EmptySeq
  <2> QED BY <2>1
<1>2. ASSUME NEW n \in Nat, n \in N PROVE n + 1 \in N
  <2>1. SUFFICES ASSUME NEW s \in Seq(Entries), Len(s) = n + 1 PROVE s \in S OBVIOUS
  <2> DEFINE front == SubSeq(s, 1, n)
             x == s[n + 1]
  <2>2. x \in Entries BY <2>1
  <2>3. front \in Seq(Entries) /\ Len(front) = n BY <2>1
  <2>4. s = Append(front, x) BY <2>1
  <2>5. front \in S BY <1>2, <2>3
  <2> HIDE DEF front, x
  <2> QED BY <2>2, <2>3, <2>4, <2>5
<1> HIDE DEF N
<1>3. \A n \in Nat : n \in N BY <1>1, <1>2, Induction, Zenon
<1> QED BY <1>3 DEF N

-----------------------------------------------------------------------------
\* What posting an entry does to an escrow.
LEMMA PostFacts ==
  ASSUME NEW e \in EscrowRecords, NEW x \in Entries
  PROVE  LET p == Post(e, x.type, x.amount, x.ref) IN
         /\ p \in EscrowRecords /\ RowOf(p) = RowOf(e) /\ p.state = e.state
         /\ p.deposit = e.deposit /\ p.balance = e.balance /\ p.transfer = e.transfer
         /\ p.entries = Append(e.entries, x)
         /\ p.captured = IF x.type \in CaptureTypes THEN e.captured + x.amount ELSE e.captured
         /\ p.refunded = IF x.type = "refund_issued" THEN e.refunded - x.amount ELSE e.refunded
         /\ p.released = IF x.type \in PayoutTypes THEN e.released - x.amount ELSE e.released
<1> DEFINE p == Post(e, x.type, x.amount, x.ref)
           captured == IF x.type \in CaptureTypes THEN e.captured + x.amount ELSE e.captured
           refunded == IF x.type = "refund_issued" THEN e.refunded - x.amount ELSE e.refunded
           released == IF x.type \in PayoutTypes THEN e.released - x.amount ELSE e.released
<1>1. x = [type |-> x.type, amount |-> x.amount, ref |-> x.ref] BY DEF Entries
<1>2. Append(e.entries, x) \in Seq(Entries) BY DEF EscrowRecords
<1>3. p = [e EXCEPT !.entries = Append(e.entries, x), !.captured = captured,
                    !.refunded = refunded, !.released = released]
  BY <1>1 DEF Post
<1>4. captured \in Int /\ refunded \in Int /\ released \in Int BY DEF EscrowRecords, Entries
<1> HIDE DEF p, captured, refunded, released
<1>5. p \in EscrowRecords BY <1>2, <1>3, <1>4 DEF EscrowRecords
<1>6. /\ p.state = e.state /\ p.transfer = e.transfer /\ p.deposit = e.deposit
      /\ p.balance = e.balance /\ p.entries = Append(e.entries, x)
      /\ p.captured = captured /\ p.refunded = refunded /\ p.released = released
  BY <1>3 DEF EscrowRecords
<1> QED BY <1>5, <1>6 DEF p, captured, refunded, released, RowOf

\* What is loaded holds the entries and the columns it is loaded from.
LEMMA LoadFacts ==
  ASSUME NEW r \in EscrowRows, NEW s \in Seq(Entries)
  PROVE  LET e == Load(r, s) IN
         /\ e \in EscrowRecords /\ e.entries = s /\ RowOf(e) = r
         /\ e.state = r.state /\ e.deposit = r.deposit
         /\ e.balance = r.balance /\ e.transfer = r.transfer
<1> DEFINE holds(t) == LET e == Load(r, t) IN
                       /\ e \in EscrowRecords /\ e.entries = t /\ RowOf(e) = r
                       /\ e.state = r.state /\ e.deposit = r.deposit
                       /\ e.balance = r.balance /\ e.transfer = r.transfer
           S == {t \in Seq(Entries) : holds(t)}
<1>1. <<>> \in S
  <2>1. <<>> \in Seq(Entries) OBVIOUS
  <2> DEFINE e == Load(r, <<>>)
  <2>2. e = [state |-> r.state, deposit |-> r.deposit, balance |-> r.balance,
             transfer |-> r.transfer, entries |-> <<>>,
             captured |-> 0, refunded |-> 0, released |-> 0]
    BY LoadEmpty
  <2> HIDE DEF e
  <2>3. r = [state |-> r.state, deposit |-> r.deposit, balance |-> r.balance,
             transfer |-> r.transfer]
    BY DEF EscrowRows
  <2>4. e \in EscrowRecords BY <2>1, <2>2 DEF EscrowRecords, EscrowRows
  <2>5. RowOf(e) = r BY <2>2, <2>3 DEF RowOf
  <2>6. holds(<<>>) BY <2>2, <2>4, <2>5 DEF e
  <2> QED BY <2>1, <2>6
<1>2. ASSUME NEW t \in Seq(Entries), NEW x \in Entries, t \in S PROVE Append(t, x) \in S
  <2> DEFINE e == Load(r, t)
             p == Load(r, Append(t, x))
  <2>1. p = Post(e, x.type, x.amount, x.ref) BY LoadAppend
  <2>2. holds(t) BY <1>2
  <2>3. e \in EscrowRecords BY <2>2
  <2>4. /\ p \in EscrowRecords /\ RowOf(p) = RowOf(e) /\ p.state = e.state
        /\ p.deposit = e.deposit /\ p.balance = e.balance /\ p.transfer = e.transfer
        /\ p.entries = Append(e.entries, x)
    BY <2>1, <2>3, PostFacts
  <2>5. holds(Append(t, x)) BY <2>2, <2>4
  <2> QED BY <2>5
<1> HIDE DEF S
<1>3. s \in S BY <1>1, <1>2, LedgerInduction
<1> QED BY <1>3 DEF S

\* The columns say nothing of the balances.
LEMMA LoadColumns ==
  ASSUME NEW r \in EscrowRows, NEW q \in EscrowRows, NEW s \in Seq(Entries)
  PROVE  /\ Load(q, s).captured = Load(r, s).captured
         /\ Load(q, s).refunded = Load(r, s).refunded
         /\ Load(q, s).released = Load(r, s).released
<1> DEFINE same(t) == /\ Load(q, t).captured = Load(r, t).captured
                      /\ Load(q, t).refunded = Load(r, t).refunded
                      /\ Load(q, t).released = Load(r, t).released
           S == {t \in Seq(Entries) : same(t)}
<1>1. <<>> \in S
  <2>1. <<>> \in Seq(Entries) OBVIOUS
  <2>2. same(<<>>) BY LoadEmpty
  <2> QED BY <2>1, <2>2
<1>2. ASSUME NEW t \in Seq(Entries), NEW x \in Entries, t \in S PROVE Append(t, x) \in S
  <2>1. /\ Load(r, Append(t, x)) = Post(Load(r, t), x.type, x.amount, x.ref)
        /\ Load(q, Append(t, x)) = Post(Load(q, t), x.type, x.amount, x.ref)
    BY LoadAppend
  <2>2. Load(r, t) \in EscrowRecords /\ Load(q, t) \in EscrowRecords BY LoadFacts
  <2>3. same(t) BY <1>2
  <2>4. ASSUME NEW e \in EscrowRecords, NEW d \in EscrowRecords,
               d.captured = e.captured, d.refunded = e.refunded, d.released = e.released
        PROVE  LET p == Post(d, x.type, x.amount, x.ref)
                   o == Post(e, x.type, x.amount, x.ref)
               IN /\ p.captured = o.captured /\ p.refunded = o.refunded
                  /\ p.released = o.released
    BY <2>4 DEF Post, EscrowRecords
  <2>5. same(Append(t, x)) BY <2>1, <2>2, <2>3, <2>4
  <2> QED BY <2>5
<1> HIDE DEF S
<1>3. s \in S BY <1>1, <1>2, LedgerInduction
<1> QED BY <1>3 DEF S

\* Nothing is captured without an entry that says so.
LEMMA CapturedSomewhere ==
  ASSUME NEW r \in EscrowRows, NEW s \in Seq(Entries), Load(r, s).captured > 0
  PROVE  \E i \in DOMAIN s : s[i].type \in CaptureTypes
<1> DEFINE holds(t) == Load(r, t).captured > 0 => \E i \in DOMAIN t : t[i].type \in CaptureTypes
           S == {t \in Seq(Entries) : holds(t)}
<1>1. <<>> \in S
  <2>1. Load(r, <<>>).captured = 0 BY LoadEmpty
  <2> QED BY <2>1
<1>2. ASSUME NEW t \in Seq(Entries), NEW x \in Entries, t \in S PROVE Append(t, x) \in S
  <2>1. Load(r, Append(t, x)) = Post(Load(r, t), x.type, x.amount, x.ref) BY LoadAppend
  <2>2. Load(r, t) \in EscrowRecords BY LoadFacts
  <2>3. /\ \A i \in DOMAIN t : i \in DOMAIN Append(t, x) /\ Append(t, x)[i] = t[i]
        /\ Len(t) + 1 \in DOMAIN Append(t, x) /\ Append(t, x)[Len(t) + 1] = x
    OBVIOUS
  <2>4. CASE x.type \in CaptureTypes
    <3>1. \E i \in DOMAIN Append(t, x) : Append(t, x)[i].type \in CaptureTypes BY <2>3, <2>4
    <3>2. Append(t, x) \in Seq(Entries) OBVIOUS
    <3> QED BY <3>1, <3>2
  <2>5. CASE x.type \notin CaptureTypes
    <3>1. Load(r, Append(t, x)).captured = Load(r, t).captured BY <2>1, <2>2, <2>5, PostFacts
    <3>2. holds(t) BY <1>2
    <3>3. holds(Append(t, x)) BY <3>1, <3>2, <2>3
    <3>4. Append(t, x) \in Seq(Entries) OBVIOUS
    <3> QED BY <3>3, <3>4
  <2> QED BY <2>4, <2>5
<1> HIDE DEF S
<1>3. s \in S BY <1>1, <1>2, LedgerInduction
<1> QED BY <1>3 DEF S
-----------------------------------------------------------------------------
\* What is told stays told

LEMMA StaysPaid ==
  ASSUME NEW m, NEW n, Kept(m, n)
  PROVE  /\ DepositPaid(m) => DepositPaid(n)
         /\ PricePaid(m) => PricePaid(n)
BY DEF Kept, DepositPaid, PricePaid

LEMMA StaysTold ==
  ASSUME NEW m, NEW n, Kept(m, n), Accounts(m)
  PROVE  /\ \A x \in Entries : EntryTold(x, m) => EntryTold(x, n)
         /\ \A s \in Seq(Entries) : EntriesTold(s, m) => EntriesTold(s, n)
         /\ \A s : StateTold(s, m) => StateTold(s, n)
         /\ \A g : GigTold(g, m) => GigTold(g, n)
<1>1. ASSUME NEW x \in Entries, EntryTold(x, m) PROVE EntryTold(x, n)
  <2>1. PricePaid(m) => PricePaid(n) BY StaysPaid
  <2>2. x.type \in CaptureTypes => x.ref \in n.charged /\ x.amount = AmountOf(x.ref)
    BY <1>1 DEF EntryTold, Kept
  <2>3. x.type = "payout_released" =>
          /\ x.ref = ReleaseTransfer /\ x.amount = -VendorPayout
          /\ n.transfers[ReleaseTransfer] = VendorPayout /\ PricePaid(n)
    BY <1>1, <2>1 DEF EntryTold, Kept
  <2>4. x.type = "dispute_released" =>
          /\ x.ref = DisputeTransfer /\ x.amount = -n.transfers[DisputeTransfer]
          /\ n.transfers[DisputeTransfer] > 0
    BY <1>1 DEF EntryTold, Kept, Transfers
  <2>5. x.type = "refund_issued" =>
          /\ x.ref \in RefundKeys /\ x.amount = -n.refunds[x.ref].amount
          /\ n.refunds[x.ref] # NoRefund
    BY <1>1 DEF EntryTold, Kept
  <2>6. x.type \in {"commission_taken", "dispute_hold"} => x.ref = NoRef BY <1>1 DEF EntryTold
  <2> QED BY <2>2, <2>3, <2>4, <2>5, <2>6 DEF EntryTold
<1>2. ASSUME NEW s \in Seq(Entries), EntriesTold(s, m) PROVE EntriesTold(s, n)
  <2>1. \A i \in DOMAIN s : s[i] \in Entries OBVIOUS
  <2> QED BY <1>1, <1>2, <2>1 DEF EntriesTold
<1>3. ASSUME NEW s, StateTold(s, m) PROVE StateTold(s, n)
  BY <1>3, StaysPaid DEF StateTold
<1>4. ASSUME NEW g, GigTold(g, m) PROVE GigTold(g, n)
  BY <1>4, StaysPaid DEF GigTold
<1> QED BY <1>1, <1>2, <1>3, <1>4

LEMMA EscrowFields ==
  ASSUME NEW e \in EscrowRecords
  PROVE  /\ e.entries \in Seq(Entries) /\ e.state \in EscrowStates
         /\ e.deposit \in Refs \cup {NoRef} /\ RowOf(e) \in EscrowRows
         /\ e.captured \in Int /\ e.refunded \in Int /\ e.released \in Int
BY DEF EscrowRecords, EscrowRows, RowOf

LEMMA RequestFields ==
  ASSUME NEW r \in Requests
  PROVE  /\ r.op \in Handlers \cup {"none"} /\ r.at \in Stages /\ r.by \in Actors
         /\ r.e \in EscrowRecords /\ r.g \in GigStates /\ r.to \in GigStates
         /\ r.want.toVendor \in Nat /\ r.want.toHost \in Int
         /\ r.want \in [toVendor : Nat, toHost : Int]
         /\ r.ref \in Refs \cup {NoRef} /\ r.count \in Nat
BY DEF Requests

LEMMA StaysSound ==
  ASSUME NEW m, NEW n, Kept(m, n), Accounts(m), NEW r \in Requests, Sound(r, m)
  PROVE  Sound(r, n)
<1>1. r.e.entries \in Seq(Entries) BY RequestFields, EscrowFields
<1>2. StateTold(r.e.state, n) /\ EntriesTold(r.e.entries, n) /\ GigTold(r.g, n)
  BY <1>1, StaysTold DEF Sound
<1>3. DepositPaid(m) => DepositPaid(n) BY StaysPaid
<1>4. r.want.toVendor \in Nat BY RequestFields
<1>5. \A a \in Nat : a > 0 /\ m.transfers[DisputeTransfer] = a => n.transfers[DisputeTransfer] = a
  BY DEF Kept, Transfers
<1> QED BY <1>2, <1>3, <1>4, <1>5 DEF Sound, Kept

-----------------------------------------------------------------------------
\* The frame of a step

LEMMA Frame ==
  ASSUME IInv, Kept(World, World'), Accounts(World'), Payable(charged', tokens', World'),
         ledger' \in Seq(Entries), EntriesTold(ledger', World'), Once(ledger'),
         gig' \in GigStates, GigTold(gig', World'),
         req' \in [Workers -> Requests],
         \A w \in Workers : req'[w] = req[w] \/ Sound(req'[w], World')
  PROVE  IInv'
<1>1. ASSUME NEW w \in Workers PROVE Sound(req'[w], World')
  <2>1. CASE req'[w] = req[w]
    <3>1. req[w] \in Requests /\ Sound(req[w], World) /\ Accounts(World) BY DEF IInv
    <3>2. Sound(req[w], World') BY <3>1, StaysSound
    <3> QED BY <3>2, <2>1
  <2> QED BY <2>1
<1>2. \A w \in Workers : Sound(req'[w], World') BY <1>1
<1> QED BY <1>2 DEF IInv

LEMMA SameWorld ==
  ASSUME UNCHANGED <<row, charged, transfers, refunds>>
  PROVE  World' = World
BY DEF World

LEMMA KeptSame == \A m : Kept(m, m)
BY DEF Kept

\* One request goes on; the tables and Stripe are as before.
LEMMA QuietFrame ==
  ASSUME IInv, NEW w \in Workers, NEW x \in Requests, req' = [req EXCEPT ![w] = x],
         Sound(x, World), UNCHANGED tables
  PROVE  IInv'
<1>1. World' = World BY SameWorld DEF tables
<1>2. Kept(World, World') BY <1>1, KeptSame
<1>3. req' \in [Workers -> Requests] BY DEF IInv
<1>4. \A u \in Workers : req'[u] = req[u] \/ Sound(req'[u], World')
  BY <1>1 DEF IInv
<1>5. /\ Accounts(World') /\ Payable(charged', tokens', World')
      /\ ledger' \in Seq(Entries) /\ EntriesTold(ledger', World') /\ Once(ledger')
      /\ gig' \in GigStates /\ GigTold(gig', World')
  BY <1>1 DEF IInv, tables
<1> QED BY <1>2, <1>3, <1>4, <1>5, Frame

LEMMA CreateEscrowFacts ==
  /\ CreateEscrow \in EscrowRecords /\ CreateEscrow.state = "AwaitingDeposit"
  /\ CreateEscrow.entries = <<>>
  /\ \A i \in Refs \cup {NoRef} :
       LET e == [CreateEscrow EXCEPT !.deposit = i]
       IN e \in EscrowRecords /\ e.state = "AwaitingDeposit" /\ e.entries = <<>> /\ e.deposit = i
<1>1. <<>> \in Seq(Entries) OBVIOUS
<1>2. ASSUME NEW i \in Refs \cup {NoRef}
      PROVE  LET e == [CreateEscrow EXCEPT !.deposit = i]
             IN e \in EscrowRecords /\ e.state = "AwaitingDeposit" /\ e.entries = <<>> /\ e.deposit = i
  <2> DEFINE e == [CreateEscrow EXCEPT !.deposit = i]
  <2>1. e = [state |-> "AwaitingDeposit", deposit |-> i, balance |-> NoRef, transfer |-> NoRef,
             entries |-> <<>>, captured |-> 0, refunded |-> 0, released |-> 0]
    BY DEF CreateEscrow
  <2> HIDE DEF e
  <2>2. e \in EscrowRecords BY <1>1, <2>1 DEF EscrowRecords, EscrowStates
  <2>3. e.state = "AwaitingDeposit" /\ e.entries = <<>> /\ e.deposit = i BY <2>1
  <2> QED BY <2>2, <2>3 DEF e
<1>3. [CreateEscrow EXCEPT !.deposit = NoRef] = CreateEscrow BY DEF CreateEscrow
<1>4. CreateEscrow.state = "AwaitingDeposit" /\ CreateEscrow.entries = <<>> BY DEF CreateEscrow
<1>5. CreateEscrow \in EscrowRecords BY <1>2, <1>3
<1> QED BY <1>2, <1>4, <1>5

\* An escrow without entries that awaits its deposit tells nothing, nor does an unlocked gig.
LEMMA NothingTold ==
  ASSUME NEW m
  PROVE  StateTold("AwaitingDeposit", m) /\ EntriesTold(<<>>, m) /\ GigTold("Draft", m)
BY DEF StateTold, EntriesTold, GigTold, Locked

LEMMA IdleFacts ==
  ASSUME NEW m
  PROVE  /\ Idle \in Requests /\ Sound(Idle, m)
         /\ Idle.e = CreateEscrow /\ Idle.op = "none" /\ Idle.at = "idle" /\ Idle.g = "Draft"
<1>1. /\ Idle.e = CreateEscrow /\ Idle.op = "none" /\ Idle.at = "idle" /\ Idle.g = "Draft"
  BY DEF Idle
<1>2. Idle \in Requests
  BY CreateEscrowFacts DEF Idle, Requests, Stages, GigStates, Actors, NoWant
<1>3. Sound(Idle, m)
  BY <1>1, CreateEscrowFacts, NothingTold DEF Sound, Snapshot
<1> QED BY <1>1, <1>2, <1>3

LEMMA EndStep ==
  ASSUME IInv, NEW w \in Workers, End(w), UNCHANGED tables
  PROVE  IInv'
BY IdleFacts, QuietFrame DEF End
-----------------------------------------------------------------------------
\* Requests begin

LEMMA HandlerNames ==
  /\ \A op \in {"fund", "balance", "webhook", "release", "sweep", "cancel", "dispute", "resolve",
                "transition"} : op \in Handlers
  /\ \A at \in {"idle", "escrow", "intent", "create", "save", "respond", "ledger", "row", "gig",
                "transfer", "refund", "count", "commit", "regig"} : at \in Stages
  /\ "host" \in Actors /\ "vendor" \in Actors /\ "system" \in Actors /\ "admin" \in Actors
  /\ Parties \subseteq Actors
BY DEF Handlers, Stages, Actors, Parties

LEMMA RequestFacts ==
  ASSUME NEW op \in Handlers, NEW at \in Stages, NEW by \in Actors
  PROVE  LET r == Request(op, at, by)
         IN /\ r \in Requests /\ r.op = op /\ r.at = at /\ r.by = by
            /\ r.e = CreateEscrow /\ r.g = "Draft"
<1>1. Idle \in Requests /\ Idle.e = CreateEscrow /\ Idle.g = "Draft"
  BY IdleFacts DEF Idle
<1> QED BY <1>1 DEF Request, Requests

\* What a handler reads of the row tells of the deposit the row has.
LEMMA RowRead ==
  ASSUME IInv, row # NoRow
  PROVE  LET e == Load(row, <<>>)
         IN /\ row \in EscrowRows /\ e \in EscrowRecords
            /\ e.entries = <<>> /\ RowOf(e) = row /\ e.state = row.state
            /\ e.deposit = row.deposit /\ e.deposit = World.row.deposit /\ World.row # NoRow
            /\ StateTold(e.state, World) /\ EntriesTold(e.entries, World)
<1>1. World.row = row BY DEF World
<1>2. row \in EscrowRows /\ StateTold(row.state, World) BY <1>1 DEF IInv, Accounts
<1>3. <<>> \in Seq(Entries) OBVIOUS
<1>4. LET e == Load(row, <<>>)
      IN /\ e \in EscrowRecords /\ e.entries = <<>> /\ RowOf(e) = row
         /\ e.state = row.state /\ e.deposit = row.deposit
  BY <1>2, <1>3, LoadFacts
<1>5. EntriesTold(<<>>, World) BY NothingTold
<1> QED BY <1>1, <1>2, <1>4, <1>5

LEMMA BeginStep ==
  ASSUME IInv, NEW w \in Workers, NEW x \in Requests, Begin(w, x), Sound(x, World), UNCHANGED tables
  PROVE  IInv'
BY QuietFrame DEF Begin

LEMMA StartFundStep ==
  ASSUME IInv, NEW w \in Workers, NEW i \in DepositIntents, StartFund(w, i)
  PROVE  IInv'
<1> DEFINE r == Request("fund", "escrow", "host")
           x == [r EXCEPT !.g = gig, !.ref = i]
<1>1. Begin(w, x) /\ UNCHANGED tables BY DEF StartFund, tables, rows, money
<1>2. /\ r \in Requests /\ r.op = "fund" /\ r.at = "escrow" /\ r.e = CreateEscrow
  BY HandlerNames, RequestFacts
<1>3. i \in Refs /\ gig \in GigStates /\ GigTold(gig, World) BY BookingAssumption DEF Intents, IInv
<1> HIDE DEF r
<1>4. /\ x \in Requests /\ x.op = "fund" /\ x.at = "escrow" /\ x.e = CreateEscrow
      /\ x.g = gig /\ x.ref = i
  BY <1>2, <1>3 DEF Requests
<1> HIDE DEF x
<1>5. x.op \in Ops BY <1>1 DEF Begin
<1>6. Sound(x, World)
  BY <1>3, <1>4, <1>5, CreateEscrowFacts, NothingTold DEF Sound, Snapshot
<1> QED BY <1>1, <1>4, <1>6, BeginStep

LEMMA StartBalanceStep ==
  ASSUME IInv, NEW w \in Workers, StartBalance(w)
  PROVE  IInv'
<1> DEFINE r == Request("balance", "intent", "host")
           x == [r EXCEPT !.ref = BalanceIntent]
<1>1. Begin(w, x) /\ UNCHANGED tables BY DEF StartBalance, tables, rows, money
<1>2. /\ r \in Requests /\ r.op = "balance" /\ r.at = "intent" /\ r.e = CreateEscrow
      /\ r.g = "Draft"
  BY HandlerNames, RequestFacts
<1>3. BalanceIntent \in Refs BY BookingAssumption DEF Intents
<1> HIDE DEF r
<1>4. /\ x \in Requests /\ x.op = "balance" /\ x.at = "intent" /\ x.e = CreateEscrow
      /\ x.g = "Draft" /\ x.ref = BalanceIntent
  BY <1>2, <1>3 DEF Requests
<1> HIDE DEF x
<1>5. x.op \in Ops BY <1>1 DEF Begin
<1>6. DepositPaid(World)
  <2>1. row # NoRow /\ row.state = "DepositHeld" BY DEF StartBalance
  <2> QED BY <2>1 DEF IInv, Accounts, World, StateTold
<1>7. Sound(x, World)
  BY <1>4, <1>5, <1>6, CreateEscrowFacts, NothingTold DEF Sound, Snapshot
<1> QED BY <1>1, <1>4, <1>7, BeginStep

LEMMA DeliverStep ==
  ASSUME IInv, NEW w \in Workers, NEW i \in Intents, Deliver(w, i)
  PROVE  IInv'
<1> DEFINE r == Request("webhook", "ledger", "system")
           e == Load(row, <<>>)
           x == [r EXCEPT !.e = e, !.ref = i]
<1>1. Begin(w, x) /\ UNCHANGED tables /\ row # NoRow BY DEF Deliver, Found, tables, rows, money
<1>2. /\ r \in Requests /\ r.op = "webhook" /\ r.at = "ledger" /\ r.g = "Draft"
  BY HandlerNames, RequestFacts
<1>3. i \in Refs /\ i \in World.charged BY BookingAssumption DEF Deliver, World
<1>4. /\ e \in EscrowRecords /\ e.deposit = World.row.deposit /\ World.row # NoRow
      /\ StateTold(e.state, World) /\ EntriesTold(e.entries, World)
  BY <1>1, RowRead
<1> HIDE DEF r, e
<1>5. /\ x \in Requests /\ x.op = "webhook" /\ x.at = "ledger" /\ x.e = e
      /\ x.g = "Draft" /\ x.ref = i
  BY <1>2, <1>3, <1>4 DEF Requests
<1> HIDE DEF x
<1>6. x.op \in Ops BY <1>1 DEF Begin
<1>7. Sound(x, World)
  BY <1>3, <1>4, <1>5, <1>6, NothingTold DEF Sound, Snapshot
<1> QED BY <1>1, <1>5, <1>7, BeginStep

\* An event that is only answered changes no table and no request.
LEMMA DismissStep ==
  ASSUME IInv, NEW w \in Workers, NEW i \in Intents, Dismiss(w, i)
  PROVE  IInv'
<1>1. UNCHANGED <<tables, req>> BY DEF Dismiss, tables, rows, money
<1>2. World' = World BY <1>1, SameWorld DEF tables
<1> QED BY <1>1, <1>2 DEF IInv, tables

\* Release, cancellation, dispute and ruling begin with the row.
LEMMA StartOnStep ==
  ASSUME IInv, NEW w \in Workers, NEW op \in {"release", "cancel", "dispute", "resolve"},
         NEW by \in Actors, NEW want \in [toVendor : Nat, toHost : Int],
         op = "release" => want.toVendor = VendorPayout,
         op = "resolve" => want.toHost >= 0,
         StartOn(w, op, by, want)
  PROVE  IInv'
<1> DEFINE r == Request(op, "ledger", by)
           e == Load(row, <<>>)
           x == [r EXCEPT !.e = e, !.want = want]
<1>1. Begin(w, x) /\ UNCHANGED tables /\ row # NoRow BY DEF StartOn, tables, rows, money
<1>2. /\ r \in Requests /\ r.op = op /\ r.at = "ledger" /\ r.g = "Draft"
  <2>1. op \in Handlers /\ "ledger" \in Stages BY HandlerNames
  <2> QED BY <2>1, RequestFacts
<1>3. /\ e \in EscrowRecords /\ e.deposit = World.row.deposit /\ World.row # NoRow
      /\ StateTold(e.state, World) /\ EntriesTold(e.entries, World)
  BY <1>1, RowRead
<1> HIDE DEF r, e
<1>4. /\ x \in Requests /\ x.op = op /\ x.at = "ledger" /\ x.e = e
      /\ x.g = "Draft" /\ x.want = want
  BY <1>2, <1>3 DEF Requests
<1> HIDE DEF x
<1>5. x.op \in Ops BY <1>1 DEF Begin
<1>6. Sound(x, World)
  BY <1>3, <1>4, <1>5, NothingTold DEF Sound, Snapshot
<1> QED BY <1>1, <1>4, <1>6, BeginStep

LEMMA WantFacts ==
  /\ NoWant \in [toVendor : Nat, toHost : Int] /\ NoWant.toVendor = 0 /\ NoWant.toHost = 0
  /\ ReleaseWant \in [toVendor : Nat, toHost : Int] /\ ReleaseWant.toVendor = VendorPayout
BY QuoteAssumption DEF NoWant, ReleaseWant

LEMMA StartSweepStep ==
  ASSUME IInv, NEW w \in Workers, StartSweep(w)
  PROVE  IInv'
<1> DEFINE r == Request("sweep", "row", "system")
           x == [r EXCEPT !.want = ReleaseWant]
<1>1. Begin(w, x) /\ UNCHANGED tables BY DEF StartSweep, tables, rows, money
<1>2. /\ r \in Requests /\ r.op = "sweep" /\ r.at = "row" /\ r.e = CreateEscrow /\ r.g = "Draft"
  BY HandlerNames, RequestFacts
<1> HIDE DEF r
<1>3. /\ x \in Requests /\ x.op = "sweep" /\ x.at = "row" /\ x.e = CreateEscrow
      /\ x.g = "Draft" /\ x.want = ReleaseWant
  BY <1>2, WantFacts DEF Requests
<1> HIDE DEF x
<1>4. x.op \in Ops /\ World.row # NoRow BY <1>1 DEF Begin, StartSweep, World
<1>5. Sound(x, World)
  BY <1>3, <1>4, WantFacts, CreateEscrowFacts, NothingTold DEF Sound, Snapshot
<1> QED BY <1>1, <1>3, <1>5, BeginStep

LEMMA StartTransitionStep ==
  ASSUME IInv, NEW w \in Workers, NEW by \in Parties, NEW to \in GigStates,
         StartTransition(w, by, to)
  PROVE  IInv'
<1> DEFINE r == Request("transition", "escrow", by)
           x == [r EXCEPT !.g = gig, !.to = to]
<1>1. Begin(w, x) /\ UNCHANGED tables BY DEF StartTransition, tables, rows, money
<1>2. /\ r \in Requests /\ r.op = "transition" /\ r.at = "escrow" /\ r.e = CreateEscrow
  BY HandlerNames, RequestFacts
<1>3. gig \in GigStates /\ GigTold(gig, World) BY DEF IInv
<1> HIDE DEF r
<1>4. /\ x \in Requests /\ x.op = "transition" /\ x.at = "escrow" /\ x.e = CreateEscrow
      /\ x.g = gig
  BY <1>2, <1>3 DEF Requests
<1> HIDE DEF x
<1>5. x.op \in Ops BY <1>1 DEF Begin
<1>6. Sound(x, World)
  BY <1>3, <1>4, <1>5, CreateEscrowFacts, NothingTold DEF Sound, Snapshot
<1> QED BY <1>1, <1>4, <1>6, BeginStep

LEMMA StartStep ==
  ASSUME IInv, NEW w \in Workers, Start(w)
  PROVE  IInv'
<1>1. CASE \E i \in DepositIntents : StartFund(w, i) BY <1>1, StartFundStep
<1>2. CASE StartBalance(w) BY <1>2, StartBalanceStep
<1>3. CASE \E i \in Intents : Deliver(w, i) \/ Dismiss(w, i) BY <1>3, DeliverStep, DismissStep
<1>4. CASE \E by \in {"host", "admin"} : StartRelease(w, by)
  BY <1>4, WantFacts, StartOnStep, HandlerNames DEF StartRelease
<1>5. CASE StartSweep(w) BY <1>5, StartSweepStep
<1>6. CASE \E by \in Parties : StartCancel(w, by)
  BY <1>6, WantFacts, StartOnStep, HandlerNames DEF StartCancel
<1>7. CASE \E by \in {"host", "vendor"} : StartDispute(w, by)
  BY <1>7, WantFacts, StartOnStep, HandlerNames DEF StartDispute
<1>8. CASE \E split \in Splits : StartResolve(w, split)
  <2>1. PICK split \in Splits : StartResolve(w, split) BY <1>8
  <2> DEFINE want == [toVendor |-> split[1], toHost |-> split[2]]
  <2>2. split \in Nat \X Nat BY BookingAssumption
  <2>3. want \in [toVendor : Nat, toHost : Int] /\ want.toHost >= 0 BY <2>2
  <2>4. StartOn(w, "resolve", "admin", want) BY <2>1 DEF StartResolve
  <2> HIDE DEF want
  <2> QED BY <2>3, <2>4, StartOnStep, HandlerNames
<1>9. CASE \E by \in Parties, to \in GigStates : StartTransition(w, by, to)
  BY <1>9, StartTransitionStep
<1> QED
  BY <1>1, <1>2, <1>3, <1>4, <1>5, <1>6, <1>7, <1>8, <1>9 DEF Start
-----------------------------------------------------------------------------
\* Funding

LEMMA InFlight ==
  ASSUME IInv, NEW w \in Workers
  PROVE  /\ req[w] \in Requests /\ Sound(req[w], World)
         /\ StateTold(req[w].e.state, World) /\ EntriesTold(req[w].e.entries, World)
         /\ GigTold(req[w].g, World) /\ req[w].op \in Ops \cup {"none"}
BY DEF IInv, Sound

\* A request that only moves on to another await.
LEMMA GoToStep ==
  ASSUME IInv, NEW w \in Workers, NEW a \in Stages, GoTo(w, a), UNCHANGED tables,
         a \notin Snapshot, a \notin {"create", "row", "regig"},
         a \in {"escrow", "intent"} /\ req[w].op = "fund" => req[w].e = CreateEscrow,
         a \in {"save", "respond"} /\ req[w].op = "fund" =>
           row # NoRow /\ req[w].ref = row.deposit
  PROVE  IInv'
<1> DEFINE r == req[w]
           x == [r EXCEPT !.at = a]
<1>1. r \in Requests /\ Sound(r, World) BY InFlight
<1>2. req' = [req EXCEPT ![w] = x] BY DEF GoTo
<1>3. /\ a \in {"save", "respond"} /\ r.op = "fund" => World.row # NoRow /\ r.ref = World.row.deposit
      /\ a \in {"escrow", "intent"} /\ r.op = "fund" => r.e = CreateEscrow
  BY DEF World
<1> HIDE DEF r
<1>4. /\ x \in Requests /\ x.at = a /\ x.op = r.op /\ x.e = r.e /\ x.g = r.g /\ x.ref = r.ref
      /\ x.want = r.want
  BY <1>1 DEF Requests
<1> HIDE DEF x
<1>5. a # "transfer" /\ a # "refund" BY DEF Snapshot
<1>6. Sound(x, World)
  BY <1>1, <1>3, <1>4, <1>5 DEF Sound
<1> QED BY <1>2, <1>4, <1>6, QuietFrame

LEMMA FundLookupStep ==
  ASSUME IInv, NEW w \in Workers, FundLookup(w)
  PROVE  IInv'
<1>1. UNCHANGED tables BY DEF FundLookup, tables, rows, money
<1>2. CASE row = NoRow
  <2>1. GoTo(w, "intent") BY <1>2 DEF FundLookup
  <2>2. "intent" \in Stages /\ "intent" \notin Snapshot BY DEF Stages, Snapshot
  <2>3. req[w].op = "fund" /\ req[w].at = "escrow" BY DEF FundLookup, Doing, At
  <2>4. req[w].e = CreateEscrow BY <2>3, InFlight DEF Sound
  <2> QED BY <1>1, <2>1, <2>2, <2>4, GoToStep
<1>3. CASE row # NoRow
  <2>1. End(w) BY <1>3 DEF FundLookup
  <2> QED BY <1>1, <2>1, EndStep
<1> QED BY <1>2, <1>3

LEMMA FundIntentStep ==
  ASSUME IInv, NEW w \in Workers, FundIntent(w)
  PROVE  IInv'
<1> DEFINE r == req[w]
           e == [CreateEscrow EXCEPT !.deposit = r.ref]
           x == [r EXCEPT !.e = e, !.at = "create"]
<1>1. r \in Requests /\ Sound(r, World) /\ GigTold(r.g, World) BY InFlight
<1>2. r.op = "fund" /\ r.at = "intent" /\ UNCHANGED tables
  BY DEF FundIntent, tables, rows, money, Doing, At
<1>3. r.e = CreateEscrow /\ r.ref \in DepositIntents /\ r.ref \in Refs \cup {NoRef} /\ r.op \in Ops
  BY <1>1, <1>2 DEF Sound, Requests
<1>4. req' = [req EXCEPT ![w] = x]
  <2>1. req' = [req EXCEPT ![w] = [r EXCEPT !.e = [r.e EXCEPT !.deposit = r.ref], !.at = "create"]]
    BY <1>1 DEF FundIntent, IInv, Requests
  <2> QED BY <2>1, <1>3
<1>5. e \in EscrowRecords /\ e.state = "AwaitingDeposit" /\ e.entries = <<>>
  BY <1>3, CreateEscrowFacts
<1>6. e = [CreateEscrow EXCEPT !.deposit = r.ref] OBVIOUS
<1> HIDE DEF r, e
<1>7. /\ x \in Requests /\ x.at = "create" /\ x.op = "fund" /\ x.e = e /\ x.g = r.g
      /\ x.ref = r.ref
  BY <1>1, <1>2, <1>5 DEF Requests, Stages
<1> HIDE DEF x
<1>8. Sound(x, World)
  BY <1>1, <1>2, <1>3, <1>5, <1>6, <1>7, NothingTold DEF Sound, Snapshot
<1> QED BY <1>2, <1>4, <1>7, <1>8, QuietFrame

\* A request whose copy of the escrow is dropped.
LEMMA SavedFacts ==
  ASSUME NEW m, NEW r \in Requests, Sound(r, m), NEW a \in {"save", "regig", "respond"},
         r.op = "fund" => a # "regig" /\ m.row # NoRow /\ r.ref = m.row.deposit
  PROVE  LET x == [r EXCEPT !.e = CreateEscrow, !.count = 0, !.at = a]
         IN x \in Requests /\ Sound(x, m)
<1> DEFINE x == [r EXCEPT !.e = CreateEscrow, !.count = 0, !.at = a]
<1>1. /\ x \in Requests /\ x.at = a /\ x.op = r.op /\ x.e = CreateEscrow /\ x.g = r.g
      /\ x.ref = r.ref /\ x.want = r.want
  BY CreateEscrowFacts DEF Requests, Stages
<1> HIDE DEF x
<1>2. Sound(x, m)
  BY <1>1, CreateEscrowFacts, NothingTold DEF Sound, Snapshot
<1> QED BY <1>1, <1>2 DEF x

LEMMA FundCreateStep ==
  ASSUME IInv, NEW w \in Workers, FundCreate(w)
  PROVE  IInv'
<1>1. UNCHANGED <<ledger, gig, tokens, charged, transfers, refunds>>
  BY DEF FundCreate, rows, money
<1>2. CASE row # NoRow
  <2>1. End(w) /\ UNCHANGED tables BY <1>1, <1>2 DEF FundCreate, tables
  <2> QED BY <2>1, EndStep
<1>3. CASE row = NoRow
  <2> DEFINE r == req[w]
             x == [r EXCEPT !.e = CreateEscrow, !.count = 0, !.at = "save"]
  <2>1. r \in Requests /\ Sound(r, World) BY InFlight
  <2>2. r.op = "fund" /\ r.at = "create" BY DEF FundCreate, Doing, At
  <2>3. row' = RowOf(r.e) /\ req' = [req EXCEPT ![w] = x]
    BY <1>3 DEF FundCreate, Saved
  <2>4. r.e = [CreateEscrow EXCEPT !.deposit = r.ref] /\ r.ref \in Refs \cup {NoRef}
    BY <2>1, <2>2 DEF Sound, Requests
  <2>5. r.e \in EscrowRecords /\ r.e.state = "AwaitingDeposit" /\ r.e.deposit = r.ref
    BY <2>4, CreateEscrowFacts
  <2>6. row' \in EscrowRows /\ row'.state = "AwaitingDeposit" /\ row'.deposit = r.ref /\ row' # NoRow
    BY <2>3, <2>5, EscrowFields, BookingAssumption DEF RowOf
  <2>7. /\ World'.row = row' /\ World'.charged = World.charged
        /\ World'.transfers = World.transfers /\ World'.refunds = World.refunds
        /\ World.row = NoRow
    BY <1>1, <1>3 DEF World
  <2>8. Kept(World, World') BY <2>7 DEF Kept
  <2>9. DepositPaid(World) <=> DepositPaid(World') BY <2>7 DEF DepositPaid
  <2>10. Accounts(World')
    <3>1. StateTold("AwaitingDeposit", World') BY NothingTold
    <3>2. Accounts(World) BY DEF IInv
    <3> QED BY <2>6, <2>7, <2>9, <3>1, <3>2 DEF Accounts
  <2>11. Payable(charged', tokens', World')
    <3>1. Payable(charged, tokens, World) BY DEF IInv
    <3> QED BY <1>1, <2>7, <2>9, <3>1 DEF Payable
  <2>12. EntriesTold(ledger', World') /\ GigTold(gig', World')
    BY <1>1, <2>8, StaysTold DEF IInv
  <2>13. Sound(r, World') BY <2>1, <2>8, StaysSound DEF IInv
  <2>14. x \in Requests /\ Sound(x, World')
    <3>1. World'.row # NoRow /\ r.ref = World'.row.deposit BY <2>6, <2>7
    <3> HIDE DEF r
    <3> QED BY <2>1, <2>13, <3>1, SavedFacts
  <2> HIDE DEF x, r
  <2>15. /\ req' \in [Workers -> Requests]
         /\ \A u \in Workers : req'[u] = req[u] \/ Sound(req'[u], World')
    BY <2>3, <2>14 DEF IInv
  <2>16. ledger' \in Seq(Entries) /\ Once(ledger') /\ gig' \in GigStates BY <1>1 DEF IInv
  <2> QED BY <2>8, <2>10, <2>11, <2>12, <2>15, <2>16, Frame
<1> QED BY <1>2, <1>3

LEMMA FundSaveGigStep ==
  ASSUME IInv, NEW w \in Workers, FundSaveGig(w)
  PROVE  IInv'
<1> DEFINE r == req[w]
           x == [r EXCEPT !.g = "Draft", !.at = "respond"]
<1>1. r \in Requests /\ Sound(r, World) /\ GigTold(r.g, World) BY InFlight
<1>2. r.op = "fund" /\ r.at = "save" BY DEF FundSaveGig, Doing, At
<1>3. /\ req' = [req EXCEPT ![w] = x] /\ gig' = r.g
      /\ UNCHANGED <<row, ledger, tokens, charged, transfers, refunds>>
  BY IdleFacts DEF FundSaveGig, money
<1>4. World' = World BY <1>3, SameWorld
<1>5. r.g \in GigStates BY <1>1, RequestFields
<1> HIDE DEF r
<1>6. /\ x \in Requests /\ x.at = "respond" /\ x.op = "fund" /\ x.e = r.e /\ x.g = "Draft"
      /\ x.ref = r.ref /\ x.want = r.want
  BY <1>1, <1>2 DEF Requests, Stages, GigStates
<1> HIDE DEF x
<1>7. Sound(x, World)
  BY <1>1, <1>2, <1>6, NothingTold DEF Sound, Snapshot
<1>8. Kept(World, World') BY <1>4, KeptSame
<1>9. /\ req' \in [Workers -> Requests]
      /\ \A u \in Workers : req'[u] = req[u] \/ Sound(req'[u], World')
  BY <1>3, <1>4, <1>6, <1>7 DEF IInv
<1>10. /\ Accounts(World') /\ Payable(charged', tokens', World')
       /\ ledger' \in Seq(Entries) /\ EntriesTold(ledger', World') /\ Once(ledger')
       /\ gig' \in GigStates /\ GigTold(gig', World')
  BY <1>1, <1>3, <1>4, <1>5 DEF IInv
<1> QED BY <1>8, <1>9, <1>10, Frame

LEMMA BalanceMakeIntentStep ==
  ASSUME IInv, NEW w \in Workers, BalanceMakeIntent(w)
  PROVE  IInv'
<1>1. GoTo(w, "respond") /\ UNCHANGED tables /\ req[w].op = "balance"
  BY DEF BalanceMakeIntent, tables, rows, Doing
<1>2. "respond" \in Stages /\ "respond" \notin Snapshot BY DEF Stages, Snapshot
<1> QED BY <1>1, <1>2, GoToStep

LEMMA RespondStep ==
  ASSUME IInv, NEW w \in Workers, Respond(w)
  PROVE  IInv'
<1> DEFINE i == req[w].ref
<1>1. /\ req' = [req EXCEPT ![w] = Idle] /\ tokens' = tokens \cup {i}
      /\ UNCHANGED <<row, ledger, gig, charged, transfers, refunds>>
  BY DEF Respond, End, rows, money
<1>2. World' = World BY <1>1, SameWorld
<1>3. Payable(charged', tokens', World')
  <2>1. Payable(charged, tokens, World) BY DEF IInv
  <2>2. req[w].op \in {"fund", "balance"} /\ req[w].at = "respond" BY DEF Respond, Doing, At
  <2>3. CASE req[w].op = "fund"
    <3>1. i \in DepositIntents /\ World.row # NoRow /\ i = World.row.deposit
      BY <2>2, <2>3, InFlight DEF Sound
    <3>2. i # BalanceIntent BY <3>1, BookingAssumption
    <3> HIDE DEF i
    <3> QED BY <1>1, <1>2, <2>1, <3>1, <3>2 DEF Payable, Intents
  <2>4. CASE req[w].op = "balance"
    <3>1. i = BalanceIntent /\ DepositPaid(World) BY <2>4, InFlight DEF Sound
    <3>2. i \notin DepositIntents BY <3>1, BookingAssumption
    <3> HIDE DEF i
    <3> QED BY <1>1, <1>2, <2>1, <3>1, <3>2 DEF Payable, Intents
  <2> QED BY <2>2, <2>3, <2>4
<1>4. Kept(World, World') BY <1>2, KeptSame
<1>5. /\ req' \in [Workers -> Requests]
      /\ \A u \in Workers : req'[u] = req[u] \/ Sound(req'[u], World')
  BY <1>1, IdleFacts DEF IInv
<1>6. /\ Accounts(World')
      /\ ledger' \in Seq(Entries) /\ EntriesTold(ledger', World') /\ Once(ledger')
      /\ gig' \in GigStates /\ GigTold(gig', World')
  BY <1>1, <1>2 DEF IInv
<1> QED BY <1>3, <1>4, <1>5, <1>6, Frame

LEMMA PayStep ==
  ASSUME IInv, NEW i \in Intents, Pay(i)
  PROVE  IInv'
<1>1. /\ i \in tokens /\ charged' = charged \cup {i}
      /\ UNCHANGED <<row, ledger, gig, tokens, transfers, refunds, req>>
  BY DEF Pay, rows
<1>2. /\ World'.row = World.row /\ World'.charged = World.charged \cup {i}
      /\ World'.transfers = World.transfers /\ World'.refunds = World.refunds
      /\ World.charged = charged
  BY <1>1 DEF World
<1>3. Kept(World, World') BY <1>2 DEF Kept
<1>4. DepositPaid(World) => DepositPaid(World') BY <1>3, StaysPaid
<1>5. Payable(charged, tokens, World) BY DEF IInv
<1>6. Payable(charged', tokens', World') BY <1>1, <1>2, <1>4, <1>5 DEF Payable
<1>7. Accounts(World')
  <2>1. Accounts(World) BY DEF IInv
  <2>2. World'.row # NoRow => StateTold(World'.row.state, World')
    BY <1>2, <1>3, <2>1, StaysTold DEF Accounts
  <2>3. i = BalanceIntent => DepositPaid(World') BY <1>1, <1>4, <1>5 DEF Payable
  <2> QED BY <1>2, <1>4, <2>1, <2>2, <2>3 DEF Accounts
<1>8. EntriesTold(ledger', World') /\ GigTold(gig', World')
  BY <1>1, <1>3, StaysTold DEF IInv
<1>9. /\ ledger' \in Seq(Entries) /\ Once(ledger') /\ gig' \in GigStates
      /\ req' \in [Workers -> Requests] /\ \A u \in Workers : req'[u] = req[u]
  BY <1>1 DEF IInv
<1> QED BY <1>3, <1>6, <1>7, <1>8, <1>9, Frame
-----------------------------------------------------------------------------
\* What the functions of the domain return tells of what has happened

\* A copy of the escrow that may be saved.
Savable(e, m) ==
  /\ e \in EscrowRecords /\ StateTold(e.state, m) /\ EntriesTold(e.entries, m)
  /\ m.row # NoRow /\ e.deposit = m.row.deposit

LEMMA EntryAppended ==
  ASSUME NEW s \in Seq(Entries), NEW x \in Entries, NEW m, EntriesTold(s, m), EntryTold(x, m)
  PROVE  EntriesTold(Append(s, x), m)
<1> DEFINE t == Append(s, x)
<1>1. /\ DOMAIN t = DOMAIN s \cup {Len(s) + 1} /\ t[Len(s) + 1] = x
      /\ \A i \in DOMAIN s : t[i] = s[i]
  OBVIOUS
<1> HIDE DEF t
<1>2. EntriesTold(t, m) BY <1>1 DEF EntriesTold
<1> QED BY <1>2 DEF t

\* Posting an entry that tells of something keeps an escrow's entries told.
LEMMA PostTold ==
  ASSUME NEW e \in EscrowRecords, NEW m, EntriesTold(e.entries, m),
         NEW type \in EntryTypes, NEW amount \in Int, NEW ref \in Refs \cup {NoRef},
         EntryTold([type |-> type, amount |-> amount, ref |-> ref], m)
  PROVE  LET p == Post(e, type, amount, ref)
         IN /\ p \in EscrowRecords /\ EntriesTold(p.entries, m)
            /\ p.entries = Append(e.entries, [type |-> type, amount |-> amount, ref |-> ref])
            /\ p.state = e.state /\ p.deposit = e.deposit
            /\ p.captured = IF type \in CaptureTypes THEN e.captured + amount ELSE e.captured
<1> DEFINE x == [type |-> type, amount |-> amount, ref |-> ref]
           p == Post(e, type, amount, ref)
<1>1. x \in Entries /\ x.type = type /\ x.amount = amount /\ x.ref = ref BY DEF Entries
<1>2. e.entries \in Seq(Entries) BY EscrowFields
<1>3. EntryTold(x, m) OBVIOUS
<1> HIDE DEF x
<1>4. EntriesTold(Append(e.entries, x), m) BY <1>1, <1>2, <1>3, EntryAppended
<1>5. /\ p \in EscrowRecords /\ p.entries = Append(e.entries, x)
      /\ p.state = e.state /\ p.deposit = e.deposit
      /\ p.captured = IF type \in CaptureTypes THEN e.captured + amount ELSE e.captured
  BY <1>1, PostFacts
<1> HIDE DEF p
<1> QED BY <1>4, <1>5 DEF p, x

LEMMA WithState ==
  ASSUME NEW e \in EscrowRecords, NEW s \in EscrowStates
  PROVE  LET p == [e EXCEPT !.state = s]
         IN /\ p \in EscrowRecords /\ p.state = s /\ p.entries = e.entries
            /\ p.deposit = e.deposit
BY DEF EscrowRecords

LEMMA RefFacts ==
  /\ Intents \subseteq Refs /\ Transfers \subseteq Refs /\ RefundKeys \subseteq Refs
  /\ BalanceIntent \in Intents /\ BalanceIntent \notin DepositIntents
  /\ \A i \in Intents : i # BalanceIntent => i \in DepositIntents
  /\ ReleaseTransfer \in Transfers /\ DisputeTransfer \in Transfers
  /\ CancelRefund \in RefundKeys /\ DisputeRefund \in RefundKeys
  /\ \A i \in Intents : i \notin Transfers /\ i \notin RefundKeys /\ i # NoRef
  /\ \A i \in Transfers : i \notin RefundKeys /\ i # NoRef
  /\ NoRef \notin RefundKeys
  /\ ReleaseTransfer # DisputeTransfer
BY BookingAssumption, RefAssumption DEF Intents, Transfers, RefundKeys

LEMMA AmountFacts ==
  /\ \A i \in Intents : AmountOf(i) \in Nat
  /\ HostTotal \in Nat /\ DepositDue \in Nat /\ BalanceDue \in Nat /\ VendorPayout \in Nat
  /\ PlatformRevenue \in Int /\ BalanceDue = HostTotal - DepositDue /\ HostTotal > 0
BY QuoteAssumption DEF AmountOf, BalanceDue, PlatformRevenue

\* A capture that Stripe has made, of the row's deposit or of the balance.
LEMMA RecordTold ==
  ASSUME NEW e, NEW m, Savable(e, m), Accounts(m), NEW i \in Intents, i \in m.charged,
         \A j \in m.charged : j # BalanceIntent => j = m.row.deposit,
         RecordAllowed(e, i),
         \E r \in EscrowRows : e = Load(r, e.entries)
  PROVE  Savable(Record(e, i), m)
<1>1. CASE Booked(e, i)
  BY <1>1 DEF Record, RecordDeposit, RecordBalance
<1>2. CASE ~ Booked(e, i) /\ i = BalanceIntent
  <2> DEFINE d == [e EXCEPT !.balance = i]
             p == Post(d, "balance_captured", AmountOf(i), i)
  <2>1. e \in EscrowRecords /\ i \in Refs \cup {NoRef} BY RefFacts DEF Savable
  <2>2. d \in EscrowRecords /\ d.entries = e.entries /\ d.deposit = e.deposit
    BY <2>1 DEF EscrowRecords
  <2>3. EntryTold([type |-> "balance_captured", amount |-> AmountOf(i), ref |-> i], m)
    BY DEF EntryTold, CaptureTypes
  <2>4. "balance_captured" \in EntryTypes BY DEF EntryTypes, CaptureTypes
  <2>5. AmountOf(i) \in Int BY AmountFacts
  <2>6. EntriesTold(d.entries, m) BY <2>2 DEF Savable
  <2> HIDE DEF d
  <2>7. p \in EscrowRecords /\ EntriesTold(p.entries, m) /\ p.deposit = d.deposit
    BY <2>1, <2>2, <2>3, <2>4, <2>5, <2>6, PostTold
  <2>8. Record(e, i) = [p EXCEPT !.state = "FullyFunded"]
    BY <1>2 DEF Record, RecordBalance, d
  <2>9. StateTold("FullyFunded", m)
    BY <1>2 DEF StateTold, PricePaid, Accounts
  <2> HIDE DEF p
  <2>10. "FullyFunded" \in EscrowStates BY DEF EscrowStates
  <2> QED BY <2>2, <2>7, <2>8, <2>9, <2>10, WithState DEF Savable
<1>3. CASE ~ Booked(e, i) /\ i # BalanceIntent
  <2> DEFINE d == [e EXCEPT !.deposit = i]
             p == Post(d, "deposit_captured", AmountOf(i), i)
             s == IF p.captured >= HostTotal THEN "FullyFunded" ELSE "DepositHeld"
  <2>1. e \in EscrowRecords /\ i \in Refs \cup {NoRef} /\ i \in DepositIntents /\ i = m.row.deposit
    BY <1>3, RefFacts DEF Savable
  <2>2. d \in EscrowRecords /\ d.entries = e.entries /\ d.deposit = i /\ d.captured = e.captured
    BY <2>1 DEF EscrowRecords
  <2>3. EntryTold([type |-> "deposit_captured", amount |-> AmountOf(i), ref |-> i], m)
    BY DEF EntryTold, CaptureTypes
  <2>4. "deposit_captured" \in EntryTypes /\ "deposit_captured" \in CaptureTypes
    BY DEF EntryTypes, CaptureTypes
  <2>5. AmountOf(i) \in Int /\ AmountOf(i) = DepositDue BY <1>3, AmountFacts DEF AmountOf
  <2>6. EntriesTold(d.entries, m) BY <2>2 DEF Savable
  <2> HIDE DEF d
  <2>7. /\ p \in EscrowRecords /\ EntriesTold(p.entries, m) /\ p.deposit = d.deposit
        /\ p.captured = e.captured + DepositDue
    BY <2>1, <2>2, <2>3, <2>4, <2>5, <2>6, PostTold
  <2>8. Record(e, i) = [p EXCEPT !.state = s]
    BY <1>3 DEF Record, RecordDeposit, d
  <2>9. DepositPaid(m) BY <2>1 DEF DepositPaid
  <2>10. StateTold(s, m)
    <3>1. ASSUME p.captured >= HostTotal PROVE BalanceDue = 0 \/ BalanceIntent \in m.charged
      <4>1. CASE e.captured > 0
        <5>1. PICK r \in EscrowRows : e = Load(r, e.entries) OBVIOUS
        <5>2. e.entries \in Seq(Entries) BY <2>1, EscrowFields
        <5>3. PICK j \in DOMAIN e.entries : e.entries[j].type \in CaptureTypes
          BY <4>1, <5>1, <5>2, CapturedSomewhere
        <5>4. EntryTold(e.entries[j], m) BY DEF Savable, EntriesTold
        <5>5. e.entries[j].ref \in m.charged /\ e.entries[j].ref # i
          BY <1>3, <5>3, <5>4 DEF EntryTold, Booked
        <5>6. e.entries[j].ref = BalanceIntent BY <1>3, <5>5
        <5> QED BY <5>5, <5>6
      <4>2. CASE e.captured <= 0
        BY <3>1, <4>2, <2>7, <2>1, EscrowFields, AmountFacts
      <4> QED BY <4>1, <4>2, <2>1, EscrowFields
    <3> QED BY <2>9, <3>1 DEF StateTold, PricePaid
  <2> HIDE DEF p
  <2>11. s \in EscrowStates BY DEF EscrowStates
  <2> QED BY <2>1, <2>2, <2>7, <2>8, <2>10, <2>11, WithState DEF Savable
<1> QED BY <1>1, <1>2, <1>3

LEMMA ReleaseTold ==
  ASSUME NEW e, NEW m, Savable(e, m), m.transfers[ReleaseTransfer] = VendorPayout,
         NEW approval, ReleaseAllowed(e, approval)
  PROVE  Savable(Release(e, ReleaseTransfer), m)
<1>1. CASE e.transfer # NoRef BY <1>1 DEF Release
<1>2. CASE e.transfer = NoRef
  <2> DEFINE d == [e EXCEPT !.transfer = ReleaseTransfer]
             p == Post(d, "payout_released", -VendorPayout, ReleaseTransfer)
             q == Post(p, "commission_taken", -PlatformRevenue, NoRef)
  <2>1. e \in EscrowRecords /\ ReleaseTransfer \in Refs \cup {NoRef} BY RefFacts DEF Savable
  <2>2. d \in EscrowRecords /\ d.entries = e.entries /\ d.deposit = e.deposit
    BY <2>1 DEF EscrowRecords
  <2>3. PricePaid(m) BY <1>2 DEF ReleaseAllowed, Savable, StateTold
  <2>4. /\ EntryTold([type |-> "payout_released", amount |-> -VendorPayout,
                      ref |-> ReleaseTransfer], m)
        /\ EntryTold([type |-> "commission_taken", amount |-> -PlatformRevenue, ref |-> NoRef], m)
    BY <2>3 DEF EntryTold, CaptureTypes
  <2>5. "payout_released" \in EntryTypes /\ "commission_taken" \in EntryTypes
    BY DEF EntryTypes, PayoutTypes
  <2>6. -VendorPayout \in Int /\ -PlatformRevenue \in Int BY AmountFacts
  <2>7. EntriesTold(d.entries, m) BY <2>2 DEF Savable
  <2>8. Release(e, ReleaseTransfer) = [q EXCEPT !.state = "Released"] BY <1>2 DEF Release
  <2> HIDE DEF d
  <2>9. p \in EscrowRecords /\ EntriesTold(p.entries, m) /\ p.deposit = d.deposit
    BY <2>1, <2>2, <2>4, <2>5, <2>6, <2>7, PostTold
  <2> HIDE DEF p
  <2>10. q \in EscrowRecords /\ EntriesTold(q.entries, m) /\ q.deposit = p.deposit
    BY <2>4, <2>5, <2>6, <2>9, PostTold
  <2>11. StateTold("Released", m) BY <2>3 DEF StateTold, PricePaid
  <2> HIDE DEF q
  <2>12. "Released" \in EscrowStates BY DEF EscrowStates
  <2> QED BY <2>2, <2>8, <2>9, <2>10, <2>11, <2>12, WithState DEF Savable
<1> QED BY <1>1, <1>2

\* Whoever was refunded has paid.
LEMMA RefundedPaid ==
  ASSUME NEW m, Accounts(m), NEW k \in RefundKeys, m.refunds[k] # NoRefund
  PROVE  DepositPaid(m) /\ m.refunds[k].amount \in Nat \ {0}
<1>1. m.refunds[k].amount \in Nat \ {0} /\ m.refunds[k].intent \in m.charged BY DEF Accounts
<1>2. DepositPaid(m) BY <1>1, RefFacts DEF Accounts, DepositPaid
<1> QED BY <1>1, <1>2

LEMMA RefundTold ==
  ASSUME NEW e, NEW m, Savable(e, m), Accounts(m), NEW k \in RefundKeys,
         m.refunds[k] # NoRefund
  PROVE  LET p == Post(e, "refund_issued", -m.refunds[k].amount, k)
         IN p \in EscrowRecords /\ EntriesTold(p.entries, m) /\ p.deposit = e.deposit
            /\ p.state = e.state
<1> DEFINE a == -m.refunds[k].amount
<1>1. m.refunds[k].amount \in Nat BY RefundedPaid
<1>2. a \in Int /\ k \in Refs \cup {NoRef} BY <1>1, RefFacts
<1>3. EntryTold([type |-> "refund_issued", amount |-> a, ref |-> k], m)
  BY DEF EntryTold, CaptureTypes
<1>4. "refund_issued" \in EntryTypes BY DEF EntryTypes
<1>5. e \in EscrowRecords /\ EntriesTold(e.entries, m) BY DEF Savable
<1> HIDE DEF a
<1>6. LET p == Post(e, "refund_issued", a, k)
      IN p \in EscrowRecords /\ EntriesTold(p.entries, m) /\ p.deposit = e.deposit
         /\ p.state = e.state
  BY <1>2, <1>3, <1>4, <1>5, PostTold
<1> QED BY <1>6 DEF a

LEMMA CancelTold ==
  ASSUME NEW e, NEW m, Savable(e, m), Accounts(m), NEW amount \in Int,
         m.refunds[CancelRefund] # NoRefund, m.refunds[CancelRefund].amount = amount
  PROVE  Savable(Refund(e, amount, CancelRefund), m)
<1>1. CASE Booked(e, CancelRefund) BY <1>1 DEF Refund
<1>2. CASE ~ Booked(e, CancelRefund)
  <2> DEFINE p == Post(e, "refund_issued", -amount, CancelRefund)
             s == IF HeldCents(p) = 0 THEN "Refunded" ELSE "PartiallyRefunded"
  <2>1. p \in EscrowRecords /\ EntriesTold(p.entries, m) /\ p.deposit = e.deposit
    BY RefFacts, RefundTold
  <2>2. Refund(e, amount, CancelRefund) = [p EXCEPT !.state = s] BY <1>2 DEF Refund
  <2>3. s \in EscrowStates BY DEF EscrowStates
  <2>4. StateTold(s, m) BY RefundedPaid, RefFacts DEF StateTold
  <2> HIDE DEF p, s
  <2> QED BY <2>1, <2>2, <2>3, <2>4, WithState DEF Savable
<1> QED BY <1>1, <1>2

LEMMA DisputeTold ==
  ASSUME NEW e, NEW m, Savable(e, m), "dispute" \in Ops
  PROVE  Savable(OpenDispute(e), m)
<1> DEFINE p == Post(e, "dispute_hold", 0, NoRef)
<1>1. EntryTold([type |-> "dispute_hold", amount |-> 0, ref |-> NoRef], m)
  BY DEF EntryTold, CaptureTypes
<1>2. "dispute_hold" \in EntryTypes /\ 0 \in Int /\ NoRef \in Refs \cup {NoRef}
  BY DEF EntryTypes
<1>3. e \in EscrowRecords /\ EntriesTold(e.entries, m) BY DEF Savable
<1>4. p \in EscrowRecords /\ EntriesTold(p.entries, m) /\ p.deposit = e.deposit
  BY <1>1, <1>2, <1>3, PostTold
<1>5. OpenDispute(e) = [p EXCEPT !.state = "Disputed"] BY DEF OpenDispute
<1>6. StateTold("Disputed", m) /\ "Disputed" \in EscrowStates BY DEF StateTold, EscrowStates
<1> HIDE DEF p
<1> QED BY <1>4, <1>5, <1>6, WithState DEF Savable

\* A ruling is saved once Stripe has done what it asks for.
LEMMA RulingTold ==
  ASSUME NEW e, NEW m, Savable(e, m), Accounts(m), NEW toVendor \in Nat, NEW toHost \in Int,
         NEW transfer, NEW refund,
         ResolveDisputeAllowed(e, toVendor, toHost),
         toVendor > 0 => transfer = DisputeTransfer /\ m.transfers[DisputeTransfer] = toVendor,
         toHost > 0 => /\ refund = DisputeRefund /\ m.refunds[DisputeRefund] # NoRefund
                       /\ m.refunds[DisputeRefund].amount = toHost
  PROVE  Savable(ResolveDispute(e, toVendor, toHost, transfer, refund), m)
<1> DEFINE p == IF toHost > 0 THEN Post(e, "refund_issued", -toHost, refund) ELSE e
           q == IF toVendor > 0 THEN Post(p, "dispute_released", -toVendor, transfer) ELSE p
           s == IF toVendor > 0 THEN "Released" ELSE "Refunded"
<1>1. ResolveDispute(e, toVendor, toHost, transfer, refund) = [q EXCEPT !.state = s]
  BY DEF ResolveDispute
<1>2. e \in EscrowRecords /\ EntriesTold(e.entries, m) BY DEF Savable
<1>3. p \in EscrowRecords /\ EntriesTold(p.entries, m) /\ p.deposit = e.deposit
  <2>1. CASE toHost > 0 BY <2>1, RefFacts, RefundTold
  <2>2. CASE ~ (toHost > 0) BY <2>2, <1>2
  <2> QED BY <2>1, <2>2
<1> HIDE DEF p
<1>4. q \in EscrowRecords /\ EntriesTold(q.entries, m) /\ q.deposit = p.deposit
  <2>1. CASE toVendor > 0
    <3>1. EntryTold([type |-> "dispute_released", amount |-> -toVendor, ref |-> DisputeTransfer], m)
      BY <2>1 DEF EntryTold, CaptureTypes
    <3>2. /\ "dispute_released" \in EntryTypes /\ -toVendor \in Int
          /\ DisputeTransfer \in Refs \cup {NoRef}
      BY RefFacts DEF EntryTypes, PayoutTypes
    <3> QED BY <1>3, <2>1, <3>1, <3>2, PostTold
  <2>2. CASE ~ (toVendor > 0) BY <2>2, <1>3
  <2> QED BY <2>1, <2>2
<1>5. s \in EscrowStates BY DEF EscrowStates
<1>6. StateTold(s, m) BY DEF ResolveDisputeAllowed, Savable, StateTold
<1> HIDE DEF q, s
<1> QED BY <1>1, <1>3, <1>4, <1>5, <1>6, WithState DEF Savable
-----------------------------------------------------------------------------
\* Requests that work on a copy of the escrow

\* One request goes on, and Stripe may have done something for it.
LEMMA WorldFrame ==
  ASSUME IInv, NEW w \in Workers, NEW x \in Requests, req' = [req EXCEPT ![w] = x],
         UNCHANGED <<row, ledger, gig, tokens, charged>>,
         Kept(World, World'), Accounts(World'), Sound(x, World')
  PROVE  IInv'
<1>1. World'.row = World.row /\ World'.charged = World.charged BY DEF World
<1>2. DepositPaid(World) <=> DepositPaid(World') BY <1>1 DEF DepositPaid
<1>3. Payable(charged', tokens', World') BY <1>1, <1>2 DEF Payable, IInv
<1>4. EntriesTold(ledger', World') /\ GigTold(gig', World') BY StaysTold DEF IInv
<1>5. ledger' \in Seq(Entries) /\ Once(ledger') /\ gig' \in GigStates BY DEF IInv
<1>6. /\ req' \in [Workers -> Requests]
      /\ \A u \in Workers : req'[u] = req[u] \/ Sound(req'[u], World')
  BY DEF IInv
<1> QED BY <1>3, <1>4, <1>5, <1>6, Frame

LEMMA SavableCopy ==
  ASSUME NEW m, NEW r \in Requests, Sound(r, m), NEW e, Savable(e, m),
         r.op \notin {"fund"}
  PROVE  LET x == [r EXCEPT !.e = e, !.at = "count"]
         IN x \in Requests /\ Sound(x, m)
<1> DEFINE x == [r EXCEPT !.e = e, !.at = "count"]
<1>1. /\ x \in Requests /\ x.at = "count" /\ x.op = r.op /\ x.e = e /\ x.g = r.g
      /\ x.ref = r.ref /\ x.want = r.want
  BY DEF Requests, Stages, Savable
<1> HIDE DEF x
<1>2. Sound(x, m) BY <1>1 DEF Sound, Savable
<1> QED BY <1>1, <1>2 DEF x

\* The result of a function of the domain is on its way to be saved, or the request ends.
LEMMA SaveIfStep ==
  ASSUME IInv, NEW w \in Workers, NEW allowed, NEW result, SaveIf(w, allowed, result),
         req[w].op # "fund",
         UNCHANGED <<row, ledger, gig, tokens, charged>>,
         Kept(World, World'), Accounts(World'), allowed => Savable(result, World')
  PROVE  IInv'
<1>1. CASE allowed /\ AssertLedgerBalances(result)
  <2> DEFINE r == req[w]
             x == [r EXCEPT !.e = result, !.at = "count"]
  <2>1. r \in Requests /\ Sound(r, World) BY InFlight
  <2>2. Sound(r, World') BY <2>1, StaysSound DEF IInv
  <2>3. req' = [req EXCEPT ![w] = x] BY <1>1 DEF SaveIf
  <2>4. r.op \notin {"fund"} /\ Savable(result, World') BY <1>1
  <2> HIDE DEF r
  <2>5. x \in Requests /\ Sound(x, World') BY <2>1, <2>2, <2>4, SavableCopy
  <2> HIDE DEF x
  <2> QED BY <2>3, <2>5, WorldFrame
<1>2. CASE ~ (allowed /\ AssertLedgerBalances(result))
  <2>1. req' = [req EXCEPT ![w] = Idle] BY <1>2 DEF SaveIf, End
  <2> QED BY <2>1, IdleFacts, WorldFrame
<1> QED BY <1>1, <1>2

\* What a handler has once it has read the ledger too.
LEMMA LedgerRead ==
  ASSUME IInv, NEW w \in Workers, req[w].at = "ledger"
  PROVE  LET e == Load(RowOf(req[w].e), ledger)
         IN /\ Savable(e, World) /\ e.entries = ledger
            /\ RowOf(req[w].e) \in EscrowRows /\ e = Load(RowOf(req[w].e), e.entries)
<1> DEFINE r == req[w]
           e == Load(RowOf(r.e), ledger)
<1>1. r.e \in EscrowRecords /\ Sound(r, World) BY InFlight, RequestFields
<1>2. RowOf(r.e) \in EscrowRows /\ RowOf(r.e).state = r.e.state /\ RowOf(r.e).deposit = r.e.deposit
  BY <1>1, EscrowFields DEF RowOf
<1>3. ledger \in Seq(Entries) /\ EntriesTold(ledger, World) BY DEF IInv
<1>4. e \in EscrowRecords /\ e.entries = ledger /\ e.state = r.e.state /\ e.deposit = r.e.deposit
  BY <1>2, <1>3, LoadFacts
<1>5. World.row # NoRow /\ r.e.deposit = World.row.deposit /\ StateTold(r.e.state, World)
  BY <1>1 DEF Sound, Snapshot
<1> HIDE DEF e
<1>6. Savable(e, World) BY <1>3, <1>4, <1>5 DEF Savable
<1> QED BY <1>2, <1>4, <1>6 DEF e

LEMMA SameAccounts ==
  ASSUME IInv, UNCHANGED <<row, charged, transfers, refunds>>
  PROVE  World' = World /\ Kept(World, World') /\ Accounts(World')
BY SameWorld, KeptSame DEF IInv

LEMMA WebhookLedgerStep ==
  ASSUME IInv, NEW w \in Workers, WebhookLedger(w)
  PROVE  IInv'
<1> DEFINE i == req[w].ref
           e == Load(RowOf(req[w].e), ledger)
<1>1. req[w].op = "webhook" /\ req[w].at = "ledger" BY DEF WebhookLedger, Doing, At
<1>2. UNCHANGED tables BY DEF WebhookLedger, tables, rows, money
<1>3. i \in World.charged BY <1>1, InFlight DEF Sound
<1>4. i \in Intents /\ World.charged = charged BY <1>3 DEF IInv, Accounts, World
<1>5. \A j \in World.charged : j # BalanceIntent => j = World.row.deposit
  BY <1>4, RefFacts DEF IInv, Payable, World
<1>6. /\ Savable(e, World) /\ \E r \in EscrowRows : e = Load(r, e.entries)
  BY <1>1, LedgerRead
<1>7. Accounts(World) BY DEF IInv
<1>8. End(w) \/ SaveIf(w, RecordAllowed(e, i), Record(e, i)) BY DEF WebhookLedger
<1> HIDE DEF i, e
<1>9. RecordAllowed(e, i) => Savable(Record(e, i), World)
  BY <1>3, <1>4, <1>5, <1>6, <1>7, RecordTold
<1>10. World' = World /\ Kept(World, World') /\ Accounts(World')
  BY <1>2, SameAccounts DEF tables
<1>11. RecordAllowed(e, i) => Savable(Record(e, i), World') BY <1>9, <1>10
<1>12. CASE End(w) BY <1>2, <1>12, EndStep
<1>13. CASE SaveIf(w, RecordAllowed(e, i), Record(e, i))
  BY <1>1, <1>2, <1>10, <1>11, <1>13, SaveIfStep DEF tables
<1> QED BY <1>8, <1>12, <1>13

LEMMA SweepRowStep ==
  ASSUME IInv, NEW w \in Workers, SweepRow(w)
  PROVE  IInv'
<1> DEFINE r == req[w]
           e == Load(row, <<>>)
           x == [r EXCEPT !.e = e, !.at = "ledger"]
<1>1. r \in Requests /\ Sound(r, World) BY InFlight
<1>2. r.op = "sweep" /\ r.at = "row" /\ req' = [req EXCEPT ![w] = x] /\ UNCHANGED tables
  BY DEF SweepRow, Doing, At, tables, rows, money
<1>3. row # NoRow BY <1>1, <1>2 DEF Sound, World
<1>4. /\ e \in EscrowRecords /\ e.deposit = World.row.deposit /\ World.row # NoRow
      /\ StateTold(e.state, World) /\ EntriesTold(e.entries, World)
  BY <1>3, RowRead
<1> HIDE DEF r, e
<1>5. /\ x \in Requests /\ x.at = "ledger" /\ x.op = r.op /\ x.e = e /\ x.g = r.g
      /\ x.ref = r.ref /\ x.want = r.want
  BY <1>1, <1>4 DEF Requests, Stages
<1> HIDE DEF x
<1>6. Sound(x, World)
  BY <1>1, <1>2, <1>4, <1>5 DEF Sound, Snapshot
<1> QED BY <1>2, <1>5, <1>6, QuietFrame

LEMMA ReadLedgerStep ==
  ASSUME IInv, NEW w \in Workers, ReadLedger(w)
  PROVE  IInv'
<1> DEFINE r == req[w]
           e == Load(RowOf(r.e), ledger)
           a == IF r.op = "sweep" THEN "transfer" ELSE "gig"
           x == [r EXCEPT !.e = e, !.at = a]
<1>1. r \in Requests /\ Sound(r, World) BY InFlight
<1>2. r.op \in {"release", "sweep", "cancel"} /\ r.at = "ledger" /\ UNCHANGED tables
  BY DEF ReadLedger, Doing, At, tables, rows, money
<1>3. req' = [req EXCEPT ![w] = x] BY <1>1 DEF ReadLedger, IInv, Requests
<1>4. Savable(e, World) BY <1>2, LedgerRead
<1> HIDE DEF r, e
<1>5. /\ x \in Requests /\ x.at = a /\ x.op = r.op /\ x.e = e /\ x.g = r.g
      /\ x.ref = r.ref /\ x.want = r.want
  BY <1>1, <1>4 DEF Requests, Stages, Savable
<1> HIDE DEF x
<1>6. Sound(x, World)
  BY <1>1, <1>2, <1>4, <1>5 DEF Sound, Savable, Snapshot
<1> QED BY <1>2, <1>3, <1>5, <1>6, QuietFrame

LEMMA DisputeLedgerStep ==
  ASSUME IInv, NEW w \in Workers, DisputeLedger(w)
  PROVE  IInv'
<1> DEFINE r == req[w]
           e == Load(RowOf(r.e), ledger)
           x == [r EXCEPT !.e = OpenDispute(e), !.at = "count"]
<1>1. r \in Requests /\ Sound(r, World) BY InFlight
<1>2. r.op = "dispute" /\ r.at = "ledger" /\ UNCHANGED tables
  BY DEF DisputeLedger, Doing, At, tables, rows, money
<1>3. Savable(e, World) BY <1>2, LedgerRead
<1>4. CASE ~ OpenDisputeAllowed(e)
  <2>1. End(w) BY <1>4 DEF DisputeLedger
  <2> QED BY <2>1, <1>2, EndStep
<1>5. CASE OpenDisputeAllowed(e)
  <2>1. req' = [req EXCEPT ![w] = x] BY <1>5 DEF DisputeLedger
  <2>2. "dispute" \in Ops BY <1>1, <1>2 DEF Sound
  <2> HIDE DEF e
  <2>3. Savable(OpenDispute(e), World) BY <1>3, <2>2, DisputeTold
  <2> HIDE DEF r
  <2>4. x \in Requests /\ Sound(x, World) BY <1>1, <1>2, <2>3, SavableCopy
  <2> HIDE DEF x
  <2> QED BY <1>2, <2>1, <2>4, QuietFrame
<1> QED BY <1>4, <1>5

LEMMA ResolveLedgerStep ==
  ASSUME IInv, NEW w \in Workers, ResolveLedger(w)
  PROVE  IInv'
<1> DEFINE r == req[w]
           e == Load(RowOf(r.e), ledger)
           a == IF r.want.toVendor > 0 THEN "transfer" ELSE "refund"
           x == [r EXCEPT !.e = e, !.at = a]
<1>1. r \in Requests /\ Sound(r, World) BY InFlight
<1>2. r.op = "resolve" /\ r.at = "ledger" /\ UNCHANGED tables
  BY DEF ResolveLedger, Doing, At, tables, rows, money
<1>3. Savable(e, World) BY <1>2, LedgerRead
<1>4. CASE r.want = NoWant
  <2> DEFINE ruled == ResolveDispute(e, 0, 0, NoRef, NoRef)
  <2>1. SaveIf(w, ResolveDisputeAllowed(e, 0, 0), ruled) BY <1>4 DEF ResolveLedger
  <2>2. World' = World /\ Kept(World, World') /\ Accounts(World')
    BY <1>2, SameAccounts DEF tables
  <2> HIDE DEF e
  <2>3. ResolveDisputeAllowed(e, 0, 0) => Savable(ruled, World')
    BY <1>3, <2>2, RulingTold
  <2> HIDE DEF ruled
  <2> QED BY <1>2, <2>1, <2>2, <2>3, SaveIfStep DEF tables
<1>5. CASE r.want # NoWant /\ (r.want.toVendor > 0 \/ r.want.toHost > 0)
  <2>1. req' = [req EXCEPT ![w] = x] BY <1>5 DEF ResolveLedger
  <2> HIDE DEF r, e
  <2>2. /\ x \in Requests /\ x.at = a /\ x.op = r.op /\ x.e = e /\ x.g = r.g
        /\ x.ref = r.ref /\ x.want = r.want
    BY <1>1, <1>3 DEF Requests, Stages, Savable
  <2> HIDE DEF x
  <2>3. Sound(x, World)
    BY <1>1, <1>2, <1>3, <1>5, <2>2 DEF Sound, Savable, Snapshot
  <2> QED BY <1>2, <2>1, <2>2, <2>3, QuietFrame
<1>6. r.want = NoWant \/ r.want.toVendor > 0 \/ r.want.toHost > 0
  <2>1. r.want \in [toVendor : Nat, toHost : Int] /\ r.want.toHost >= 0
    BY <1>1, <1>2, RequestFields DEF Sound
  <2> HIDE DEF r
  <2> QED BY <2>1 DEF NoWant
<1> QED BY <1>4, <1>5, <1>6
\* A percentage of what is held is a number of cents.
LEMMA RefundIsCents ==
  ASSUME NEW held \in Int, NEW hours, NEW by
  PROVE  RefundAmount(held, RefundPercent(hours, by)) \in Int
<1>1. RefundPercent(hours, by) \in {0, 25, 50, 75, 100} BY DEF RefundPercent
<1>2. \A percent \in {0, 25, 50, 75, 100} : held * percent + 50 \in Int OBVIOUS
<1>3. \A n \in Int : n \div 100 \in Int OBVIOUS
<1> QED BY <1>1, <1>2, <1>3 DEF RefundAmount

LEMMA ReadGigStep ==
  ASSUME IInv, NEW w \in Workers, ReadGig(w)
  PROVE  IInv'
<1> DEFINE r == req[w]
           toHost == RefundAmount(HeldCents(r.e), RefundPercent(hoursLeft, r.by))
           a == IF toHost > 0 THEN "refund" ELSE "save"
           x == [r EXCEPT !.g = gig, !.at = "transfer"]
           y == [r EXCEPT !.g = gig, !.want = [r.want EXCEPT !.toHost = toHost], !.at = a]
<1>1. r \in Requests /\ Sound(r, World) /\ r.e \in EscrowRecords BY InFlight, RequestFields
<1>2. r.op \in {"release", "cancel"} /\ r.at = "gig" /\ UNCHANGED tables
  BY DEF ReadGig, Doing, At, tables, rows, money
<1>3. gig \in GigStates /\ GigTold(gig, World) BY DEF IInv
<1>4. toHost \in Int
  <2>1. HeldCents(r.e) \in Int BY <1>1, EscrowFields DEF HeldCents, OutflowOf
  <2> QED BY <2>1, RefundIsCents
<1>5. CASE r.op = "release" /\ gig = "DeliveryPending"
  <2>1. req' = [req EXCEPT ![w] = x] BY <1>5 DEF ReadGig
  <2> HIDE DEF r
  <2>2. /\ x \in Requests /\ x.at = "transfer" /\ x.op = r.op /\ x.e = r.e /\ x.g = gig
        /\ x.ref = r.ref /\ x.want = r.want
    BY <1>1, <1>3 DEF Requests, Stages
  <2> HIDE DEF x
  <2>3. Sound(x, World) BY <1>1, <1>2, <1>3, <1>5, <2>2 DEF Sound, Snapshot
  <2> QED BY <1>2, <2>1, <2>2, <2>3, QuietFrame
<1>6. CASE r.op = "release" /\ gig # "DeliveryPending"
  <2>1. End(w) BY <1>6 DEF ReadGig
  <2> QED BY <1>2, <2>1, EndStep
<1>7. CASE r.op = "cancel"
  <2>1. req' = [req EXCEPT ![w] = y]
    <3>1. r.op # "release" BY <1>7
    <3> QED BY <1>1, <3>1 DEF ReadGig, IInv, Requests
  <2> HIDE DEF r, toHost
  <2>2. r.want \in [toVendor : Nat, toHost : Int] BY <1>1, RequestFields
  <2>3. [r.want EXCEPT !.toHost = toHost] \in [toVendor : Nat, toHost : Int]
    BY <1>4, <2>2
  <2>4. [r.want EXCEPT !.toHost = toHost].toHost = toHost BY <2>2
  <2>5. /\ y \in Requests /\ y.at = a /\ y.op = r.op /\ y.e = r.e /\ y.g = gig
        /\ y.ref = r.ref /\ y.want.toHost = toHost
    BY <1>1, <1>3, <2>3, <2>4 DEF Requests, Stages
  <2> HIDE DEF y
  <2>6. Sound(y, World) BY <1>1, <1>2, <1>3, <1>7, <2>5 DEF Sound, Snapshot
  <2> QED BY <1>2, <2>1, <2>5, <2>6, QuietFrame
<1> QED BY <1>2, <1>5, <1>6, <1>7

-----------------------------------------------------------------------------
\* Money leaves

\* A transfer that Stripe accepts takes nothing back.
LEMMA TransferMade ==
  ASSUME IInv, NEW k \in Transfers, NEW a \in Nat, TransferAccepted(k, a),
         k = ReleaseTransfer => a = VendorPayout,
         transfers' = [transfers EXCEPT ![k] = a], UNCHANGED <<row, charged, refunds>>
  PROVE  /\ Kept(World, World') /\ Accounts(World') /\ World'.transfers[k] = a
         /\ World'.row = World.row
<1>1. /\ World'.row = World.row /\ World'.charged = World.charged
      /\ World'.refunds = World.refunds /\ World'.transfers = [World.transfers EXCEPT ![k] = a]
      /\ World.transfers[k] \in {0, a}
  BY DEF World, TransferAccepted
<1>2. Accounts(World) BY DEF IInv
<1>3. World.transfers \in [Transfers -> Nat] /\ ReleaseTransfer \in Transfers
  BY <1>2, RefFacts DEF Accounts
<1>4. Kept(World, World') BY <1>1, <1>3 DEF Kept
<1>5. DepositPaid(World) <=> DepositPaid(World') BY <1>1 DEF DepositPaid
<1>6. World'.row # NoRow => StateTold(World'.row.state, World')
  BY <1>1, <1>2, <1>4, StaysTold DEF Accounts
<1>7. World'.transfers \in [Transfers -> Nat] BY <1>1, <1>3
<1>8. World'.transfers[ReleaseTransfer] \in {0, VendorPayout} BY <1>1, <1>2, <1>3 DEF Accounts
<1>9. Accounts(World') BY <1>1, <1>2, <1>5, <1>6, <1>7, <1>8 DEF Accounts
<1> QED BY <1>1, <1>3, <1>4, <1>9

\* A refund that Stripe accepts takes nothing back and is of a charge.
LEMMA RefundMade ==
  ASSUME IInv, NEW k \in RefundKeys, NEW intent, NEW a \in Nat \ {0},
         RefundAccepted(k, [intent |-> intent, amount |-> a]),
         refunds' = [refunds EXCEPT ![k] = [intent |-> intent, amount |-> a]],
         UNCHANGED <<row, charged, transfers>>
  PROVE  /\ Kept(World, World') /\ Accounts(World') /\ World'.row = World.row
         /\ World'.transfers = World.transfers
         /\ World'.refunds[k] # NoRefund /\ World'.refunds[k].amount = a
<1> DEFINE f == [intent |-> intent, amount |-> a]
<1>1. /\ World'.row = World.row /\ World'.charged = World.charged
      /\ World'.transfers = World.transfers /\ World'.refunds = [World.refunds EXCEPT ![k] = f]
      /\ World.refunds = refunds /\ World.charged = charged
  BY DEF World
<1>2. Accounts(World) BY DEF IInv
<1>3. f # NoRefund /\ f.amount = a /\ f.intent = intent BY DEF NoRefund
<1>4. World'.refunds[k] = f BY <1>1, <1>2 DEF Accounts
<1>5. \A j \in RefundKeys : j # k => World'.refunds[j] = World.refunds[j]
  BY <1>1, <1>2 DEF Accounts
<1>6. refunds[k] = f \/ (refunds[k] = NoRefund /\ a <= RefundableOn(intent))
  BY DEF RefundAccepted
<1> HIDE DEF f
<1>7. Kept(World, World') BY <1>1, <1>4, <1>5, <1>6 DEF Kept
<1>8. intent \in charged
  <2>1. CASE refunds[k] = f BY <2>1, <1>1, <1>2, <1>3 DEF Accounts
  <2>2. CASE a <= RefundableOn(intent)
    <3> DEFINE part(key) == IF refunds[key].intent = intent THEN refunds[key].amount ELSE 0
    <3>1. \A key \in RefundKeys : refunds[key].amount \in Nat
      BY <1>1, <1>2 DEF Accounts, NoRefund
    <3>2. part(CancelRefund) \in Nat /\ part(DisputeRefund) \in Nat BY <3>1, RefFacts
    <3>3. RefundedOn(intent) = part(CancelRefund) + part(DisputeRefund) BY DEF RefundedOn
    <3> HIDE DEF part
    <3>4. RefundedOn(intent) >= 0 /\ RefundedOn(intent) \in Int BY <3>2, <3>3
    <3>5. intent \notin charged => RefundableOn(intent) = 0 - RefundedOn(intent)
      BY DEF RefundableOn
    <3> QED BY <2>2, <3>4, <3>5
  <2> QED BY <1>6, <2>1, <2>2
<1>9. DepositPaid(World) <=> DepositPaid(World') BY <1>1 DEF DepositPaid
<1>10. World'.row # NoRow => StateTold(World'.row.state, World')
  BY <1>1, <1>2, <1>7, StaysTold DEF Accounts
<1>11. /\ \A j \in RefundKeys :
            \/ World'.refunds[j] = NoRefund
            \/ World'.refunds[j].amount \in Nat \ {0} /\ World'.refunds[j].intent \in World'.charged
       /\ World'.refunds = [j \in RefundKeys |-> World'.refunds[j]]
  BY <1>1, <1>2, <1>3, <1>4, <1>5, <1>8 DEF Accounts
<1>12. Accounts(World') BY <1>1, <1>2, <1>9, <1>10, <1>11 DEF Accounts
<1> QED BY <1>1, <1>3, <1>4, <1>7, <1>12
LEMMA CallTransferStep ==
  ASSUME IInv, NEW w \in Workers, CallTransfer(w)
  PROVE  IInv'
<1> DEFINE r == req[w]
           k == TransferKey(r.op)
           a == r.want.toVendor
           e == r.e
<1>1. r \in Requests /\ Sound(r, World) BY InFlight
<1>2. r.at = "transfer" /\ UNCHANGED <<row, ledger, gig, tokens, charged, refunds>>
  BY DEF CallTransfer, At, rows
<1>3. /\ r.op \in {"release", "sweep"} \/ (r.op = "resolve" /\ a > 0)
      /\ a \in Nat
      /\ r.op \in {"release", "sweep"} => a = VendorPayout
  BY <1>1, <1>2, RequestFields DEF Sound
<1>4. k \in Transfers /\ (r.op = "resolve" => k = DisputeTransfer)
      /\ (r.op # "resolve" => k = ReleaseTransfer)
      /\ (k = ReleaseTransfer => a = VendorPayout)
  BY <1>3, RefFacts DEF TransferKey
<1>5. Savable(e, World)
  BY <1>1, <1>2, RequestFields DEF Sound, Snapshot, Savable
<1>6. CASE ~ TransferAccepted(k, a)
  <2>1. End(w) /\ transfers' = transfers BY <1>6 DEF CallTransfer
  <2> QED BY <2>1, <1>2, EndStep DEF tables
<1>7. CASE TransferAccepted(k, a)
  <2>1. transfers' = [transfers EXCEPT ![k] = a] BY <1>7 DEF CallTransfer
  <2>2. /\ Kept(World, World') /\ Accounts(World') /\ World'.transfers[k] = a
        /\ World'.row = World.row
    BY <1>2, <1>3, <1>4, <1>7, <2>1, TransferMade
  <2>3. Savable(e, World')
    <3>1. Accounts(World) BY DEF IInv
    <3>2. e.entries \in Seq(Entries) BY <1>5, EscrowFields DEF Savable
    <3> HIDE DEF e
    <3> QED BY <1>5, <2>2, <3>1, <3>2, StaysTold DEF Savable
  <2>4. CASE r.op # "resolve"
    <3> DEFINE allowed == ReleaseAllowed(e, ApprovalOf(r.op))
               result == Release(e, k)
    <3>1. SaveIf(w, allowed, result) BY <1>7, <2>4 DEF CallTransfer
    <3>2. r.op # "fund" BY <1>3
    <3>3. allowed => Savable(result, World')
      BY <1>3, <1>4, <2>2, <2>3, <2>4, ReleaseTold
    <3> HIDE DEF allowed, result, e
    <3> QED BY <1>2, <2>2, <3>1, <3>2, <3>3, SaveIfStep
  <2>5. CASE r.op = "resolve" /\ r.want.toHost > 0
    <3> DEFINE x == [r EXCEPT !.at = "refund"]
    <3>1. req' = [req EXCEPT ![w] = x] BY <1>7, <2>5 DEF CallTransfer, GoTo
    <3>2. Sound(r, World') BY <1>1, <2>2, StaysSound DEF IInv
    <3>3. World'.transfers[DisputeTransfer] = a BY <1>4, <2>2, <2>5
    <3> HIDE DEF r
    <3>4. /\ x \in Requests /\ x.at = "refund" /\ x.op = r.op /\ x.e = r.e /\ x.g = r.g
          /\ x.ref = r.ref /\ x.want = r.want
      BY <1>1 DEF Requests, Stages
    <3> HIDE DEF x
    <3>5. Sound(x, World')
      BY <1>2, <2>5, <3>2, <3>3, <3>4 DEF Sound, Snapshot
    <3> QED BY <1>2, <2>2, <3>1, <3>4, <3>5, WorldFrame
  <2>6. CASE r.op = "resolve" /\ ~ (r.want.toHost > 0)
    <3> DEFINE b == r.want.toHost
               allowed == ResolveDisputeAllowed(e, a, b)
               result == ResolveDispute(e, a, b, DisputeTransfer, DisputeRefund)
    <3>1. SaveIf(w, allowed, result) BY <1>7, <2>6 DEF CallTransfer, SaveRuling
    <3>2. b \in Int /\ ~ (b > 0) BY <1>1, <2>6, RequestFields
    <3>3. World'.transfers[DisputeTransfer] = a BY <1>4, <2>2, <2>6
    <3>4. r.op # "fund" BY <2>6
    <3> HIDE DEF b, a, e
    <3>5. allowed => Savable(result, World')
      BY <1>3, <2>2, <2>3, <3>2, <3>3, RulingTold
    <3> HIDE DEF allowed, result, r
    <3> QED BY <1>2, <2>2, <3>1, <3>4, <3>5, SaveIfStep DEF r
  <2> QED BY <2>4, <2>5, <2>6
<1> QED BY <1>6, <1>7

LEMMA CallRefundStep ==
  ASSUME IInv, NEW w \in Workers, CallRefund(w)
  PROVE  IInv'
<1> DEFINE r == req[w]
           k == RefundKey(r.op)
           a == r.want.toHost
           v == r.want.toVendor
           e == r.e
           intent == RefundTarget(r.op, e)
<1>1. r \in Requests /\ Sound(r, World) BY InFlight
<1>2. r.at = "refund" /\ UNCHANGED <<row, ledger, gig, tokens, charged, transfers>>
  BY DEF CallRefund, At, rows
<1>3. /\ r.op \in {"cancel", "resolve"} /\ a \in Nat \ {0} /\ v \in Nat
      /\ r.op = "resolve" /\ v > 0 => World.transfers[DisputeTransfer] = v
  BY <1>1, <1>2, RequestFields DEF Sound
<1>4. /\ k \in RefundKeys
      /\ r.op = "resolve" => k = DisputeRefund
      /\ r.op = "cancel" => k = CancelRefund
  BY <1>3, RefFacts DEF RefundKey
<1>5. Savable(e, World)
  BY <1>1, <1>2, RequestFields DEF Sound, Snapshot, Savable
<1>6. RefundOf(w) = [intent |-> intent, amount |-> a] BY DEF RefundOf
<1>7. CASE ~ RefundAccepted(k, RefundOf(w))
  <2>1. End(w) /\ refunds' = refunds BY <1>7 DEF CallRefund
  <2> QED BY <2>1, <1>2, EndStep DEF tables
<1>8. CASE RefundAccepted(k, RefundOf(w))
  <2>1. refunds' = [refunds EXCEPT ![k] = [intent |-> intent, amount |-> a]]
    BY <1>6, <1>8 DEF CallRefund
  <2>7. RefundAccepted(k, [intent |-> intent, amount |-> a]) BY <1>6, <1>8
  <2>2. /\ Kept(World, World') /\ Accounts(World') /\ World'.row = World.row
        /\ World'.transfers = World.transfers
        /\ World'.refunds[k] # NoRefund /\ World'.refunds[k].amount = a
    <3> HIDE DEF k, intent, a
    <3> QED BY <1>2, <1>3, <1>4, <2>1, <2>7, RefundMade
  <2>3. Savable(e, World')
    <3>1. Accounts(World) BY DEF IInv
    <3>2. e.entries \in Seq(Entries) BY <1>5, EscrowFields DEF Savable
    <3> HIDE DEF e
    <3> QED BY <1>5, <2>2, <3>1, <3>2, StaysTold DEF Savable
  <2>4. r.op # "fund" BY <1>3
  <2>5. CASE r.op = "cancel"
    <3> DEFINE allowed == RefundAllowed(e, a, k)
               result == Refund(e, a, k)
    <3>1. SaveIf(w, allowed, result) BY <1>8, <2>5 DEF CallRefund
    <3>2. a \in Int /\ k = CancelRefund BY <1>3, <1>4, <2>5
    <3> HIDE DEF e, a, k
    <3>3. Savable(result, World') BY <2>2, <2>3, <3>2, CancelTold
    <3> HIDE DEF allowed, result
    <3> QED BY <1>2, <2>2, <2>4, <3>1, <3>3, SaveIfStep
  <2>6. CASE r.op # "cancel"
    <3> DEFINE allowed == ResolveDisputeAllowed(e, v, a)
               result == ResolveDispute(e, v, a, DisputeTransfer, DisputeRefund)
    <3>1. SaveIf(w, allowed, result) BY <1>8, <2>6 DEF CallRefund, SaveRuling
    <3>2. /\ a \in Int /\ k = DisputeRefund
          /\ v > 0 => World'.transfers[DisputeTransfer] = v
      BY <1>3, <1>4, <2>2, <2>6
    <3> HIDE DEF e, a, v, k
    <3>3. allowed => Savable(result, World')
      BY <1>3, <2>2, <2>3, <3>2, RulingTold
    <3> HIDE DEF allowed, result
    <3> QED BY <1>2, <2>2, <2>4, <3>1, <3>3, SaveIfStep
  <2> QED BY <2>5, <2>6
<1> QED BY <1>7, <1>8

-----------------------------------------------------------------------------
\* The save

LEMMA CountLedgerStep ==
  ASSUME IInv, NEW w \in Workers, CountLedger(w)
  PROVE  IInv'
<1> DEFINE r == req[w]
           x == [r EXCEPT !.count = Len(ledger), !.at = "commit"]
<1>1. r \in Requests /\ Sound(r, World) BY InFlight
<1>2. r.at = "count" /\ UNCHANGED tables /\ req' = [req EXCEPT ![w] = x]
  BY DEF CountLedger, At, tables, rows, money
<1>3. Len(ledger) \in Nat BY DEF IInv
<1> HIDE DEF r
<1>4. /\ x \in Requests /\ x.at = "commit" /\ x.op = r.op /\ x.e = r.e /\ x.g = r.g
      /\ x.ref = r.ref /\ x.want = r.want
  BY <1>1, <1>3 DEF Requests, Stages
<1> HIDE DEF x
<1>5. Sound(x, World) BY <1>1, <1>2, <1>4 DEF Sound, Snapshot
<1> QED BY <1>2, <1>4, <1>5, QuietFrame

\* The rows a save adds are entries of its copy.
LEMMA NewEntriesFacts ==
  ASSUME NEW e \in EscrowRecords, NEW n \in Nat, NEW m, EntriesTold(e.entries, m)
  PROVE  NewEntries(e, n) \in Seq(Entries) /\ EntriesTold(NewEntries(e, n), m)
<1> DEFINE s == e.entries
           t == SubSeq(s, n + 1, Len(s))
<1>1. s \in Seq(Entries) BY EscrowFields
<1> HIDE DEF s
<1>2. Len(s) \in Nat BY <1>1
<1>3. ASSUME NEW i \in n + 1 .. Len(s) PROVE s[i] \in Entries BY <1>1, <1>2
<1>4. t \in Seq(Entries) BY <1>1, <1>2, <1>3, SubSeqProperties
<1>5. ASSUME NEW i \in DOMAIN t PROVE EntryTold(t[i], m)
  <2>1. i \in 1 .. Len(t) /\ t[i] = s[n + i] /\ n + i \in DOMAIN s
    BY <1>1, <1>2, SubSeqProperties
  <2> QED BY <2>1 DEF EntriesTold, s
<1> QED BY <1>4, <1>5 DEF EntriesTold, NewEntries, s

LEMMA Concatenated ==
  ASSUME NEW s \in Seq(Entries), NEW t \in Seq(Entries), NEW m, EntriesTold(s, m), EntriesTold(t, m)
  PROVE  s \o t \in Seq(Entries) /\ EntriesTold(s \o t, m)
<1> DEFINE u == s \o t
<1>1. /\ u \in Seq(Entries) /\ DOMAIN u = 1 .. Len(s) + Len(t)
      /\ \A i \in DOMAIN u : u[i] = IF i <= Len(s) THEN s[i] ELSE t[i - Len(s)]
  OBVIOUS
<1> HIDE DEF u
<1>2. ASSUME NEW i \in DOMAIN u PROVE EntryTold(u[i], m)
  <2>1. CASE i <= Len(s)
    <3>1. i \in DOMAIN s /\ u[i] = s[i] BY <1>1, <2>1
    <3> QED BY <3>1 DEF EntriesTold
  <2>2. CASE ~ (i <= Len(s))
    <3>1. i - Len(s) \in DOMAIN t /\ u[i] = t[i - Len(s)] BY <1>1, <2>2
    <3> QED BY <3>1 DEF EntriesTold
  <2> QED BY <2>1, <2>2
<1> QED BY <1>1, <1>2 DEF EntriesTold, u

LEMMA CommitEscrowStep ==
  ASSUME IInv, NEW w \in Workers, CommitEscrow(w)
  PROVE  IInv'
<1> DEFINE r == req[w]
           new == NewEntries(r.e, r.count)
           a == IF r.op \in {"release", "cancel"} THEN "save" ELSE "regig"
           x == [r EXCEPT !.e = CreateEscrow, !.count = 0, !.at = a]
<1>1. r \in Requests /\ Sound(r, World) /\ r.e \in EscrowRecords /\ r.count \in Nat
  BY InFlight, RequestFields
<1>2. r.at = "commit" /\ UNCHANGED <<gig, tokens, charged, transfers, refunds>>
  BY DEF CommitEscrow, At, money
<1>3. CASE ~ UniqueRefs(new)
  <2>1. End(w) /\ UNCHANGED tables BY <1>2, <1>3 DEF CommitEscrow, tables
  <2> QED BY <2>1, EndStep
<1>4. CASE UniqueRefs(new)
  <2>1. row' = RowOf(r.e) /\ ledger' = ledger \o new /\ req' = [req EXCEPT ![w] = x]
    BY <1>4 DEF CommitEscrow, Saved, Doing
  <2>2. /\ World.row # NoRow /\ r.e.deposit = World.row.deposit
        /\ StateTold(r.e.state, World) /\ EntriesTold(r.e.entries, World)
    BY <1>1, <1>2 DEF Sound, Snapshot
  <2>3. row' \in EscrowRows /\ row' # NoRow /\ row'.state = r.e.state /\ row'.deposit = World.row.deposit
    BY <1>1, <2>1, <2>2, EscrowFields, BookingAssumption DEF RowOf
  <2>4. /\ World'.row = row' /\ World'.charged = World.charged
        /\ World'.transfers = World.transfers /\ World'.refunds = World.refunds
    BY <1>2 DEF World
  <2>5. Kept(World, World') BY <2>3, <2>4 DEF Kept
  <2>6. DepositPaid(World) <=> DepositPaid(World') BY <2>4 DEF DepositPaid
  <2>7. Accounts(World) BY DEF IInv
  <2>8. Accounts(World')
    <3>1. StateTold(r.e.state, World') BY <2>2, <2>5, <2>7, StaysTold
    <3> QED BY <2>3, <2>4, <2>6, <2>7, <3>1 DEF Accounts
  <2>9. Payable(charged', tokens', World')
    <3>1. Payable(charged, tokens, World) BY DEF IInv
    <3> QED BY <1>2, <2>2, <2>3, <2>4, <2>6, <3>1 DEF Payable
  <2>10. ledger' \in Seq(Entries) /\ EntriesTold(ledger', World')
    <3>1. EntriesTold(r.e.entries, World') /\ EntriesTold(ledger, World') /\ ledger \in Seq(Entries)
      BY <1>1, <2>2, <2>5, <2>7, StaysTold, EscrowFields DEF IInv
    <3>2. new \in Seq(Entries) /\ EntriesTold(new, World') BY <1>1, <3>1, NewEntriesFacts
    <3> HIDE DEF new
    <3> QED BY <2>1, <3>1, <3>2, Concatenated
  <2>11. Once(ledger') BY <1>4, <2>1 DEF UniqueRefs, Once
  <2>12. gig' \in GigStates /\ GigTold(gig', World') BY <1>2, <2>5, <2>7, StaysTold DEF IInv
  <2>13. x \in Requests /\ Sound(x, World')
    <3>1. Sound(r, World') BY <1>1, <2>5, <2>7, StaysSound
    <3>2. a \in {"save", "regig", "respond"} OBVIOUS
    <3>3. r.op # "fund" BY <1>1, <1>2 DEF Sound, Snapshot
    <3> HIDE DEF r, a
    <3> QED BY <1>1, <3>1, <3>2, <3>3, SavedFacts
  <2> HIDE DEF x
  <2>14. /\ req' \in [Workers -> Requests]
         /\ \A u \in Workers : req'[u] = req[u] \/ Sound(req'[u], World')
    BY <2>1, <2>13 DEF IInv
  <2> QED BY <2>5, <2>8, <2>9, <2>10, <2>11, <2>12, <2>14, Frame
<1> QED BY <1>3, <1>4
LEMMA RereadGigStep ==
  ASSUME IInv, NEW w \in Workers, RereadGig(w)
  PROVE  IInv'
<1> DEFINE r == req[w]
           x == [r EXCEPT !.g = gig, !.at = "save"]
<1>1. r \in Requests /\ Sound(r, World) BY InFlight
<1>2. r.at = "regig" /\ UNCHANGED tables BY DEF RereadGig, At, tables, rows, money
<1>3. gig \in GigStates /\ GigTold(gig, World) BY DEF IInv
<1>4. req' = [req EXCEPT ![w] = x] \/ End(w) BY DEF RereadGig
<1>5. CASE End(w) BY <1>2, <1>5, EndStep
<1>6. CASE req' = [req EXCEPT ![w] = x]
  <2> HIDE DEF r
  <2>1. /\ x \in Requests /\ x.at = "save" /\ x.op = r.op /\ x.e = r.e /\ x.g = gig
        /\ x.ref = r.ref /\ x.want = r.want
    BY <1>1, <1>3 DEF Requests, Stages
  <2> HIDE DEF x
  <2>2. Sound(x, World) BY <1>1, <1>2, <1>3, <2>1 DEF Sound, Snapshot
  <2> QED BY <1>2, <1>6, <2>1, <2>2, QuietFrame
<1> QED BY <1>4, <1>5, <1>6

LEMMA TransitionLookupStep ==
  ASSUME IInv, NEW w \in Workers, TransitionLookup(w)
  PROVE  IInv'
<1> DEFINE r == req[w]
           s == IF row = NoRow THEN "AwaitingDeposit" ELSE row.state
           e == [r.e EXCEPT !.state = s]
           x == [r EXCEPT !.e = e, !.at = "save"]
<1>1. r \in Requests /\ Sound(r, World) /\ r.e \in EscrowRecords BY InFlight, RequestFields
<1>2. r.op = "transition" /\ UNCHANGED tables BY DEF TransitionLookup, Doing, tables, rows, money
<1>3. req' = [req EXCEPT ![w] = x] BY <1>1 DEF TransitionLookup, IInv, Requests
<1>4. s \in EscrowStates /\ StateTold(s, World)
  <2>1. CASE row = NoRow BY <2>1, NothingTold DEF EscrowStates
  <2>2. CASE row # NoRow
    <3>1. row \in EscrowRows /\ StateTold(row.state, World) BY <2>2 DEF IInv, Accounts, World
    <3> QED BY <2>2, <3>1 DEF EscrowRows
  <2> QED BY <2>1, <2>2
<1> HIDE DEF r, s
<1>5. e \in EscrowRecords /\ e.state = s /\ e.entries = r.e.entries BY <1>1, <1>4, WithState
<1> HIDE DEF e
<1>6. /\ x \in Requests /\ x.at = "save" /\ x.op = r.op /\ x.e = e /\ x.g = r.g
      /\ x.ref = r.ref /\ x.want = r.want
  BY <1>1, <1>5 DEF Requests, Stages
<1> HIDE DEF x
<1>7. Sound(x, World) BY <1>1, <1>2, <1>4, <1>5, <1>6 DEF Sound, Snapshot
<1> QED BY <1>2, <1>3, <1>6, <1>7, QuietFrame

\* The table of transitions leads to a locked gig from a locked one, or through the guard
\* that asks for the deposit.
LEMMA ThroughTheGuard ==
  ASSUME NEW g, NEW to \in Locked, NEW by, NEW facts, TransitionAllowed(GigIn(g), to, by, facts)
  PROVE  g \in Locked \/ facts.depositFunded
<1>1. GigIn(g).state = g BY DEF GigIn
<1>2. PICK edge \in Transitions : edge.from = g /\ edge.to = to
  BY <1>1 DEF TransitionAllowed, CanTransition
<1>3. g \in Locked \/ (g = "ApplicationsReview" /\ to = "EscrowLocked")
  BY <1>2 DEF Transitions, Edge, Locked
<1>4. g = "ApplicationsReview" /\ to = "EscrowLocked" => facts.depositFunded
  BY <1>1 DEF TransitionAllowed, Guard
<1> QED BY <1>3, <1>4

LEMMA SaveGigStep ==
  ASSUME IInv, NEW w \in Workers, SaveGig(w)
  PROVE  IInv'
<1> DEFINE r == req[w]
           to == TargetOf(w)
<1>1. r \in Requests /\ Sound(r, World) /\ r.to \in GigStates BY InFlight, RequestFields
<1>2. /\ req' = [req EXCEPT ![w] = Idle]
      /\ UNCHANGED <<row, ledger, tokens, charged, transfers, refunds>>
  BY DEF SaveGig, End, money
<1>3. World' = World BY <1>2, SameWorld
<1>4. PICK reason, checkedIn :
        gig' = IF /\ TransitionAllowed(GigIn(r.g), to, r.by,
                                       [depositFunded |-> DepositFunded(w),
                                        hoursUntilEvent |-> hoursLeft,
                                        cancellationReason |-> reason,
                                        checkedInAtVenue |-> checkedIn])
                  /\ RowAccepted(to, reason)
                 THEN to ELSE gig
  BY DEF SaveGig
<1>5. to \in GigStates BY <1>1 DEF TargetOf, GigStates
<1>6. gig' \in GigStates BY <1>4, <1>5 DEF IInv
<1>7. GigTold(gig', World)
  <2>1. CASE gig' = gig BY <2>1 DEF IInv
  <2>2. CASE gig' # gig
    <3> DEFINE facts == [depositFunded |-> DepositFunded(w), hoursUntilEvent |-> hoursLeft,
                         cancellationReason |-> reason, checkedInAtVenue |-> checkedIn]
    <3>1. gig' = to /\ TransitionAllowed(GigIn(r.g), to, r.by, facts) BY <1>4, <2>2
    <3>2. SUFFICES ASSUME "dispute" \notin Ops, to \in Locked PROVE DepositPaid(World)
      BY <3>1 DEF GigTold
    <3>3. facts.depositFunded = DepositFunded(w) OBVIOUS
    <3> HIDE DEF facts, to
    <3>4. r.g \in Locked \/ DepositFunded(w) BY <3>1, <3>2, <3>3, ThroughTheGuard
    <3>5. CASE r.g \in Locked BY <1>1, <3>2, <3>5 DEF Sound, GigTold
    <3>6. CASE DepositFunded(w)
      <4>1. CASE r.op = "webhook"
        <5>1. r.ref \in World.charged BY <1>1, <4>1 DEF Sound
        <5>2. Accounts(World) BY DEF IInv
        <5> QED BY <5>1, <5>2, RefFacts DEF Accounts, DepositPaid
      <4>2. CASE r.e.state # "AwaitingDeposit"
        BY <1>1, <3>2, <4>2 DEF Sound, StateTold
      <4> QED BY <3>6, <4>1, <4>2 DEF DepositFunded, Doing
    <3> QED BY <3>4, <3>5, <3>6
  <2> QED BY <2>1, <2>2
<1>8. Kept(World, World') BY <1>3, KeptSame
<1>9. /\ req' \in [Workers -> Requests]
      /\ \A u \in Workers : req'[u] = req[u] \/ Sound(req'[u], World')
  BY <1>2, IdleFacts DEF IInv
<1>10. /\ Accounts(World') /\ Payable(charged', tokens', World')
       /\ ledger' \in Seq(Entries) /\ EntriesTold(ledger', World') /\ Once(ledger')
       /\ GigTold(gig', World')
  BY <1>2, <1>3, <1>7 DEF IInv
<1> HIDE DEF r, to
<1> QED BY <1>6, <1>8, <1>9, <1>10, Frame

-----------------------------------------------------------------------------
\* All steps

LEMMA ContinueStep ==
  ASSUME IInv, NEW w \in Workers, Continue(w)
  PROVE  IInv'
BY FundLookupStep, FundIntentStep, FundCreateStep, FundSaveGigStep, BalanceMakeIntentStep,
   RespondStep, WebhookLedgerStep, SweepRowStep, ReadLedgerStep, DisputeLedgerStep,
   ResolveLedgerStep, ReadGigStep, CallTransferStep, CallRefundStep, CountLedgerStep,
   CommitEscrowStep, RereadGigStep, SaveGigStep, TransitionLookupStep
   DEF Continue

LEMMA CrashStep ==
  ASSUME IInv, NEW w \in Workers, Crash(w)
  PROVE  IInv'
BY EndStep DEF Crash, tables, rows, money

LEMMA StutterStep ==
  ASSUME IInv, UNCHANGED <<tables, req>>
  PROVE  IInv'
<1>1. World' = World BY SameWorld DEF tables
<1> QED BY <1>1 DEF IInv, tables

LEMMA NextStep ==
  ASSUME IInv, [Next]_vars
  PROVE  IInv'
<1>1. CASE \E w \in Workers : Start(w) \/ Continue(w) \/ Crash(w)
  BY <1>1, StartStep, ContinueStep, CrashStep
<1>2. CASE \E i \in Intents : Pay(i) BY <1>2, PayStep
<1>3. CASE Tick BY <1>3, StutterStep DEF Tick, tables, rows, money
<1>4. CASE UNCHANGED vars BY <1>4, StutterStep DEF vars, tables
<1> QED BY <1>1, <1>2, <1>3, <1>4 DEF Next

LEMMA InitStep == Init => IInv
<1> SUFFICES ASSUME Init PROVE IInv OBVIOUS
<1>1. /\ World.row = NoRow /\ World.charged = {}
      /\ World.transfers = [k \in Transfers |-> 0]
      /\ World.refunds = [k \in RefundKeys |-> NoRefund]
  BY DEF Init, World
<1>2. Accounts(World)
  <2>1. World.transfers \in [Transfers -> Nat] /\ World.transfers[ReleaseTransfer] = 0
    BY <1>1, RefFacts
  <2> QED BY <1>1, <2>1 DEF Accounts
<1>3. Payable(charged, tokens, World) BY DEF Init, Payable
<1>4. ledger \in Seq(Entries) /\ EntriesTold(ledger, World) /\ Once(ledger)
  <2>1. ledger = <<>> BY DEF Init
  <2> QED BY <2>1, NothingTold DEF Once
<1>5. gig \in GigStates /\ GigTold(gig, World) BY DEF Init, GigStates, GigTold, Locked
<1>6. req \in [Workers -> Requests] /\ \A w \in Workers : Sound(req[w], World)
  BY IdleFacts DEF Init
<1> QED BY <1>2, <1>3, <1>4, <1>5, <1>6 DEF IInv

-----------------------------------------------------------------------------
\* The properties

\* The invariant holds of every behaviour of the booking: of the requests of payments.ts and
\* the transition route in any interleaving, each of them lost at any await.
THEOREM Invariance == Spec => []IInv
<1>1. IInv /\ [Next]_vars => IInv' BY NextStep
<1> QED BY InitStep, <1>1, PTL DEF Spec

\* No Stripe object is in the ledger twice, however often its event is delivered and however
\* two saves interleave (save() in postgres/store.ts with the UNIQUE index on stripe_ref).
THEOREM BookedOnceAlways == Spec => []BookedOnce
<1>1. IInv => BookedOnce BY DEF IInv, Once, BookedOnce
<1> QED BY <1>1, Invariance, PTL

\* Every ledger row that names a Stripe object records money that moved there, in that amount,
\* whatever requests of payments.ts overlap and wherever they die.
THEOREM BookedMoneyMovedAlways == Spec => []BookedMoneyMoved
<1>1. ASSUME IInv, NEW i \in DOMAIN ledger
      PROVE  LET entry == ledger[i]
             IN CASE entry.ref \in Intents ->
                       entry.ref \in charged /\ entry.amount = AmountOf(entry.ref)
                  [] entry.ref \in Transfers -> entry.amount = -transfers[entry.ref]
                  [] entry.ref \in RefundKeys -> entry.amount = -refunds[entry.ref].amount
                  [] OTHER -> entry.type \in {"commission_taken", "dispute_hold"}
  <2> DEFINE x == ledger[i]
  <2>1. x \in Entries /\ EntryTold(x, World) BY <1>1 DEF IInv, EntriesTold
  <2>2. /\ World.charged = charged /\ World.transfers = transfers /\ World.refunds = refunds
        /\ charged \subseteq Intents
    BY <1>1 DEF World, IInv, Accounts
  <2>3. x.type \in EntryTypes BY <2>1 DEF Entries
  <2> HIDE DEF x
  <2>4. CASE x.type \in CaptureTypes
    <3>1. x.ref \in charged /\ x.amount = AmountOf(x.ref) /\ x.ref \in Intents
      BY <2>1, <2>2, <2>4 DEF EntryTold
    <3> QED BY <3>1, RefFacts DEF x
  <2>5. CASE x.type = "payout_released"
    <3>1. /\ x.ref = ReleaseTransfer /\ x.amount = -VendorPayout
          /\ transfers[ReleaseTransfer] = VendorPayout
      BY <2>1, <2>2, <2>5 DEF EntryTold
    <3> QED BY <3>1, RefFacts DEF x
  <2>6. CASE x.type = "dispute_released"
    <3>1. x.ref = DisputeTransfer /\ x.amount = -transfers[DisputeTransfer]
      BY <2>1, <2>2, <2>6 DEF EntryTold
    <3> QED BY <3>1, RefFacts DEF x
  <2>7. CASE x.type = "refund_issued"
    <3>1. x.ref \in RefundKeys /\ x.amount = -refunds[x.ref].amount
      BY <2>1, <2>2, <2>7 DEF EntryTold
    <3> QED BY <3>1, RefFacts DEF x
  <2>8. CASE x.type \in {"commission_taken", "dispute_hold"}
    <3>1. x.ref = NoRef BY <2>1, <2>8 DEF EntryTold
    <3> QED BY <2>8, <3>1, RefFacts DEF x
  <2> QED BY <2>3, <2>4, <2>5, <2>6, <2>7, <2>8 DEF EntryTypes, CaptureTypes, PayoutTypes
<1>2. IInv => BookedMoneyMoved BY <1>1 DEF BookedMoneyMoved
<1> QED BY <1>2, Invariance, PTL

\* The deposits charged are those of the row, which has one.
LEMMA ChargedDeposits ==
  ASSUME IInv
  PROVE  charged \cap DepositIntents \subseteq {row.deposit}
BY DEF IInv, Payable, World

LEMMA SmallSets ==
  ASSUME NEW x, NEW S, S \subseteq {x}
  PROVE  Cardinality(S) = IF S = {} THEN 0 ELSE 1
<1>1. S = {} \/ S = {x} OBVIOUS
<1> QED BY <1>1, FS_EmptySet, FS_Singleton

\* The host never pays two deposits: only the request whose row won the UNIQUE gig_id ever
\* hands out a client token (the funding route of payments.ts).
THEOREM DepositChargedOnceAlways == Spec => []DepositChargedOnce
<1>1. IInv => Cardinality(charged \cap DepositIntents) \in {0, 1}
  BY ChargedDeposits, SmallSets
<1>2. IInv => DepositChargedOnce BY <1>1 DEF DepositChargedOnce
<1> QED BY <1>2, Invariance, PTL

\* A payout in the ledger stands on the whole price having been charged to the host's card,
\* whichever of release, sweep and ruling wrote it.
THEOREM PayoutIsCoveredAlways == Spec => []PayoutIsCovered
<1>1. ASSUME IInv, HasEntry({"payout_released"}) PROVE ChargedCents = HostTotal
  <2> DEFINE d == Cardinality(charged \cap DepositIntents)
             b == Cardinality(charged \cap {BalanceIntent})
  <2>1. PICK i \in DOMAIN ledger : ledger[i].type = "payout_released" BY <1>1 DEF HasEntry
  <2>2. PricePaid(World) BY <1>1, <2>1 DEF IInv, EntriesTold, EntryTold
  <2>3. charged \cap DepositIntents # {} /\ (BalanceDue = 0 \/ BalanceIntent \in charged)
    BY <2>2 DEF PricePaid, DepositPaid, World
  <2>4. d = 1 BY <1>1, <2>3, ChargedDeposits, SmallSets
  <2>5. b \in {0, 1} /\ (BalanceDue = 0 \/ b = 1)
    <3>1. charged \cap {BalanceIntent} \subseteq {BalanceIntent} OBVIOUS
    <3> QED BY <2>3, <3>1, SmallSets
  <2> HIDE DEF d, b
  <2>6. ChargedCents = DepositDue * d + BalanceDue * b BY DEF ChargedCents, d, b
  <2>7. BalanceDue * b = BalanceDue /\ DepositDue * d = DepositDue
    BY <2>4, <2>5, AmountFacts
  <2> QED BY <2>6, <2>7, QuoteAssumption DEF BalanceDue
<1>2. IInv => PayoutIsCovered BY <1>1 DEF PayoutIsCovered
<1> QED BY <1>2, Invariance, PTL

\* A gig is locked, under way or delivered only with its deposit charged (the guard of
\* gig.ts), in a booking without disputes: one opened before the deposit breaks it.
THEOREM LockedIsFundedAlways ==
  ASSUME "dispute" \notin Ops
  PROVE  Spec => []LockedIsFunded
<1>1. IInv => LockedIsFunded
  BY DEF IInv, GigTold, Locked, DepositPaid, World, LockedIsFunded
<1> QED BY <1>1, Invariance, PTL

-----------------------------------------------------------------------------
\* Requests that do not overlap

Alone == \A v, w \in Workers : v = w

\* What loading a row and its entries returns.
Canon(e) == e \in EscrowRecords /\ e = Load(RowOf(e), e.entries)

\* An escrow that a request has loaded and then moved on from the entries s.
Grown(e, s) == Canon(e) /\ \E t \in Seq(Entries) : e.entries = s \o t

\* What a request read still is what the tables hold, q the row and s the ledger.
Reading(r, q, s) ==
  /\ r.op = "fund" /\ r.at \in {"intent", "create"} => q = NoRow
  /\ r.at = "ledger" => RowOf(r.e) = q
  /\ r.at \in {"gig", "transfer", "refund"} => r.e = Load(q, s)
  /\ r.at \in {"count", "commit"} => Grown(r.e, s) /\ AssertLedgerBalances(r.e)
  /\ r.at = "commit" => r.count = Len(s)

Straight ==
  /\ row = NoRow => ledger = <<>>
  /\ StoredLedgerBalances
  /\ \A w \in Workers : Reading(req[w], row, ledger)

LEMMA SameEscrow ==
  ASSUME NEW d \in EscrowRecords, NEW e \in EscrowRecords,
         d.state = e.state, d.deposit = e.deposit, d.balance = e.balance,
         d.transfer = e.transfer, d.entries = e.entries, d.captured = e.captured,
         d.refunded = e.refunded, d.released = e.released
  PROVE  d = e
BY DEF EscrowRecords

LEMMA CanonLoad ==
  ASSUME NEW r \in EscrowRows, NEW s \in Seq(Entries)
  PROVE  Canon(Load(r, s)) /\ Grown(Load(r, s), s)
<1>1. Canon(Load(r, s)) /\ Load(r, s).entries = s BY LoadFacts DEF Canon
<1>2. <<>> \in Seq(Entries) /\ s = s \o <<>> OBVIOUS
<1> QED BY <1>1, <1>2 DEF Grown

LEMMA CanonColumns ==
  ASSUME NEW e, Canon(e), NEW d \in EscrowRecords, d.entries = e.entries,
         d.captured = e.captured, d.refunded = e.refunded, d.released = e.released
  PROVE  Canon(d)
<1> DEFINE l == Load(RowOf(d), d.entries)
<1>1. /\ e \in EscrowRecords /\ RowOf(e) \in EscrowRows /\ RowOf(d) \in EscrowRows
      /\ d.entries \in Seq(Entries)
  BY EscrowFields DEF Canon
<1>2. /\ l \in EscrowRecords /\ l.entries = d.entries
      /\ l.state = d.state /\ l.deposit = d.deposit /\ l.balance = d.balance
      /\ l.transfer = d.transfer
  BY <1>1, LoadFacts DEF RowOf
<1>3. /\ l.captured = Load(RowOf(e), d.entries).captured
      /\ l.refunded = Load(RowOf(e), d.entries).refunded
      /\ l.released = Load(RowOf(e), d.entries).released
  BY <1>1, LoadColumns
<1>4. l.captured = d.captured /\ l.refunded = d.refunded /\ l.released = d.released
  BY <1>3 DEF Canon
<1> HIDE DEF l
<1>5. l = d BY <1>2, <1>4, SameEscrow
<1> QED BY <1>5 DEF Canon, l

LEMMA CanonPost ==
  ASSUME NEW e, Canon(e), NEW x \in Entries
  PROVE  Canon(Post(e, x.type, x.amount, x.ref))
<1> DEFINE p == Post(e, x.type, x.amount, x.ref)
<1>1. e \in EscrowRecords /\ e = Load(RowOf(e), e.entries) /\ e.entries \in Seq(Entries)
  BY EscrowFields DEF Canon
<1>2. p \in EscrowRecords /\ RowOf(p) = RowOf(e) /\ p.entries = Append(e.entries, x)
  BY <1>1, PostFacts
<1>3. Load(RowOf(e), Append(e.entries, x)) = p BY <1>1, LoadAppend
<1> HIDE DEF p
<1>4. Canon(p) BY <1>2, <1>3 DEF Canon
<1> QED BY <1>4 DEF p

LEMMA GrownColumns ==
  ASSUME NEW s, NEW e, Grown(e, s), NEW d \in EscrowRecords, d.entries = e.entries,
         d.captured = e.captured, d.refunded = e.refunded, d.released = e.released
  PROVE  Grown(d, s)
BY CanonColumns DEF Grown

LEMMA GrownPost ==
  ASSUME NEW s \in Seq(Entries), NEW e, Grown(e, s),
         NEW type \in EntryTypes, NEW amount \in Int, NEW ref \in Refs \cup {NoRef}
  PROVE  LET p == Post(e, type, amount, ref)
         IN Grown(p, s) /\ p \in EscrowRecords
<1> DEFINE x == [type |-> type, amount |-> amount, ref |-> ref]
           p == Post(e, type, amount, ref)
<1>1. x \in Entries /\ x.type = type /\ x.amount = amount /\ x.ref = ref BY DEF Entries
<1> HIDE DEF x
<1>2. Canon(e) /\ e \in EscrowRecords BY DEF Grown, Canon
<1>3. p \in EscrowRecords /\ p.entries = Append(e.entries, x) BY <1>1, <1>2, PostFacts
<1>4. Canon(p) BY <1>1, <1>2, CanonPost
<1>5. PICK t \in Seq(Entries) : e.entries = s \o t BY DEF Grown
<1>6. Append(t, x) \in Seq(Entries) BY <1>1
<1>7. Append(s \o t, x) = s \o Append(t, x) BY <1>1
<1> HIDE DEF p
<1>8. Grown(p, s) BY <1>3, <1>4, <1>5, <1>6, <1>7 DEF Grown
<1> QED BY <1>3, <1>8 DEF p

\* Money that leaves, or is held back, takes the escrow out of the funding states.
Drains(q, e) == q = e \/ q.state \in OutflowStates

\* The functions of the domain move an escrow on.
LEMMA RecordGrown ==
  ASSUME NEW s \in Seq(Entries), NEW e, Grown(e, s), NEW i \in Intents
  PROVE  Grown(Record(e, i), s)
<1>1. e \in EscrowRecords BY DEF Grown, Canon
<1>2. CASE Booked(e, i) BY <1>2 DEF Record, RecordDeposit, RecordBalance
<1>3. CASE ~ Booked(e, i)
  <2> DEFINE a == AmountOf(i)
             type == IF i = BalanceIntent THEN "balance_captured" ELSE "deposit_captured"
             d == IF i = BalanceIntent THEN [e EXCEPT !.balance = i] ELSE [e EXCEPT !.deposit = i]
             p == Post(d, type, a, i)
             f == IF i = BalanceIntent \/ p.captured >= HostTotal
                    THEN "FullyFunded" ELSE "DepositHeld"
             q == [p EXCEPT !.state = f]
  <2>1. Record(e, i) = q BY <1>3 DEF Record, RecordDeposit, RecordBalance
  <2>2. type \in EntryTypes /\ a \in Int /\ i \in Refs \cup {NoRef} /\ f \in EscrowStates
    BY RefFacts, AmountFacts DEF EntryTypes, CaptureTypes, EscrowStates
  <2>3. d \in EscrowRecords /\ d.entries = e.entries /\ d.captured = e.captured
        /\ d.refunded = e.refunded /\ d.released = e.released
    BY <1>1, <2>2 DEF EscrowRecords
  <2> HIDE DEF d, f
  <2>4. Grown(d, s) BY <2>3, GrownColumns
  <2> HIDE DEF a, type
  <2>5. Grown(p, s) /\ p \in EscrowRecords BY <2>2, <2>4, GrownPost
  <2> HIDE DEF p
  <2>6. q \in EscrowRecords /\ q.entries = p.entries /\ q.captured = p.captured
        /\ q.refunded = p.refunded /\ q.released = p.released
    BY <2>2, <2>5 DEF EscrowRecords
  <2> HIDE DEF q
  <2>7. Grown(q, s) BY <2>5, <2>6, GrownColumns
  <2> QED BY <2>1, <2>7
<1> QED BY <1>2, <1>3

LEMMA GrownState ==
  ASSUME NEW s, NEW e, Grown(e, s), e \in EscrowRecords, NEW f \in EscrowStates
  PROVE  Grown([e EXCEPT !.state = f], s) /\ [e EXCEPT !.state = f].state = f
<1> DEFINE q == [e EXCEPT !.state = f]
<1>1. q \in EscrowRecords /\ q.state = f /\ q.entries = e.entries /\ q.captured = e.captured
      /\ q.refunded = e.refunded /\ q.released = e.released
  BY DEF EscrowRecords
<1> HIDE DEF q
<1>2. Grown(q, s) BY <1>1, GrownColumns
<1> QED BY <1>1, <1>2 DEF q

LEMMA ReleaseGrown ==
  ASSUME NEW s \in Seq(Entries), NEW e, Grown(e, s), NEW k \in Transfers
  PROVE  Grown(Release(e, k), s) /\ Drains(Release(e, k), e)
<1>1. CASE e.transfer # NoRef BY <1>1 DEF Release, Drains
<1>2. CASE e.transfer = NoRef
  <2> DEFINE d == [e EXCEPT !.transfer = k]
             p == Post(d, "payout_released", -VendorPayout, k)
             q == Post(p, "commission_taken", -PlatformRevenue, NoRef)
  <2>1. e \in EscrowRecords /\ k \in Refs \cup {NoRef} BY RefFacts DEF Grown, Canon
  <2>2. d \in EscrowRecords /\ d.entries = e.entries /\ d.captured = e.captured
        /\ d.refunded = e.refunded /\ d.released = e.released
    BY <2>1 DEF EscrowRecords
  <2> HIDE DEF d
  <2>3. Grown(d, s) BY <2>2, GrownColumns
  <2>4. /\ "payout_released" \in EntryTypes /\ "commission_taken" \in EntryTypes
        /\ -VendorPayout \in Int /\ -PlatformRevenue \in Int
    BY AmountFacts DEF EntryTypes, PayoutTypes
  <2>5. Grown(p, s) BY <2>1, <2>3, <2>4, GrownPost
  <2> HIDE DEF p
  <2>6. Grown(q, s) /\ q \in EscrowRecords BY <2>4, <2>5, GrownPost
  <2>7. Release(e, k) = [q EXCEPT !.state = "Released"] BY <1>2 DEF Release, d, p
  <2> HIDE DEF q
  <2>8. "Released" \in EscrowStates /\ "Released" \in OutflowStates
    BY DEF EscrowStates, OutflowStates
  <2> QED BY <2>6, <2>7, <2>8, GrownState DEF Drains
<1> QED BY <1>1, <1>2

LEMMA RefundGrown ==
  ASSUME NEW s \in Seq(Entries), NEW e, Grown(e, s), NEW k \in RefundKeys, NEW a \in Int
  PROVE  Grown(Refund(e, a, k), s) /\ Drains(Refund(e, a, k), e)
<1>1. CASE Booked(e, k) BY <1>1 DEF Refund, Drains
<1>2. CASE ~ Booked(e, k)
  <2> DEFINE p == Post(e, "refund_issued", -a, k)
             f == IF HeldCents(p) = 0 THEN "Refunded" ELSE "PartiallyRefunded"
  <2>1. "refund_issued" \in EntryTypes /\ -a \in Int /\ k \in Refs \cup {NoRef}
    BY RefFacts DEF EntryTypes
  <2>2. Grown(p, s) /\ p \in EscrowRecords BY <2>1, GrownPost
  <2>3. Refund(e, a, k) = [p EXCEPT !.state = f] BY <1>2 DEF Refund
  <2>4. f \in EscrowStates /\ f \in OutflowStates BY DEF EscrowStates, OutflowStates
  <2> HIDE DEF p, f
  <2> QED BY <2>2, <2>3, <2>4, GrownState DEF Drains
<1> QED BY <1>1, <1>2

LEMMA DisputeGrown ==
  ASSUME NEW s \in Seq(Entries), NEW e, Grown(e, s), AssertLedgerBalances(e), OpenDisputeAllowed(e)
  PROVE  /\ Grown(OpenDispute(e), s) /\ AssertLedgerBalances(OpenDispute(e))
         /\ OpenDispute(e).state = "Disputed"
<1> DEFINE p == Post(e, "dispute_hold", 0, NoRef)
           q == [p EXCEPT !.state = "Disputed"]
           x == [type |-> "dispute_hold", amount |-> 0, ref |-> NoRef]
<1>1. "dispute_hold" \in EntryTypes /\ 0 \in Int /\ NoRef \in Refs \cup {NoRef}
  BY DEF EntryTypes
<1>2. Grown(p, s) /\ p \in EscrowRecords BY <1>1, GrownPost
<1>3. "Disputed" \in EscrowStates /\ OpenDispute(e) = q BY DEF EscrowStates, OpenDispute
<1>4. /\ x \in Entries /\ x.type = "dispute_hold" /\ x.amount = 0 /\ x.ref = NoRef
      /\ e \in EscrowRecords
  BY <1>1 DEF Entries, Grown, Canon
<1> HIDE DEF x
<1>9. x.type \notin CaptureTypes /\ x.type \notin PayoutTypes /\ x.type # "refund_issued"
  BY <1>4 DEF CaptureTypes, PayoutTypes
<1>10. p = Post(e, x.type, x.amount, x.ref) BY <1>4
<1> HIDE DEF p
<1>5. p.captured = e.captured /\ p.refunded = e.refunded /\ p.released = e.released
  BY <1>4, <1>9, <1>10, PostFacts
<1>6. q.state = "Disputed" /\ q.captured = e.captured /\ q.refunded = e.refunded
      /\ q.released = e.released
  BY <1>2, <1>5 DEF EscrowRecords
<1>7. Grown(q, s) BY <1>2, <1>3, GrownState
<1> HIDE DEF q
<1>8. AssertLedgerBalances(q)
  BY <1>6 DEF AssertLedgerBalances, HeldCents, OutflowOf, OutflowStates
<1> QED BY <1>3, <1>6, <1>7, <1>8

LEMMA RulingGrown ==
  ASSUME NEW s \in Seq(Entries), NEW e, Grown(e, s), NEW toVendor \in Int, NEW toHost \in Int,
         NEW transfer \in Refs \cup {NoRef}, NEW refund \in Refs \cup {NoRef}
  PROVE  LET q == ResolveDispute(e, toVendor, toHost, transfer, refund)
         IN Grown(q, s) /\ Drains(q, e)
<1> DEFINE p == IF toHost > 0 THEN Post(e, "refund_issued", -toHost, refund) ELSE e
           q == IF toVendor > 0 THEN Post(p, "dispute_released", -toVendor, transfer) ELSE p
           f == IF toVendor > 0 THEN "Released" ELSE "Refunded"
<1>1. ResolveDispute(e, toVendor, toHost, transfer, refund) = [q EXCEPT !.state = f]
  BY DEF ResolveDispute
<1>2. /\ "refund_issued" \in EntryTypes /\ "dispute_released" \in EntryTypes
      /\ f \in EscrowStates /\ f \in OutflowStates
  BY DEF EntryTypes, PayoutTypes, EscrowStates, OutflowStates
<1>3. -toHost \in Int /\ -toVendor \in Int /\ e \in EscrowRecords BY DEF Grown, Canon
<1>4. Grown(p, s) /\ p \in EscrowRecords BY <1>2, <1>3, GrownPost
<1> HIDE DEF p
<1>5. Grown(q, s) /\ q \in EscrowRecords BY <1>2, <1>3, <1>4, GrownPost
<1> HIDE DEF q, f
<1> QED BY <1>1, <1>2, <1>5, GrownState DEF Drains

\* A step that leaves the row and the ledger as they are.
LEMMA SteadyStep ==
  ASSUME Alone, IInv, Straight, NEW w \in Workers, NEW x, req' = [req EXCEPT ![w] = x],
         UNCHANGED <<row, ledger>>, Reading(x, row, ledger)
  PROVE  Straight'
<1>1. \A u \in Workers : req'[u] = x BY DEF Alone, IInv
<1>2. \A u \in Workers : Reading(req'[u], row', ledger') BY <1>1
<1>3. StoredLedgerBalances' BY DEF Straight, StoredLedgerBalances, Stored
<1> QED BY <1>2, <1>3 DEF Straight

LEMMA SteadyEnd ==
  ASSUME Alone, IInv, Straight, NEW w \in Workers, End(w), UNCHANGED <<row, ledger>>
  PROVE  Straight'
<1>1. Reading(Idle, row, ledger) BY DEF Reading, Idle
<1> QED BY <1>1, SteadyStep DEF End

LEMMA SteadyGoTo ==
  ASSUME Alone, IInv, Straight, NEW w \in Workers, NEW a, GoTo(w, a), UNCHANGED <<row, ledger>>,
         a \in {"save", "respond", "intent"},
         a = "intent" => row = NoRow
  PROVE  Straight'
<1> DEFINE x == [req[w] EXCEPT !.at = a]
<1>1. req[w] \in Requests BY DEF IInv
<1>2. x.at = a BY <1>1 DEF Requests
<1> HIDE DEF x
<1>3. Reading(x, row, ledger) BY <1>2 DEF Reading
<1> QED BY <1>3, SteadyStep DEF GoTo, x

LEMMA SteadySaveIf ==
  ASSUME Alone, IInv, Straight, NEW w \in Workers, NEW allowed, NEW result,
         SaveIf(w, allowed, result), UNCHANGED <<row, ledger>>,
         allowed => Grown(result, ledger)
  PROVE  Straight'
<1>1. CASE allowed /\ AssertLedgerBalances(result)
  <2> DEFINE x == [req[w] EXCEPT !.e = result, !.at = "count"]
  <2>1. req[w] \in Requests BY DEF IInv
  <2>2. x.at = "count" /\ x.e = result BY <2>1 DEF Requests
  <2>3. req' = [req EXCEPT ![w] = x] BY <1>1 DEF SaveIf
  <2> HIDE DEF x
  <2>4. Reading(x, row, ledger) BY <1>1, <2>2 DEF Reading
  <2> QED BY <2>3, <2>4, SteadyStep
<1>2. CASE ~ (allowed /\ AssertLedgerBalances(result))
  BY <1>2, SteadyEnd DEF SaveIf
<1> QED BY <1>1, <1>2

LEMMA SteadyStart ==
  ASSUME Alone, IInv, Straight, NEW w \in Workers, Start(w)
  PROVE  Straight'
<1>1. ASSUME NEW op \in Handlers, NEW at \in {"escrow", "row"}, NEW by \in Actors, NEW x,
             x.op = op, x.at = at, Begin(w, x), UNCHANGED <<row, ledger>>
      PROVE  Straight'
  <2>1. Reading(x, row, ledger) BY <1>1 DEF Reading
  <2> QED BY <1>1, <2>1, SteadyStep DEF Begin
<1>2. CASE \E i \in DepositIntents : StartFund(w, i)
  <2>1. PICK i \in DepositIntents : StartFund(w, i) BY <1>2
  <2> DEFINE r == Request("fund", "escrow", "host")
             x == [r EXCEPT !.g = gig, !.ref = i]
  <2>2. r \in Requests /\ r.op = "fund" /\ r.at = "escrow" BY HandlerNames, RequestFacts
  <2>3. Begin(w, x) /\ UNCHANGED <<row, ledger>> BY <2>1 DEF StartFund, rows
  <2> HIDE DEF r
  <2>4. x.op = "fund" /\ x.at = "escrow" BY <2>2 DEF Requests
  <2> HIDE DEF x
  <2> QED BY <1>1, <2>3, <2>4, HandlerNames
<1>3. CASE StartBalance(w)
  <2> DEFINE r == Request("balance", "intent", "host")
             x == [r EXCEPT !.ref = BalanceIntent]
  <2>1. r \in Requests /\ r.op = "balance" /\ r.at = "intent" BY HandlerNames, RequestFacts
  <2>2. Begin(w, x) /\ UNCHANGED <<row, ledger>> BY <1>3 DEF StartBalance, rows
  <2> HIDE DEF r
  <2>3. x.op = "balance" /\ x.at = "intent" BY <2>1 DEF Requests
  <2> HIDE DEF x
  <2>4. Reading(x, row, ledger) BY <2>3 DEF Reading
  <2> QED BY <2>2, <2>4, SteadyStep DEF Begin
<1>4. ASSUME NEW op \in {"webhook", "release", "cancel", "dispute", "resolve"}, NEW by \in Actors,
             NEW x, x.op = op, x.at = "ledger", x.e = Load(row, <<>>), row # NoRow,
             Begin(w, x), UNCHANGED <<row, ledger>>
      PROVE  Straight'
  <2>1. RowOf(x.e) = row BY <1>4, RowRead
  <2>2. Reading(x, row, ledger) BY <1>4, <2>1 DEF Reading
  <2> QED BY <1>4, <2>2, SteadyStep DEF Begin
<1>13. CASE \E i \in Intents : Dismiss(w, i)
  <2>1. UNCHANGED <<row, ledger, req>> BY <1>13 DEF Dismiss, rows
  <2> QED BY <2>1 DEF Straight, StoredLedgerBalances, Stored
<1>5. CASE \E i \in Intents : Deliver(w, i)
  <2>1. PICK i \in Intents : Deliver(w, i) BY <1>5
  <2> DEFINE r == Request("webhook", "ledger", "system")
             e == Load(row, <<>>)
             x == [r EXCEPT !.e = e, !.ref = i]
  <2>2. r \in Requests /\ r.op = "webhook" /\ r.at = "ledger" BY HandlerNames, RequestFacts
  <2>3. Begin(w, x) /\ UNCHANGED <<row, ledger>> /\ row # NoRow
    BY <2>1 DEF Deliver, Found, rows
  <2> HIDE DEF r, e
  <2>4. x.op = "webhook" /\ x.at = "ledger" /\ x.e = e BY <2>2 DEF Requests
  <2> HIDE DEF x
  <2> QED BY <1>4, <2>3, <2>4, HandlerNames DEF e
<1>6. ASSUME NEW op \in {"release", "cancel", "dispute", "resolve"}, NEW by \in Actors, NEW want,
             StartOn(w, op, by, want)
      PROVE  Straight'
  <2> DEFINE r == Request(op, "ledger", by)
             e == Load(row, <<>>)
             x == [r EXCEPT !.e = e, !.want = want]
  <2>1. op \in Handlers /\ "ledger" \in Stages BY HandlerNames
  <2>2. r \in Requests /\ r.op = op /\ r.at = "ledger" BY <2>1, RequestFacts
  <2>3. Begin(w, x) /\ UNCHANGED <<row, ledger>> /\ row # NoRow BY <1>6 DEF StartOn, rows
  <2> HIDE DEF r, e
  <2>4. x.op = op /\ x.at = "ledger" /\ x.e = e BY <2>2 DEF Requests
  <2> HIDE DEF x
  <2> QED BY <1>4, <2>3, <2>4 DEF e
<1>7. CASE \E by \in {"host", "admin"} : StartRelease(w, by)
  BY <1>6, <1>7, HandlerNames DEF StartRelease
<1>8. CASE StartSweep(w)
  <2> DEFINE r == Request("sweep", "row", "system")
             x == [r EXCEPT !.want = ReleaseWant]
  <2>1. r \in Requests /\ r.op = "sweep" /\ r.at = "row" BY HandlerNames, RequestFacts
  <2>2. Begin(w, x) /\ UNCHANGED <<row, ledger>> BY <1>8 DEF StartSweep, rows
  <2> HIDE DEF r
  <2>3. x.op = "sweep" /\ x.at = "row" BY <2>1 DEF Requests
  <2> HIDE DEF x
  <2> QED BY <1>1, <2>2, <2>3, HandlerNames
<1>9. CASE \E by \in Parties : StartCancel(w, by)
  BY <1>6, <1>9, HandlerNames DEF StartCancel
<1>10. CASE \E by \in {"host", "vendor"} : StartDispute(w, by)
  BY <1>6, <1>10, HandlerNames DEF StartDispute
<1>11. CASE \E split \in Splits : StartResolve(w, split)
  BY <1>6, <1>11, HandlerNames DEF StartResolve
<1>12. CASE \E by \in Parties, to \in GigStates : StartTransition(w, by, to)
  <2>1. PICK by \in Parties, to \in GigStates : StartTransition(w, by, to) BY <1>12
  <2> DEFINE r == Request("transition", "escrow", by)
             x == [r EXCEPT !.g = gig, !.to = to]
  <2>2. r \in Requests /\ r.op = "transition" /\ r.at = "escrow" BY HandlerNames, RequestFacts
  <2>3. Begin(w, x) /\ UNCHANGED <<row, ledger>> BY <2>1 DEF StartTransition, rows
  <2> HIDE DEF r
  <2>4. x.op = "transition" /\ x.at = "escrow" BY <2>2 DEF Requests
  <2> HIDE DEF x
  <2> QED BY <1>1, <2>3, <2>4, HandlerNames
<1> QED
  BY <1>2, <1>3, <1>5, <1>7, <1>8, <1>9, <1>10, <1>11, <1>12, <1>13 DEF Start

LEMMA SteadyFund ==
  ASSUME Alone, IInv, Straight, NEW w \in Workers,
         FundLookup(w) \/ FundIntent(w) \/ FundSaveGig(w)
  PROVE  Straight'
<1>1. CASE FundLookup(w)
  <2>1. UNCHANGED <<row, ledger>> BY <1>1 DEF FundLookup, rows
  <2>2. CASE row = NoRow
    <3>1. GoTo(w, "intent") BY <1>1, <2>2 DEF FundLookup
    <3> QED BY <2>1, <2>2, <3>1, SteadyGoTo
  <2>3. CASE row # NoRow
    <3>1. End(w) BY <1>1, <2>3 DEF FundLookup
    <3> QED BY <2>1, <3>1, SteadyEnd
  <2> QED BY <2>2, <2>3
<1>2. CASE FundIntent(w)
  <2> DEFINE r == req[w]
             e == [r.e EXCEPT !.deposit = r.ref]
             x == [r EXCEPT !.e = e, !.at = "create"]
  <2>1. r \in Requests /\ Reading(r, row, ledger) BY DEF IInv, Straight
  <2>2. r.op = "fund" /\ r.at = "intent" /\ UNCHANGED <<row, ledger>>
    BY <1>2 DEF FundIntent, rows, Doing, At
  <2>3. req' = [req EXCEPT ![w] = x] BY <1>2, <2>1 DEF FundIntent, IInv, Requests
  <2> HIDE DEF r, e
  <2>4. x.op = "fund" /\ x.at = "create" BY <2>1, <2>2 DEF Requests
  <2> HIDE DEF x
  <2>5. Reading(x, row, ledger) BY <2>1, <2>2, <2>4 DEF Reading
  <2> QED BY <2>2, <2>3, <2>5, SteadyStep
<1>3. CASE FundSaveGig(w)
  <2> DEFINE r == req[w]
             x == [r EXCEPT !.g = Idle.g, !.at = "respond"]
  <2>1. r \in Requests BY DEF IInv
  <2>2. req' = [req EXCEPT ![w] = x] /\ UNCHANGED <<row, ledger>> BY <1>3 DEF FundSaveGig
  <2> HIDE DEF r
  <2>3. x.at = "respond" BY <2>1 DEF Requests
  <2> HIDE DEF x
  <2>4. Reading(x, row, ledger) BY <2>3 DEF Reading
  <2> QED BY <2>2, <2>4, SteadyStep
<1> QED BY <1>1, <1>2, <1>3

\* The row is new and nothing has been captured for it.
LEMMA StraightFundCreate ==
  ASSUME Alone, IInv, Straight, NEW w \in Workers, FundCreate(w)
  PROVE  Straight'
<1>1. CASE row # NoRow
  <2>1. End(w) /\ UNCHANGED <<row, ledger>> BY <1>1 DEF FundCreate
  <2> QED BY <2>1, SteadyEnd
<1>2. CASE row = NoRow
  <2> DEFINE r == req[w]
             x == [r EXCEPT !.e = CreateEscrow, !.count = 0, !.at = "save"]
  <2>1. r \in Requests /\ Sound(r, World) /\ r.e \in EscrowRecords BY InFlight, RequestFields
  <2>2. r.op = "fund" /\ r.at = "create" /\ ledger' = ledger /\ ledger = <<>>
    BY <1>2 DEF FundCreate, Doing, At, Straight
  <2>3. row' = RowOf(r.e) /\ req' = [req EXCEPT ![w] = x] BY <1>2 DEF FundCreate, Saved
  <2>4. r.ref \in Refs \cup {NoRef} /\ r.e = [CreateEscrow EXCEPT !.deposit = r.ref]
    BY <2>1, <2>2 DEF Sound, Requests
  <2>5. r.e.state = "AwaitingDeposit" BY <2>4, CreateEscrowFacts
  <2>6. row'.state = "AwaitingDeposit" /\ row' # NoRow
    BY <2>1, <2>3, <2>5, EscrowFields, BookingAssumption DEF RowOf
  <2>7. AssertLedgerBalances(Load(row', <<>>))
    <3> DEFINE e == Load(row', <<>>)
    <3>1. e.state = "AwaitingDeposit" /\ e.captured = 0 /\ e.refunded = 0 /\ e.released = 0
      BY <2>6, LoadEmpty
    <3> HIDE DEF e
    <3>2. AssertLedgerBalances(e)
      BY <3>1, AmountFacts DEF AssertLedgerBalances, HeldCents, OutflowOf
    <3> QED BY <3>2 DEF e
  <2>8. StoredLedgerBalances' BY <2>2, <2>7 DEF StoredLedgerBalances, Stored
  <2> HIDE DEF r
  <2>9. x.at = "save" BY <2>1 DEF Requests
  <2> HIDE DEF x
  <2>10. \A u \in Workers : req'[u] = x BY <2>3 DEF Alone, IInv
  <2>11. \A u \in Workers : Reading(req'[u], row', ledger') BY <2>9, <2>10 DEF Reading
  <2> QED BY <2>6, <2>8, <2>11 DEF Straight
<1> QED BY <1>1, <1>2

\* What a request that has read both tables has is what they hold.
LEMMA StoredRead ==
  ASSUME IInv, Straight, NEW w \in Workers, req[w].at \in {"ledger", "gig", "transfer", "refund"}
  PROVE  LET e == IF req[w].at = "ledger" THEN Load(RowOf(req[w].e), ledger) ELSE req[w].e
         IN /\ e = Load(row, ledger) /\ Grown(e, ledger) /\ AssertLedgerBalances(e)
            /\ ledger \in Seq(Entries)
<1> DEFINE e == IF req[w].at = "ledger" THEN Load(RowOf(req[w].e), ledger) ELSE req[w].e
<1>1. e = Load(row, ledger) BY DEF Straight, Reading
<1>2. row \in EscrowRows /\ row # NoRow
  BY InFlight DEF Sound, Snapshot, IInv, Accounts, World
<1>3. ledger \in Seq(Entries) BY DEF IInv
<1>4. Grown(Load(row, ledger), ledger) BY <1>2, <1>3, CanonLoad
<1>5. AssertLedgerBalances(Load(row, ledger))
  BY <1>2 DEF Straight, StoredLedgerBalances, Stored
<1> HIDE DEF e
<1> QED BY <1>1, <1>3, <1>4, <1>5 DEF e

LEMMA SteadyReads ==
  ASSUME Alone, IInv, Straight, NEW w \in Workers,
         SweepRow(w) \/ ReadLedger(w) \/ ReadGig(w)
  PROVE  Straight'
<1> DEFINE r == req[w]
<1>1. r \in Requests /\ Sound(r, World) BY InFlight
<1>2. CASE SweepRow(w)
  <2> DEFINE e == Load(row, <<>>)
             x == [r EXCEPT !.e = e, !.at = "ledger"]
  <2>1. /\ r.op = "sweep" /\ r.at = "row" /\ UNCHANGED <<row, ledger>>
        /\ req' = [req EXCEPT ![w] = x]
    BY <1>2 DEF SweepRow, rows, Doing, At
  <2>2. RowOf(e) = row BY <1>1, <2>1, RowRead DEF Sound, World
  <2> HIDE DEF r, e
  <2>3. x.at = "ledger" /\ x.e = e /\ x.op = "sweep" BY <1>1, <2>1 DEF Requests
  <2> HIDE DEF x
  <2>4. Reading(x, row, ledger) BY <2>2, <2>3 DEF Reading
  <2> QED BY <2>1, <2>4, SteadyStep
<1>3. CASE ReadLedger(w)
  <2> DEFINE e == Load(RowOf(r.e), ledger)
             a == IF r.op = "sweep" THEN "transfer" ELSE "gig"
             x == [r EXCEPT !.e = e, !.at = a]
  <2>1. /\ r.at = "ledger" /\ UNCHANGED <<row, ledger>>
        /\ req' = [req EXCEPT ![w] = x]
    BY <1>1, <1>3 DEF ReadLedger, rows, At, IInv, Requests
  <2>2. e = Load(row, ledger) BY <2>1, StoredRead
  <2> HIDE DEF r, e
  <2>3. x.at = a /\ x.e = e BY <1>1 DEF Requests
  <2> HIDE DEF x
  <2>4. Reading(x, row, ledger) BY <2>2, <2>3 DEF Reading
  <2> QED BY <2>1, <2>4, SteadyStep
<1>4. CASE ReadGig(w)
  <2>1. /\ r.at = "gig" /\ UNCHANGED <<row, ledger>>
    BY <1>4 DEF ReadGig, rows, At
  <2>2. r.e = Load(row, ledger) BY <2>1, StoredRead
  <2>3. \/ End(w)
        \/ \E x : /\ req' = [req EXCEPT ![w] = x] /\ x.e = r.e
                  /\ x.at \in {"transfer", "refund", "save"}
    <3> DEFINE toHost == RefundAmount(HeldCents(r.e), RefundPercent(hoursLeft, r.by))
               a == IF toHost > 0 THEN "refund" ELSE "save"
               want == [r.want EXCEPT !.toHost = toHost]
               x == [r EXCEPT !.g = gig, !.at = "transfer"]
               y == [r EXCEPT !.g = gig, !.want = want, !.at = a]
    <3>1. x.e = r.e /\ x.at = "transfer" /\ y.e = r.e /\ y.at = a BY <1>1 DEF Requests
    <3>2. End(w) \/ req' = [req EXCEPT ![w] = x] \/ req' = [req EXCEPT ![w] = y]
      BY <1>1, <1>4 DEF ReadGig, IInv, Requests
    <3> HIDE DEF x, y, toHost, r
    <3> QED BY <3>1, <3>2
  <2>4. CASE End(w) BY <2>1, <2>4, SteadyEnd
  <2>5. ASSUME NEW x, req' = [req EXCEPT ![w] = x], x.e = r.e,
               x.at \in {"transfer", "refund", "save"}
        PROVE  Straight'
    <3>1. Reading(x, row, ledger) BY <2>2, <2>5 DEF Reading
    <3> QED BY <2>1, <2>5, <3>1, SteadyStep
  <2> QED BY <2>3, <2>4, <2>5
<1> QED BY <1>2, <1>3, <1>4

LEMMA SteadyWebhook ==
  ASSUME Alone, IInv, Straight, NEW w \in Workers, WebhookLedger(w)
  PROVE  Straight'
<1> DEFINE i == req[w].ref
           e == Load(RowOf(req[w].e), ledger)
<1>1. req[w].op = "webhook" /\ req[w].at = "ledger" /\ UNCHANGED <<row, ledger>>
  BY DEF WebhookLedger, Doing, At, rows
<1>2. i \in Intents BY <1>1, InFlight DEF Sound, IInv, Accounts, World
<1>3. Grown(e, ledger) /\ ledger \in Seq(Entries) BY <1>1, StoredRead
<1>4. End(w) \/ SaveIf(w, RecordAllowed(e, i), Record(e, i)) BY DEF WebhookLedger
<1> HIDE DEF e, i
<1>5. Grown(Record(e, i), ledger) BY <1>2, <1>3, RecordGrown
<1> QED BY <1>1, <1>4, <1>5, SteadyEnd, SteadySaveIf

LEMMA SteadyDispute ==
  ASSUME Alone, IInv, Straight, NEW w \in Workers, DisputeLedger(w)
  PROVE  Straight'
<1> DEFINE r == req[w]
           e == Load(RowOf(r.e), ledger)
           x == [r EXCEPT !.e = OpenDispute(e), !.at = "count"]
<1>1. r.at = "ledger" /\ UNCHANGED <<row, ledger>> BY DEF DisputeLedger, At, rows
<1>2. Grown(e, ledger) /\ AssertLedgerBalances(e) /\ ledger \in Seq(Entries)
  BY <1>1, StoredRead
<1>3. CASE ~ OpenDisputeAllowed(e)
  <2>1. End(w) BY <1>3 DEF DisputeLedger
  <2> QED BY <1>1, <2>1, SteadyEnd
<1>4. CASE OpenDisputeAllowed(e)
  <2>1. req' = [req EXCEPT ![w] = x] BY <1>4 DEF DisputeLedger
  <2>2. r \in Requests BY DEF IInv
  <2> HIDE DEF e, r
  <2>3. Grown(OpenDispute(e), ledger) /\ AssertLedgerBalances(OpenDispute(e))
    BY <1>2, <1>4, DisputeGrown
  <2>4. x.at = "count" /\ x.e = OpenDispute(e) BY <2>2 DEF Requests
  <2> HIDE DEF x
  <2>5. Reading(x, row, ledger) BY <2>3, <2>4 DEF Reading
  <2> QED BY <1>1, <2>1, <2>5, SteadyStep
<1> QED BY <1>3, <1>4

LEMMA SteadyResolve ==
  ASSUME Alone, IInv, Straight, NEW w \in Workers, ResolveLedger(w)
  PROVE  Straight'
<1> DEFINE r == req[w]
           e == Load(RowOf(r.e), ledger)
           a == IF r.want.toVendor > 0 THEN "transfer" ELSE "refund"
           x == [r EXCEPT !.e = e, !.at = a]
<1>1. r.at = "ledger" /\ UNCHANGED <<row, ledger>> BY DEF ResolveLedger, At, rows
<1>2. Grown(e, ledger) /\ e = Load(row, ledger) /\ ledger \in Seq(Entries)
  BY <1>1, StoredRead
<1>3. r \in Requests BY DEF IInv
<1>4. \/ SaveIf(w, ResolveDisputeAllowed(e, 0, 0), ResolveDispute(e, 0, 0, NoRef, NoRef))
      \/ req' = [req EXCEPT ![w] = x]
  BY DEF ResolveLedger
<1> HIDE DEF e, r
<1>5. CASE SaveIf(w, ResolveDisputeAllowed(e, 0, 0), ResolveDispute(e, 0, 0, NoRef, NoRef))
  <2>2. 0 \in Int /\ NoRef \in Refs \cup {NoRef} OBVIOUS
  <2>1. Grown(ResolveDispute(e, 0, 0, NoRef, NoRef), ledger) BY <1>2, <2>2, RulingGrown
  <2> QED BY <1>1, <1>5, <2>1, SteadySaveIf
<1>6. CASE req' = [req EXCEPT ![w] = x]
  <2>1. x.at = a /\ x.e = e BY <1>3 DEF Requests
  <2> HIDE DEF x
  <2>2. Reading(x, row, ledger) BY <1>2, <2>1 DEF Reading
  <2> QED BY <1>1, <1>6, <2>2, SteadyStep
<1> QED BY <1>4, <1>5, <1>6

LEMMA SteadyRuling ==
  ASSUME Alone, IInv, Straight, NEW w \in Workers, SaveRuling(w), UNCHANGED <<row, ledger>>,
         req[w].at \in {"transfer", "refund"}
  PROVE  Straight'
<1> DEFINE e == req[w].e
           want == req[w].want
           ruled == ResolveDispute(e, want.toVendor, want.toHost, DisputeTransfer, DisputeRefund)
<1>1. Grown(e, ledger) /\ ledger \in Seq(Entries) BY StoredRead
<1>2. want.toVendor \in Int /\ want.toHost \in Int BY InFlight, RequestFields
<1>3. SaveIf(w, ResolveDisputeAllowed(e, want.toVendor, want.toHost), ruled) BY DEF SaveRuling
<1>4. DisputeTransfer \in Refs \cup {NoRef} /\ DisputeRefund \in Refs \cup {NoRef} BY RefFacts
<1> HIDE DEF e, want
<1>5. Grown(ruled, ledger) BY <1>1, <1>2, <1>4, RulingGrown
<1> HIDE DEF ruled
<1> QED BY <1>3, <1>5, SteadySaveIf

LEMMA SteadyTransfer ==
  ASSUME Alone, IInv, Straight, NEW w \in Workers, CallTransfer(w)
  PROVE  Straight'
<1> DEFINE r == req[w]
           e == r.e
           k == TransferKey(r.op)
<1>1. r.at = "transfer" /\ UNCHANGED <<row, ledger>> BY DEF CallTransfer, At, rows
<1>2. Grown(e, ledger) /\ e = Load(row, ledger) /\ ledger \in Seq(Entries)
  BY <1>1, StoredRead
<1>3. r \in Requests BY DEF IInv
<1>4. \/ End(w)
      \/ r.op # "resolve" /\ SaveIf(w, ReleaseAllowed(e, ApprovalOf(r.op)), Release(e, k))
      \/ GoTo(w, "refund")
      \/ SaveRuling(w)
  BY DEF CallTransfer
<1>5. CASE End(w) BY <1>1, <1>5, SteadyEnd
<1>6. CASE r.op # "resolve" /\ SaveIf(w, ReleaseAllowed(e, ApprovalOf(r.op)), Release(e, k))
  <2>1. k \in Transfers BY RefFacts DEF TransferKey
  <2> HIDE DEF k, e
  <2>2. Grown(Release(e, k), ledger) BY <1>2, <2>1, ReleaseGrown
  <2> QED BY <1>1, <1>6, <2>2, SteadySaveIf
<1>7. CASE GoTo(w, "refund")
  <2> DEFINE x == [r EXCEPT !.at = "refund"]
  <2>1. x.at = "refund" /\ x.e = e BY <1>3 DEF Requests
  <2>2. req' = [req EXCEPT ![w] = x] BY <1>7 DEF GoTo
  <2> HIDE DEF x, e
  <2>3. Reading(x, row, ledger) BY <1>2, <2>1 DEF Reading
  <2> QED BY <1>1, <2>2, <2>3, SteadyStep
<1>8. CASE SaveRuling(w) BY <1>1, <1>8, SteadyRuling
<1> QED BY <1>4, <1>5, <1>6, <1>7, <1>8

LEMMA SteadyRefund ==
  ASSUME Alone, IInv, Straight, NEW w \in Workers, CallRefund(w)
  PROVE  Straight'
<1> DEFINE r == req[w]
           e == r.e
           k == RefundKey(r.op)
           a == r.want.toHost
<1>1. r.at = "refund" /\ UNCHANGED <<row, ledger>> BY DEF CallRefund, At, rows
<1>2. Grown(e, ledger) /\ ledger \in Seq(Entries) BY <1>1, StoredRead
<1>3. a \in Int BY InFlight, RequestFields
<1>4. \/ End(w)
      \/ SaveIf(w, RefundAllowed(e, a, k), Refund(e, a, k))
      \/ SaveRuling(w)
  BY DEF CallRefund
<1>5. CASE End(w) BY <1>1, <1>5, SteadyEnd
<1>6. CASE SaveIf(w, RefundAllowed(e, a, k), Refund(e, a, k))
  <2>1. k \in RefundKeys BY RefFacts DEF RefundKey
  <2> HIDE DEF k, e, a
  <2>2. Grown(Refund(e, a, k), ledger) BY <1>2, <1>3, <2>1, RefundGrown
  <2> QED BY <1>1, <1>6, <2>2, SteadySaveIf
<1>7. CASE SaveRuling(w) BY <1>1, <1>7, SteadyRuling
<1> QED BY <1>4, <1>5, <1>6, <1>7

LEMMA SteadyCount ==
  ASSUME Alone, IInv, Straight, NEW w \in Workers, CountLedger(w)
  PROVE  Straight'
<1> DEFINE r == req[w]
           x == [r EXCEPT !.count = Len(ledger), !.at = "commit"]
<1>1. r.at = "count" /\ UNCHANGED <<row, ledger>> /\ req' = [req EXCEPT ![w] = x]
  BY DEF CountLedger, At, rows
<1>2. r \in Requests /\ Reading(r, row, ledger) BY DEF IInv, Straight
<1> HIDE DEF r
<1>3. x.at = "commit" /\ x.e = r.e /\ x.count = Len(ledger) BY <1>2 DEF Requests
<1> HIDE DEF x
<1>4. Reading(x, row, ledger) BY <1>1, <1>2, <1>3 DEF Reading
<1> QED BY <1>1, <1>4, SteadyStep

LEMMA RestOf ==
  ASSUME NEW s \in Seq(Entries), NEW t \in Seq(Entries)
  PROVE  SubSeq(s \o t, Len(s) + 1, Len(s \o t)) = t
OBVIOUS

\* The save adds the entries the table lacks, and the row and the table are the copy.
LEMMA StraightCommit ==
  ASSUME Alone, IInv, Straight, NEW w \in Workers, CommitEscrow(w)
  PROVE  Straight'
<1> DEFINE r == req[w]
           new == NewEntries(r.e, r.count)
           a == IF r.op \in {"release", "cancel"} THEN "save" ELSE "regig"
           x == [r EXCEPT !.e = CreateEscrow, !.count = 0, !.at = a]
<1>1. r \in Requests /\ r.at = "commit" /\ Reading(r, row, ledger)
  BY DEF CommitEscrow, At, IInv, Straight
<1>2. /\ r.count = Len(ledger) /\ Grown(r.e, ledger) /\ AssertLedgerBalances(r.e)
      /\ ledger \in Seq(Entries)
  BY <1>1 DEF Reading, IInv
<1>3. CASE ~ UniqueRefs(new)
  <2>1. End(w) /\ UNCHANGED <<row, ledger>> BY <1>3 DEF CommitEscrow
  <2> QED BY <2>1, SteadyEnd
<1>4. CASE UniqueRefs(new)
  <2>1. row' = RowOf(r.e) /\ ledger' = ledger \o new /\ req' = [req EXCEPT ![w] = x]
    BY <1>4 DEF CommitEscrow, Saved, Doing
  <2>2. PICK t \in Seq(Entries) : r.e.entries = ledger \o t BY <1>2 DEF Grown
  <2>3. new = t BY <1>2, <2>2, RestOf DEF NewEntries
  <2>4. ledger' = r.e.entries BY <2>1, <2>2, <2>3
  <2>5. Load(row', ledger') = r.e BY <1>2, <2>1, <2>4 DEF Grown, Canon
  <2>6. StoredLedgerBalances' BY <1>2, <2>5 DEF StoredLedgerBalances, Stored
  <2>7. row' # NoRow BY <1>1, <2>1, RequestFields, EscrowFields, BookingAssumption
  <2> HIDE DEF r, new
  <2>8. x.at = a BY <1>1 DEF Requests
  <2> HIDE DEF x
  <2>9. \A u \in Workers : req'[u] = x BY <2>1 DEF Alone, IInv
  <2>10. \A u \in Workers : Reading(req'[u], row', ledger') BY <2>8, <2>9 DEF Reading
  <2> QED BY <2>6, <2>7, <2>10 DEF Straight
<1> QED BY <1>3, <1>4

LEMMA SteadyGigs ==
  ASSUME Alone, IInv, Straight, NEW w \in Workers,
         RereadGig(w) \/ TransitionLookup(w)
  PROVE  Straight'
<1> DEFINE r == req[w]
<1>1. r \in Requests BY DEF IInv
<1>2. CASE RereadGig(w)
  <2> DEFINE x == [r EXCEPT !.g = gig, !.at = "save"]
  <2>1. UNCHANGED <<row, ledger>> /\ (End(w) \/ req' = [req EXCEPT ![w] = x])
    BY <1>2 DEF RereadGig, rows
  <2> HIDE DEF r
  <2>2. x.at = "save" BY <1>1 DEF Requests
  <2> HIDE DEF x
  <2>3. Reading(x, row, ledger) BY <2>2 DEF Reading
  <2> QED BY <2>1, <2>3, SteadyStep, SteadyEnd
<1>3. CASE TransitionLookup(w)
  <2> DEFINE s == IF row = NoRow THEN "AwaitingDeposit" ELSE row.state
             e == [r.e EXCEPT !.state = s]
             x == [r EXCEPT !.e = e, !.at = "save"]
  <2>1. UNCHANGED <<row, ledger>> BY <1>3 DEF TransitionLookup, rows
  <2>2. req' = [req EXCEPT ![w] = x] BY <1>1, <1>3 DEF TransitionLookup, IInv, Requests
  <2> HIDE DEF r, e
  <2>3. x.at = "save" BY <1>1 DEF Requests
  <2> HIDE DEF x
  <2>4. Reading(x, row, ledger) BY <2>3 DEF Reading
  <2> QED BY <2>1, <2>2, <2>4, SteadyStep
<1> QED BY <1>2, <1>3

LEMMA StraightContinue ==
  ASSUME Alone, IInv, Straight, NEW w \in Workers, Continue(w)
  PROVE  Straight'
<1>1. CASE BalanceMakeIntent(w)
  BY <1>1, SteadyGoTo DEF BalanceMakeIntent, rows
<1>2. CASE Respond(w) \/ SaveGig(w)
  BY <1>2, SteadyEnd DEF Respond, SaveGig, rows
<1> QED BY <1>1, <1>2, SteadyFund, StraightFundCreate, SteadyWebhook, SteadyReads, SteadyDispute,
           SteadyResolve, SteadyTransfer, SteadyRefund, SteadyCount, StraightCommit, SteadyGigs
           DEF Continue

LEMMA StraightStutter ==
  ASSUME Straight, UNCHANGED <<row, ledger, req>>
  PROVE  Straight'
BY DEF Straight, StoredLedgerBalances, Stored

LEMMA StraightNext ==
  ASSUME Alone, IInv, Straight, [Next]_vars
  PROVE  Straight'
<1>1. CASE \E w \in Workers : Crash(w) BY <1>1, SteadyEnd DEF Crash, rows
<1>2. CASE UNCHANGED vars \/ Tick \/ \E i \in Intents : Pay(i)
  BY <1>2, StraightStutter DEF vars, Tick, Pay, rows
<1> QED BY <1>1, <1>2, SteadyStart, StraightContinue DEF Next

LEMMA StraightInit == Init => Straight
BY DEF Init, Straight, StoredLedgerBalances, Reading, Idle

\* The stored escrow always passes assertLedgerBalances (escrow.ts), through crashes at every
\* await, as long as requests do not overlap.
THEOREM StoredLedgerBalancesAlways ==
  ASSUME Alone
  PROVE  Spec => []StoredLedgerBalances
<1>1. IInv /\ Straight /\ [Next]_vars => Straight' BY StraightNext
<1>2. Straight => StoredLedgerBalances BY DEF Straight
<1> QED BY StraightInit, <1>1, <1>2, Invariance, PTL DEF Spec

-----------------------------------------------------------------------------
\* What has been answered for

Written(s, i) == \E j \in DOMAIN s : s[j].ref = i

\* q is a row or an escrow, s its entries, toks the tokens hosts have: until money leaves
\* or is held back, the state says which captures are written.
Progress(q, s, toks) ==
  q.state \notin OutflowStates =>
  /\ q.state \in {"AwaitingDeposit", "DepositHeld", "FullyFunded"}
  /\ q.state = "AwaitingDeposit" => BalanceIntent \notin toks
  /\ q.state # "AwaitingDeposit" => Written(s, q.deposit)
  /\ q.state = "FullyFunded" /\ BalanceIntent \in toks => Written(s, BalanceIntent)

Answering(r, q, s, toks) ==
  /\ r.op = "balance" =>
       q # NoRow /\ q.state = "DepositHeld" /\ r.at \notin {"count", "commit"}
  /\ r.at \in {"count", "commit"} =>
       /\ Progress(r.e, r.e.entries, toks)
       /\ q.state \in OutflowStates => r.e.state \in OutflowStates
       /\ r.op = "webhook" => Written(r.e.entries, r.ref)
  /\ r.op = "webhook" /\ r.at \in {"regig", "save"} => Written(s, r.ref)

Answered ==
  /\ AckedIsBooked
  /\ row # NoRow => Progress(row, ledger, tokens)
  /\ \A w \in Workers : Answering(req[w], row, ledger, tokens)

LEMMA AckStep ==
  ASSUME Alone, IInv, Answered, NEW w \in Workers, NEW x, req' = [req EXCEPT ![w] = x],
         UNCHANGED <<row, ledger, tokens>>, Answering(x, row, ledger, tokens),
         \A i \in acked' : i \in acked \/ i \notin Named \/ Written(ledger, i) \/ Drained
  PROVE  Answered'
<1>1. \A u \in Workers : req'[u] = x BY DEF Alone, IInv
<1>2. \A u \in Workers : Answering(req'[u], row', ledger', tokens') BY <1>1
<1>3. AckedIsBooked' BY DEF Answered, AckedIsBooked, Written, HasEntryOf, Drained
<1> QED BY <1>2, <1>3 DEF Answered

LEMMA AckEnd ==
  ASSUME Alone, IInv, Answered, NEW w \in Workers, End(w), UNCHANGED <<row, ledger, tokens>>,
         \A i \in acked' : i \in acked \/ i \notin Named \/ Written(ledger, i) \/ Drained
  PROVE  Answered'
<1>1. Answering(Idle, row, ledger, tokens) BY DEF Answering, Idle
<1> QED BY <1>1, AckStep DEF End

\* The request has not been to the save of an escrow.
LEMMA AckQuiet ==
  ASSUME Alone, IInv, Answered, NEW w \in Workers, NEW x, req' = [req EXCEPT ![w] = x],
         UNCHANGED <<row, ledger, tokens, acked>>,
         x.op = "balance" => row # NoRow /\ row.state = "DepositHeld",
         x.op = "webhook" => x.at \notin {"regig", "save"},
         x.at \notin {"count", "commit"}
  PROVE  Answered'
<1>1. Answering(x, row, ledger, tokens) BY DEF Answering
<1> QED BY <1>1, AckStep

\* The stored escrow, as a request has loaded it.
LEMMA LoadedProgress ==
  ASSUME IInv, Answered, row # NoRow
  PROVE  LET e == Load(row, ledger)
         IN Progress(e, e.entries, tokens) /\ e.state = row.state /\ e.entries = ledger
<1>1. row \in EscrowRows /\ ledger \in Seq(Entries) BY DEF IInv, Accounts, World
<1>2. LET e == Load(row, ledger)
      IN e.state = row.state /\ e.entries = ledger /\ e.deposit = row.deposit
  BY <1>1, LoadFacts
<1> QED BY <1>2 DEF Answered, Progress

\* A request that is not about a capture goes to the save of an escrow.
LEMMA AckSave ==
  ASSUME Alone, IInv, Answered, NEW w \in Workers, NEW x, req' = [req EXCEPT ![w] = x],
         UNCHANGED <<row, ledger, tokens, acked>>, row # NoRow,
         x.op \notin {"balance", "webhook"}, Drains(x.e, Load(row, ledger))
  PROVE  Answered'
<1>1. Progress(x.e, x.e.entries, tokens) /\ (row.state \in OutflowStates => x.e.state \in OutflowStates)
  BY LoadedProgress DEF Drains, Progress
<1>2. Answering(x, row, ledger, tokens) BY <1>1 DEF Answering
<1> QED BY <1>2, AckStep

LEMMA AckSaveIf ==
  ASSUME Alone, IInv, Answered, NEW w \in Workers, NEW allowed, NEW result,
         SaveIf(w, allowed, result), UNCHANGED <<row, ledger, tokens, acked>>, row # NoRow,
         req[w].op \notin {"balance", "webhook"}, Drains(result, Load(row, ledger))
  PROVE  Answered'
<1> DEFINE x == [req[w] EXCEPT !.e = result, !.at = "count"]
<1>1. End(w) \/ req' = [req EXCEPT ![w] = x] BY DEF SaveIf, IInv, Requests
<1>2. x.op = req[w].op /\ x.e = result BY DEF IInv, Requests
<1> HIDE DEF x
<1> QED BY <1>1, <1>2, AckEnd, AckSave

\* Nothing is charged before there is an escrow.
LEMMA PaidRow ==
  ASSUME IInv, NEW i \in charged
  PROVE  row # NoRow
<1>1. \A d \in charged \cap DepositIntents : row # NoRow
  BY DEF IInv, Payable, World
<1>2. BalanceIntent \in charged => \E d \in DepositIntents : d \in charged
  BY DEF IInv, Payable, World, DepositPaid
<1>3. i \in Intents BY DEF IInv, Payable
<1> QED BY <1>1, <1>2, <1>3, RefFacts

LEMMA AckStart ==
  ASSUME Alone, IInv, Answered, NEW w \in Workers, Start(w)
  PROVE  Answered'
<1>1. CASE \E i \in DepositIntents : StartFund(w, i)
  <2>1. PICK i \in DepositIntents : StartFund(w, i) BY <1>1
  <2> DEFINE r == Request("fund", "escrow", "host")
             x == [r EXCEPT !.g = gig, !.ref = i]
  <2>2. r \in Requests /\ r.op = "fund" /\ r.at = "escrow" BY HandlerNames, RequestFacts
  <2>3. req' = [req EXCEPT ![w] = x] /\ UNCHANGED <<row, ledger, tokens, acked>>
    BY <2>1 DEF StartFund, rows, Begin
  <2> HIDE DEF r
  <2>4. x.op = "fund" /\ x.at = "escrow" BY <2>2 DEF Requests
  <2> HIDE DEF x
  <2> QED BY <2>3, <2>4, AckQuiet
<1>2. CASE StartBalance(w)
  <2> DEFINE r == Request("balance", "intent", "host")
             x == [r EXCEPT !.ref = BalanceIntent]
  <2>1. r \in Requests /\ r.op = "balance" /\ r.at = "intent" BY HandlerNames, RequestFacts
  <2>2. /\ req' = [req EXCEPT ![w] = x] /\ UNCHANGED <<row, ledger, tokens, acked>>
        /\ row # NoRow /\ row.state = "DepositHeld"
    BY <1>2 DEF StartBalance, rows, Begin
  <2> HIDE DEF r
  <2>3. x.op = "balance" /\ x.at = "intent" BY <2>1 DEF Requests
  <2> HIDE DEF x
  <2> QED BY <2>2, <2>3, AckQuiet
<1>11. CASE \E i \in Intents : Dismiss(w, i)
  <2>1. PICK i \in Intents : Dismiss(w, i) BY <1>11
  <2>2. /\ UNCHANGED <<row, ledger, req, tokens>> /\ acked' = acked \cup {i}
        /\ i \in Named => row = NoRow
    BY <2>1 DEF Dismiss, Found, rows
  <2>3. i \in charged BY <2>1 DEF Dismiss
  <2>4. row # NoRow BY <2>3, PaidRow
  <2>5. AckedIsBooked' BY <2>2, <2>4 DEF Answered, AckedIsBooked, HasEntryOf, Drained
  <2> QED BY <2>2, <2>5 DEF Answered
<1>3. CASE \E i \in Intents : Deliver(w, i)
  <2>1. PICK i \in Intents : Deliver(w, i) BY <1>3
  <2> DEFINE r == Request("webhook", "ledger", "system")
             x == [r EXCEPT !.e = Load(row, <<>>), !.ref = i]
  <2>2. r \in Requests /\ r.op = "webhook" /\ r.at = "ledger" BY HandlerNames, RequestFacts
  <2>3. req' = [req EXCEPT ![w] = x] /\ UNCHANGED <<row, ledger, tokens, acked>>
    BY <2>1 DEF Deliver, rows, Begin
  <2> HIDE DEF r
  <2>4. x.op = "webhook" /\ x.at = "ledger" BY <2>2 DEF Requests
  <2> HIDE DEF x
  <2> QED BY <2>3, <2>4, AckQuiet
<1>4. ASSUME NEW op \in {"release", "cancel", "dispute", "resolve"}, NEW by \in Actors, NEW want,
             StartOn(w, op, by, want)
      PROVE  Answered'
  <2> DEFINE r == Request(op, "ledger", by)
             e == Load(row, <<>>)
             x == [r EXCEPT !.e = e, !.want = want]
  <2>1. op \in Handlers /\ "ledger" \in Stages BY HandlerNames
  <2>2. r \in Requests /\ r.op = op /\ r.at = "ledger" BY <2>1, RequestFacts
  <2>3. req' = [req EXCEPT ![w] = x] /\ UNCHANGED <<row, ledger, tokens, acked>>
    BY <1>4 DEF StartOn, rows, Begin
  <2> HIDE DEF r, e
  <2>4. x.op = op /\ x.at = "ledger" BY <2>2 DEF Requests
  <2> HIDE DEF x
  <2> QED BY <2>3, <2>4, AckQuiet
<1>5. CASE \E by \in {"host", "admin"} : StartRelease(w, by)
  BY <1>4, <1>5, HandlerNames DEF StartRelease
<1>6. CASE StartSweep(w)
  <2> DEFINE r == Request("sweep", "row", "system")
             x == [r EXCEPT !.want = ReleaseWant]
  <2>1. r \in Requests /\ r.op = "sweep" /\ r.at = "row" BY HandlerNames, RequestFacts
  <2>2. req' = [req EXCEPT ![w] = x] /\ UNCHANGED <<row, ledger, tokens, acked>>
    BY <1>6 DEF StartSweep, rows, Begin
  <2> HIDE DEF r
  <2>3. x.op = "sweep" /\ x.at = "row" BY <2>1 DEF Requests
  <2> HIDE DEF x
  <2> QED BY <2>2, <2>3, AckQuiet
<1>7. CASE \E by \in Parties : StartCancel(w, by)
  BY <1>4, <1>7, HandlerNames DEF StartCancel
<1>8. CASE \E by \in {"host", "vendor"} : StartDispute(w, by)
  BY <1>4, <1>8, HandlerNames DEF StartDispute
<1>9. CASE \E split \in Splits : StartResolve(w, split)
  BY <1>4, <1>9, HandlerNames DEF StartResolve
<1>10. CASE \E by \in Parties, to \in GigStates : StartTransition(w, by, to)
  <2>1. PICK by \in Parties, to \in GigStates : StartTransition(w, by, to) BY <1>10
  <2> DEFINE r == Request("transition", "escrow", by)
             x == [r EXCEPT !.g = gig, !.to = to]
  <2>2. r \in Requests /\ r.op = "transition" /\ r.at = "escrow" BY HandlerNames, RequestFacts
  <2>3. req' = [req EXCEPT ![w] = x] /\ UNCHANGED <<row, ledger, tokens, acked>>
    BY <2>1 DEF StartTransition, rows, Begin
  <2> HIDE DEF r
  <2>4. x.op = "transition" /\ x.at = "escrow" BY <2>2 DEF Requests
  <2> HIDE DEF x
  <2> QED BY <2>3, <2>4, AckQuiet
<1> QED BY <1>1, <1>2, <1>3, <1>5, <1>6, <1>7, <1>8, <1>9, <1>10, <1>11 DEF Start

LEMMA AckFund ==
  ASSUME Alone, IInv, Straight, Answered, NEW w \in Workers,
         FundLookup(w) \/ FundIntent(w) \/ FundCreate(w) \/ FundSaveGig(w)
  PROVE  Answered'
<1> DEFINE r == req[w]
<1>1. r \in Requests /\ Sound(r, World) BY InFlight
<1>2. CASE FundLookup(w)
  <2> DEFINE x == [r EXCEPT !.at = "intent"]
  <2>1. /\ r.op = "fund" /\ UNCHANGED <<row, ledger, tokens, acked>>
        /\ End(w) \/ req' = [req EXCEPT ![w] = x]
    BY <1>2 DEF FundLookup, rows, Doing, GoTo
  <2> HIDE DEF r
  <2>2. x.op = "fund" /\ x.at = "intent" BY <1>1, <2>1 DEF Requests
  <2> HIDE DEF x
  <2> QED BY <2>1, <2>2, AckEnd, AckQuiet
<1>3. CASE FundIntent(w)
  <2> DEFINE e == [r.e EXCEPT !.deposit = r.ref]
             x == [r EXCEPT !.e = e, !.at = "create"]
  <2>1. r.op = "fund" /\ UNCHANGED <<row, ledger, tokens, acked>>
    BY <1>3 DEF FundIntent, rows, Doing
  <2>2. req' = [req EXCEPT ![w] = x] BY <1>1, <1>3 DEF FundIntent, IInv, Requests
  <2> HIDE DEF r, e
  <2>3. x.op = "fund" /\ x.at = "create" BY <1>1, <2>1 DEF Requests
  <2> HIDE DEF x
  <2> QED BY <2>1, <2>2, <2>3, AckQuiet
<1>4. CASE FundSaveGig(w)
  <2> DEFINE x == [r EXCEPT !.g = Idle.g, !.at = "respond"]
  <2>1. /\ r.op = "fund" /\ UNCHANGED <<row, ledger, tokens, acked>>
        /\ req' = [req EXCEPT ![w] = x]
    BY <1>4 DEF FundSaveGig, Doing
  <2> HIDE DEF r
  <2>2. x.op = "fund" /\ x.at = "respond" BY <1>1, <2>1 DEF Requests
  <2> HIDE DEF x
  <2> QED BY <2>1, <2>2, AckQuiet
<1>5. CASE FundCreate(w)
  <2> DEFINE x == [r EXCEPT !.e = CreateEscrow, !.count = 0, !.at = "save"]
  <2>1. CASE row # NoRow
    <3>1. End(w) /\ UNCHANGED <<row, ledger, tokens, acked>> BY <1>5, <2>1 DEF FundCreate
    <3> QED BY <3>1, AckEnd
  <2>2. CASE row = NoRow
    <3>1. /\ r.op = "fund" /\ r.at = "create" /\ row' = RowOf(r.e)
          /\ req' = [req EXCEPT ![w] = x] /\ UNCHANGED <<ledger, tokens, acked>>
      BY <1>5, <2>2 DEF FundCreate, Saved, Doing, At
    <3>2. r.ref \in Refs \cup {NoRef} /\ r.e = [CreateEscrow EXCEPT !.deposit = r.ref]
      BY <1>1, <3>1 DEF Sound, Requests
    <3>3. row'.state = "AwaitingDeposit" BY <3>1, <3>2, CreateEscrowFacts DEF RowOf
    <3>4. BalanceIntent \notin tokens
      <4>1. Payable(charged, tokens, World) BY DEF IInv
      <4> QED BY <4>1, <2>2, RefFacts DEF Payable, World, DepositPaid
    <3>5. Progress(row', ledger', tokens') BY <3>1, <3>3, <3>4 DEF Progress
    <3> HIDE DEF r
    <3>6. x.op = "fund" /\ x.at = "save" BY <1>1, <3>1 DEF Requests
    <3> HIDE DEF x
    <3>7. \A u \in Workers : req'[u] = x BY <3>1 DEF Alone, IInv
    <3>8. \A u \in Workers : Answering(req'[u], row', ledger', tokens')
      BY <3>6, <3>7 DEF Answering
    <3>9. AckedIsBooked' BY <2>2, <3>1 DEF Answered, AckedIsBooked, HasEntryOf, Drained
    <3> QED BY <3>5, <3>8, <3>9 DEF Answered
  <2> QED BY <2>1, <2>2
<1> QED BY <1>2, <1>3, <1>4, <1>5

\* The host is handed a token: the balance's only while the deposit is held.
LEMMA AckRespond ==
  ASSUME Alone, IInv, Answered, NEW w \in Workers, BalanceMakeIntent(w) \/ Respond(w)
  PROVE  Answered'
<1> DEFINE r == req[w]
<1>1. r \in Requests /\ Sound(r, World) /\ Answering(r, row, ledger, tokens)
  BY InFlight DEF Answered
<1>2. CASE BalanceMakeIntent(w)
  <2> DEFINE x == [r EXCEPT !.at = "respond"]
  <2>1. /\ r.op = "balance" /\ UNCHANGED <<row, ledger, tokens, acked>>
        /\ req' = [req EXCEPT ![w] = x]
    BY <1>2 DEF BalanceMakeIntent, rows, Doing, GoTo
  <2>2. row # NoRow /\ row.state = "DepositHeld" BY <1>1, <2>1 DEF Answering
  <2> HIDE DEF r
  <2>3. x.op = "balance" /\ x.at = "respond" BY <1>1, <2>1 DEF Requests
  <2> HIDE DEF x
  <2> QED BY <2>1, <2>2, <2>3, AckQuiet
<1>3. CASE Respond(w)
  <2>1. /\ r.op \in {"fund", "balance"} /\ UNCHANGED <<row, ledger, acked>>
        /\ tokens' = tokens \cup {r.ref} /\ req' = [req EXCEPT ![w] = Idle]
    BY <1>3 DEF Respond, rows, Doing, End
  <2>2. \A u \in Workers : req'[u] = Idle BY <2>1 DEF Alone, IInv
  <2>3. \A u \in Workers : Answering(req'[u], row', ledger', tokens')
    BY <2>2 DEF Answering, Idle
  <2>4. row # NoRow => Progress(row, ledger, tokens')
    <3>1. CASE r.op = "fund"
      <4>1. BalanceIntent \in tokens' => BalanceIntent \in tokens
        BY <1>1, <2>1, <3>1, RefFacts DEF Sound
      <4> QED BY <4>1 DEF Answered, Progress
    <3>2. CASE r.op = "balance"
      <4>1. row.state = "DepositHeld" BY <1>1, <3>2 DEF Answering
      <4> QED BY <4>1 DEF Answered, Progress
    <3> QED BY <2>1, <3>1, <3>2
  <2>5. AckedIsBooked' BY <2>1 DEF Answered, AckedIsBooked, HasEntryOf, Drained
  <2> QED BY <2>1, <2>3, <2>4, <2>5 DEF Answered
<1> QED BY <1>2, <1>3

\* Recording a capture writes it and keeps what was written.
LEMMA RecordWrites ==
  ASSUME NEW e \in EscrowRecords, NEW i \in Intents, RecordAllowed(e, i), NEW toks,
         Progress(e, e.entries, toks),
         i # BalanceIntent => i = e.deposit
  PROVE  LET q == Record(e, i)
         IN /\ Written(q.entries, i) /\ Progress(q, q.entries, toks)
            /\ e.state \in OutflowStates => q.state \in OutflowStates
<1>1. CASE Booked(e, i)
  <2>1. Record(e, i) = e BY <1>1 DEF Record, RecordDeposit, RecordBalance
  <2>2. Written(e.entries, i) BY <1>1 DEF Booked, Written
  <2> QED BY <2>1, <2>2
<1>2. CASE ~ Booked(e, i)
  <2> DEFINE a == AmountOf(i)
             type == IF i = BalanceIntent THEN "balance_captured" ELSE "deposit_captured"
             d == IF i = BalanceIntent THEN [e EXCEPT !.balance = i] ELSE [e EXCEPT !.deposit = i]
             p == Post(d, type, a, i)
             f == IF i = BalanceIntent \/ p.captured >= HostTotal
                    THEN "FullyFunded" ELSE "DepositHeld"
             q == [p EXCEPT !.state = f]
             x == [type |-> type, amount |-> a, ref |-> i]
             s == e.entries
  <2>1. Record(e, i) = q BY <1>2 DEF Record, RecordDeposit, RecordBalance
  <2>2. type \in EntryTypes /\ a \in Int /\ i \in Refs \cup {NoRef} /\ f \in EscrowStates
    BY RefFacts, AmountFacts DEF EntryTypes, CaptureTypes, EscrowStates
  <2>3. d \in EscrowRecords /\ d.entries = s /\ d.deposit = e.deposit
    BY <2>2 DEF EscrowRecords
  <2>4. x \in Entries /\ x.type = type /\ x.amount = a /\ x.ref = i BY <2>2 DEF Entries
  <2>5. f \in {"FullyFunded", "DepositHeld"} /\ (i = BalanceIntent => f = "FullyFunded") OBVIOUS
  <2>6. /\ e.state = (IF i = BalanceIntent THEN "DepositHeld" ELSE "AwaitingDeposit")
    BY <1>2 DEF RecordAllowed, RecordBalanceAllowed, RecordDepositAllowed
  <2> HIDE DEF d, f, a, type, x
  <2>15. p = Post(d, x.type, x.amount, x.ref) BY <2>4
  <2> HIDE DEF p, s
  <2>7. p \in EscrowRecords /\ p.entries = Append(s, x) /\ p.deposit = e.deposit
    BY <2>3, <2>4, <2>15, PostFacts
  <2>8. q.state = f /\ q.entries = Append(s, x) /\ q.deposit = e.deposit
    BY <2>2, <2>7 DEF EscrowRecords
  <2>9. s \in Seq(Entries) BY DEF EscrowRecords, s
  <2> HIDE DEF q
  <2>10. /\ \A j \in DOMAIN s : j \in DOMAIN q.entries /\ q.entries[j] = s[j]
         /\ Len(s) + 1 \in DOMAIN q.entries /\ q.entries[Len(s) + 1] = x
    BY <2>4, <2>8, <2>9
  <2>11. Written(q.entries, i) /\ \A j : Written(s, j) => Written(q.entries, j)
    BY <2>4, <2>10 DEF Written
  <2>12. Progress(e, s, toks) /\ e.state \notin OutflowStates BY <2>6 DEF s, OutflowStates
  <2>13. CASE i = BalanceIntent
    BY <2>5, <2>6, <2>8, <2>11, <2>12, <2>13, <2>1 DEF Progress
  <2>14. CASE i # BalanceIntent
    BY <2>5, <2>6, <2>8, <2>11, <2>12, <2>14, <2>1 DEF Progress
  <2> QED BY <2>13, <2>14
<1> QED BY <1>1, <1>2

LEMMA AckWebhook ==
  ASSUME Alone, IInv, Straight, Answered, NEW w \in Workers, WebhookLedger(w)
  PROVE  Answered'
<1> DEFINE r == req[w]
           i == r.ref
           e == Load(RowOf(r.e), ledger)
           q == Record(e, i)
           x == [r EXCEPT !.e = q, !.at = "count"]
<1>1. /\ r.op = "webhook" /\ r.at = "ledger" /\ UNCHANGED <<row, ledger, tokens>>
      /\ r \in Requests /\ Sound(r, World)
  BY InFlight DEF WebhookLedger, Doing, At, rows
<1>2. i \in charged /\ i \in Intents /\ row # NoRow /\ row \in EscrowRows
  BY <1>1 DEF Sound, IInv, Accounts, World, Snapshot
<1>3. i \in tokens /\ (i # BalanceIntent => i = row.deposit)
  BY <1>2, RefFacts DEF IInv, Payable, World
<1>4. e = Load(row, ledger) /\ ledger \in Seq(Entries) BY <1>1, StoredRead
<1>5. e \in EscrowRecords /\ e.entries = ledger /\ e.state = row.state /\ e.deposit = row.deposit
  BY <1>2, <1>4, LoadFacts
<1>6. Progress(row, ledger, tokens) BY <1>2 DEF Answered
<1>7. \/ OutOfOrder(e, i) /\ End(w)
      \/ End(w) /\ acked' = acked
      \/ RecordAllowed(e, i) /\ req' = [req EXCEPT ![w] = x] /\ acked' = acked
  BY DEF WebhookLedger, SaveIf
<1> HIDE DEF e, i, r
<1>8. CASE OutOfOrder(e, i) /\ End(w)
  <2>1. acked' \subseteq acked \cup {i} BY <1>8 DEF WebhookLedger, e, i, r
  <2>2. ASSUME ~ Written(ledger, i), row.state \notin OutflowStates PROVE FALSE
    <3>1. ~ Booked(e, i) /\ e.state # (IF i = BalanceIntent THEN "DepositHeld" ELSE "AwaitingDeposit")
      BY <1>8 DEF OutOfOrder
    <3>2. CASE i = BalanceIntent BY <1>3, <1>5, <1>6, <2>2, <3>1, <3>2 DEF Progress
    <3>3. CASE i # BalanceIntent BY <1>3, <1>5, <1>6, <2>2, <3>1, <3>3 DEF Progress
    <3> QED BY <3>2, <3>3
  <2>3. Written(ledger, i) \/ Drained BY <1>2, <2>2 DEF Drained
  <2> QED BY <1>1, <1>8, <2>1, <2>3, AckEnd
<1>9. CASE End(w) /\ acked' = acked BY <1>1, <1>9, AckEnd
<1>10. CASE RecordAllowed(e, i) /\ req' = [req EXCEPT ![w] = x] /\ acked' = acked
  <2>1. Progress(e, e.entries, tokens) BY <1>5, <1>6 DEF Progress
  <2>2. /\ Written(q.entries, i) /\ Progress(q, q.entries, tokens)
        /\ row.state \in OutflowStates => q.state \in OutflowStates
    BY <1>2, <1>3, <1>5, <1>10, <2>1, RecordWrites
  <2> HIDE DEF q
  <2>3. x.at = "count" /\ x.op = "webhook" /\ x.e = q /\ x.ref = i
    BY <1>1 DEF Requests, i
  <2> HIDE DEF x
  <2>4. Answering(x, row, ledger, tokens) BY <2>2, <2>3 DEF Answering
  <2> QED BY <1>1, <1>10, <2>4, AckStep
<1> QED BY <1>7, <1>8, <1>9, <1>10

LEMMA AckCount ==
  ASSUME Alone, IInv, Answered, NEW w \in Workers, CountLedger(w)
  PROVE  Answered'
<1> DEFINE r == req[w]
           x == [r EXCEPT !.count = Len(ledger), !.at = "commit"]
<1>1. r.at = "count" /\ UNCHANGED <<row, ledger, tokens, acked>> /\ req' = [req EXCEPT ![w] = x]
  BY DEF CountLedger, At, rows
<1>2. r \in Requests /\ Answering(r, row, ledger, tokens) BY DEF IInv, Answered
<1> HIDE DEF r
<1>3. x.at = "commit" /\ x.op = r.op /\ x.e = r.e /\ x.ref = r.ref BY <1>2 DEF Requests
<1> HIDE DEF x
<1>4. Answering(x, row, ledger, tokens) BY <1>1, <1>2, <1>3 DEF Answering
<1> QED BY <1>1, <1>4, AckStep

LEMMA AckCommit ==
  ASSUME Alone, IInv, Straight, Answered, NEW w \in Workers, CommitEscrow(w)
  PROVE  Answered'
<1> DEFINE r == req[w]
           new == NewEntries(r.e, r.count)
           a == IF r.op \in {"release", "cancel"} THEN "save" ELSE "regig"
           x == [r EXCEPT !.e = CreateEscrow, !.count = 0, !.at = a]
<1>1. /\ r \in Requests /\ r.at = "commit" /\ Reading(r, row, ledger)
      /\ Answering(r, row, ledger, tokens) /\ UNCHANGED <<tokens, acked>>
  BY DEF CommitEscrow, At, IInv, Straight, Answered
<1>2. r.count = Len(ledger) /\ Grown(r.e, ledger) /\ ledger \in Seq(Entries)
  BY <1>1 DEF Reading, IInv
<1>3. /\ r.op = "webhook" => Written(r.e.entries, r.ref)
      /\ row.state \in OutflowStates => r.e.state \in OutflowStates
      /\ Progress(r.e, r.e.entries, tokens)
      /\ r.op # "balance"
  BY <1>1 DEF Answering
<1>4. CASE ~ UniqueRefs(new)
  <2>1. End(w) /\ UNCHANGED <<row, ledger>> BY <1>4 DEF CommitEscrow
  <2> QED BY <1>1, <2>1, AckEnd
<1>5. CASE UniqueRefs(new)
  <2>1. row' = RowOf(r.e) /\ ledger' = ledger \o new /\ req' = [req EXCEPT ![w] = x]
    BY <1>5 DEF CommitEscrow, Saved, Doing
  <2>2. PICK t \in Seq(Entries) : r.e.entries = ledger \o t BY <1>2 DEF Grown
  <2>3. new = t BY <1>2, <2>2, RestOf DEF NewEntries
  <2>4. ledger' = r.e.entries BY <2>1, <2>2, <2>3
  <2>5. row'.state = r.e.state /\ row'.deposit = r.e.deposit BY <2>1 DEF RowOf
  <2>6. Progress(row', ledger', tokens') BY <1>1, <1>3, <2>4, <2>5 DEF Progress
  <2> HIDE DEF r, new
  <2>7. x.at = a /\ x.op = r.op /\ x.ref = r.ref BY <1>1 DEF Requests
  <2> HIDE DEF x
  <2>8. \A u \in Workers : req'[u] = x BY <2>1 DEF Alone, IInv
  <2>9. \A u \in Workers : Answering(req'[u], row', ledger', tokens')
    BY <1>3, <2>4, <2>7, <2>8 DEF Answering
  <2>10. \A j \in DOMAIN ledger : j \in DOMAIN ledger' /\ ledger'[j] = ledger[j]
    BY <1>2, <2>2, <2>4
  <2>12. row' # NoRow BY <1>1, <2>1, RequestFields, EscrowFields, BookingAssumption DEF r
  <2>13. Drained => Drained' BY <1>3, <2>5, <2>12 DEF Drained
  <2>14. \A i : HasEntryOf(i) => HasEntryOf(i)' BY <2>10 DEF HasEntryOf
  <2>11. AckedIsBooked' BY <1>1, <2>13, <2>14 DEF Answered, AckedIsBooked
  <2> QED BY <2>6, <2>9, <2>11 DEF Answered
<1> QED BY <1>4, <1>5

LEMMA AckGigs ==
  ASSUME Alone, IInv, Answered, NEW w \in Workers,
         RereadGig(w) \/ SaveGig(w) \/ TransitionLookup(w)
  PROVE  Answered'
<1> DEFINE r == req[w]
<1>1. r \in Requests /\ Answering(r, row, ledger, tokens) BY DEF IInv, Answered
<1>2. CASE RereadGig(w)
  <2> DEFINE x == [r EXCEPT !.g = gig, !.at = "save"]
  <2>1. /\ r.at = "regig" /\ UNCHANGED <<row, ledger, tokens>>
        /\ \/ acked' = acked /\ req' = [req EXCEPT ![w] = x]
           \/ End(w) /\ acked' = IF r.op = "webhook" THEN acked \cup {r.ref} ELSE acked
    BY <1>2 DEF RereadGig, At, rows, Doing
  <2>2. r.op = "webhook" => Written(ledger, r.ref) BY <1>1, <2>1 DEF Answering
  <2> HIDE DEF r
  <2>3. x.at = "save" /\ x.op = r.op /\ x.ref = r.ref BY <1>1 DEF Requests
  <2> HIDE DEF x
  <2>4. Answering(x, row, ledger, tokens) BY <1>1, <2>2, <2>3 DEF Answering
  <2>5. CASE acked' = acked /\ req' = [req EXCEPT ![w] = x] BY <2>1, <2>4, <2>5, AckStep
  <2>6. CASE End(w) /\ acked' = IF r.op = "webhook" THEN acked \cup {r.ref} ELSE acked
    <3>1. \A i \in acked' : i \in acked \/ Written(ledger, i) BY <2>2, <2>6
    <3> QED BY <2>1, <2>6, <3>1, AckEnd
  <2> QED BY <2>1, <2>5, <2>6
<1>3. CASE SaveGig(w)
  <2>1. /\ r.at = "save" /\ End(w) /\ UNCHANGED <<row, ledger, tokens>>
        /\ acked' = IF r.op = "webhook" THEN acked \cup {r.ref} ELSE acked
    BY <1>3 DEF SaveGig, At, Doing
  <2>2. r.op = "webhook" => Written(ledger, r.ref) BY <1>1, <2>1 DEF Answering
  <2>3. \A i \in acked' : i \in acked \/ Written(ledger, i) BY <2>1, <2>2
  <2> QED BY <2>1, <2>3, AckEnd
<1>4. CASE TransitionLookup(w)
  <2> DEFINE s == IF row = NoRow THEN "AwaitingDeposit" ELSE row.state
             e == [r.e EXCEPT !.state = s]
             x == [r EXCEPT !.e = e, !.at = "save"]
  <2>1. r.op = "transition" /\ UNCHANGED <<row, ledger, tokens, acked>>
    BY <1>4 DEF TransitionLookup, rows, Doing
  <2>2. req' = [req EXCEPT ![w] = x] BY <1>1, <1>4 DEF TransitionLookup, IInv, Requests
  <2> HIDE DEF r, e
  <2>3. x.at = "save" /\ x.op = "transition" BY <1>1, <2>1 DEF Requests
  <2> HIDE DEF x
  <2> QED BY <2>1, <2>2, <2>3, AckQuiet
<1> QED BY <1>2, <1>3, <1>4

\* The requests that move money out, up to their save.
LEMMA AckReads ==
  ASSUME Alone, IInv, Answered, NEW w \in Workers, SweepRow(w) \/ ReadLedger(w) \/ ReadGig(w)
  PROVE  Answered'
<1> DEFINE r == req[w]
<1>1. /\ r.op \in {"release", "sweep", "cancel"} /\ UNCHANGED <<row, ledger, tokens, acked>>
      /\ r \in Requests
  BY DEF SweepRow, ReadLedger, ReadGig, rows, Doing, IInv
<1>2. ASSUME NEW x, req' = [req EXCEPT ![w] = x], x.op = r.op, x.at \notin {"count", "commit"}
      PROVE  Answered'
  BY <1>1, <1>2, AckQuiet
<1>3. CASE SweepRow(w)
  <2> DEFINE e == Load(row, <<>>)
             x == [r EXCEPT !.e = e, !.at = "ledger"]
  <2>1. req' = [req EXCEPT ![w] = x] BY <1>3 DEF SweepRow
  <2> HIDE DEF r, e
  <2>2. x.op = r.op /\ x.at = "ledger" BY <1>1 DEF Requests
  <2> HIDE DEF x
  <2> QED BY <1>2, <2>1, <2>2
<1>4. CASE ReadLedger(w)
  <2> DEFINE e == Load(RowOf(r.e), ledger)
             a == IF r.op = "sweep" THEN "transfer" ELSE "gig"
             x == [r EXCEPT !.e = e, !.at = a]
  <2>1. req' = [req EXCEPT ![w] = x] BY <1>1, <1>4 DEF ReadLedger, IInv, Requests
  <2> HIDE DEF r, e
  <2>2. x.op = r.op /\ x.at = a BY <1>1 DEF Requests
  <2> HIDE DEF x
  <2> QED BY <1>2, <2>1, <2>2
<1>5. CASE ReadGig(w)
  <2> DEFINE toHost == RefundAmount(HeldCents(r.e), RefundPercent(hoursLeft, r.by))
             a == IF toHost > 0 THEN "refund" ELSE "save"
             want == [r.want EXCEPT !.toHost = toHost]
             x == [r EXCEPT !.g = gig, !.at = "transfer"]
             y == [r EXCEPT !.g = gig, !.want = want, !.at = a]
  <2>1. End(w) \/ req' = [req EXCEPT ![w] = x] \/ req' = [req EXCEPT ![w] = y]
    BY <1>1, <1>5 DEF ReadGig, IInv, Requests
  <2> HIDE DEF r, toHost
  <2>2. x.op = r.op /\ x.at = "transfer" /\ y.op = r.op /\ y.at = a BY <1>1 DEF Requests
  <2> HIDE DEF x, y
  <2> QED BY <1>1, <1>2, <2>1, <2>2, AckEnd
<1> QED BY <1>3, <1>4, <1>5

LEMMA AckDispute ==
  ASSUME Alone, IInv, Straight, Answered, NEW w \in Workers, DisputeLedger(w)
  PROVE  Answered'
<1> DEFINE r == req[w]
           e == Load(RowOf(r.e), ledger)
           x == [r EXCEPT !.e = OpenDispute(e), !.at = "count"]
<1>1. /\ r.at = "ledger" /\ r.op = "dispute" /\ UNCHANGED <<row, ledger, tokens, acked>>
      /\ r \in Requests /\ row # NoRow
  BY InFlight DEF DisputeLedger, At, Doing, rows, Sound, Snapshot, World
<1>2. Grown(e, ledger) /\ AssertLedgerBalances(e) /\ ledger \in Seq(Entries)
  BY <1>1, StoredRead
<1>3. End(w) \/ (OpenDisputeAllowed(e) /\ req' = [req EXCEPT ![w] = x]) BY DEF DisputeLedger
<1>4. CASE End(w) BY <1>1, <1>4, AckEnd
<1>5. CASE OpenDisputeAllowed(e) /\ req' = [req EXCEPT ![w] = x]
  <2> HIDE DEF e, r
  <2>1. OpenDispute(e).state \in OutflowStates BY <1>2, <1>5, DisputeGrown DEF OutflowStates
  <2>2. x.op = "dispute" /\ x.e = OpenDispute(e) BY <1>1 DEF Requests
  <2> HIDE DEF x
  <2> QED BY <1>1, <1>5, <2>1, <2>2, AckSave DEF Drains
<1> QED BY <1>3, <1>4, <1>5

LEMMA AckResolve ==
  ASSUME Alone, IInv, Straight, Answered, NEW w \in Workers, ResolveLedger(w)
  PROVE  Answered'
<1> DEFINE r == req[w]
           e == Load(RowOf(r.e), ledger)
           a == IF r.want.toVendor > 0 THEN "transfer" ELSE "refund"
           x == [r EXCEPT !.e = e, !.at = a]
           ruled == ResolveDispute(e, 0, 0, NoRef, NoRef)
<1>1. /\ r.at = "ledger" /\ r.op = "resolve" /\ UNCHANGED <<row, ledger, tokens, acked>>
      /\ r \in Requests /\ row # NoRow
  BY InFlight DEF ResolveLedger, At, Doing, rows, Sound, Snapshot, World
<1>2. Grown(e, ledger) /\ e = Load(row, ledger) /\ ledger \in Seq(Entries)
  BY <1>1, StoredRead
<1>3. SaveIf(w, ResolveDisputeAllowed(e, 0, 0), ruled) \/ req' = [req EXCEPT ![w] = x]
  BY DEF ResolveLedger
<1> HIDE DEF e, r
<1>4. CASE SaveIf(w, ResolveDisputeAllowed(e, 0, 0), ruled)
  <2>1. 0 \in Int /\ NoRef \in Refs \cup {NoRef} OBVIOUS
  <2>2. Drains(ruled, Load(row, ledger)) BY <1>2, <2>1, RulingGrown
  <2> HIDE DEF ruled
  <2> QED BY <1>1, <1>4, <2>2, AckSaveIf DEF r
<1>5. CASE req' = [req EXCEPT ![w] = x]
  <2>1. x.op = "resolve" /\ x.at = a BY <1>1 DEF Requests
  <2> HIDE DEF x
  <2> QED BY <1>1, <1>5, <2>1, AckQuiet
<1> QED BY <1>3, <1>4, <1>5

LEMMA AckRuling ==
  ASSUME Alone, IInv, Straight, Answered, NEW w \in Workers, SaveRuling(w),
         UNCHANGED <<row, ledger, tokens, acked>>,
         req[w].at \in {"transfer", "refund"}, req[w].op = "resolve"
  PROVE  Answered'
<1> DEFINE e == req[w].e
           want == req[w].want
           ruled == ResolveDispute(e, want.toVendor, want.toHost, DisputeTransfer, DisputeRefund)
<1>1. Grown(e, ledger) /\ ledger \in Seq(Entries) /\ e = Load(row, ledger) BY StoredRead
<1>2. want.toVendor \in Int /\ want.toHost \in Int BY InFlight, RequestFields
<1>3. SaveIf(w, ResolveDisputeAllowed(e, want.toVendor, want.toHost), ruled) BY DEF SaveRuling
<1>4. DisputeTransfer \in Refs \cup {NoRef} /\ DisputeRefund \in Refs \cup {NoRef} BY RefFacts
<1>6. row # NoRow BY InFlight DEF Sound, Snapshot, World
<1> HIDE DEF e, want
<1>5. Drains(ruled, e) BY <1>1, <1>2, <1>4, RulingGrown
<1> HIDE DEF ruled
<1> QED BY <1>1, <1>3, <1>5, <1>6, AckSaveIf

LEMMA AckTransfer ==
  ASSUME Alone, IInv, Straight, Answered, NEW w \in Workers, CallTransfer(w)
  PROVE  Answered'
<1> DEFINE r == req[w]
           e == r.e
           k == TransferKey(r.op)
<1>1. /\ r.at = "transfer" /\ UNCHANGED <<row, ledger, tokens, acked>>
      /\ r \in Requests /\ row # NoRow /\ r.op \in {"release", "sweep", "resolve"}
  BY InFlight DEF CallTransfer, At, rows, Sound, Snapshot, World
<1>2. Grown(e, ledger) /\ e = Load(row, ledger) /\ ledger \in Seq(Entries)
  BY <1>1, StoredRead
<1>3. \/ End(w)
      \/ r.op # "resolve" /\ SaveIf(w, ReleaseAllowed(e, ApprovalOf(r.op)), Release(e, k))
      \/ GoTo(w, "refund")
      \/ r.op = "resolve" /\ SaveRuling(w)
  BY DEF CallTransfer
<1>4. CASE End(w) BY <1>1, <1>4, AckEnd
<1>5. CASE r.op # "resolve" /\ SaveIf(w, ReleaseAllowed(e, ApprovalOf(r.op)), Release(e, k))
  <2>1. k \in Transfers BY RefFacts DEF TransferKey
  <2> HIDE DEF k, e
  <2>2. Drains(Release(e, k), Load(row, ledger)) BY <1>2, <2>1, ReleaseGrown
  <2> QED BY <1>1, <1>5, <2>2, AckSaveIf
<1>6. CASE GoTo(w, "refund")
  <2> DEFINE x == [r EXCEPT !.at = "refund"]
  <2>1. x.at = "refund" /\ x.op = r.op BY <1>1 DEF Requests
  <2>2. req' = [req EXCEPT ![w] = x] BY <1>6 DEF GoTo
  <2> HIDE DEF x
  <2> QED BY <1>1, <2>1, <2>2, AckQuiet
<1>7. CASE r.op = "resolve" /\ SaveRuling(w) BY <1>1, <1>7, AckRuling
<1> QED BY <1>3, <1>4, <1>5, <1>6, <1>7

LEMMA AckRefund ==
  ASSUME Alone, IInv, Straight, Answered, NEW w \in Workers, CallRefund(w)
  PROVE  Answered'
<1> DEFINE r == req[w]
           e == r.e
           k == RefundKey(r.op)
           a == r.want.toHost
<1>1. /\ r.at = "refund" /\ UNCHANGED <<row, ledger, tokens, acked>>
      /\ r \in Requests /\ row # NoRow /\ r.op \in {"cancel", "resolve"}
  BY InFlight DEF CallRefund, At, rows, Sound, Snapshot, World
<1>2. Grown(e, ledger) /\ e = Load(row, ledger) /\ ledger \in Seq(Entries)
  BY <1>1, StoredRead
<1>3. a \in Int BY InFlight, RequestFields
<1>4. \/ End(w)
      \/ SaveIf(w, RefundAllowed(e, a, k), Refund(e, a, k))
      \/ r.op = "resolve" /\ SaveRuling(w)
  BY <1>1 DEF CallRefund
<1>5. CASE End(w) BY <1>1, <1>5, AckEnd
<1>6. CASE SaveIf(w, RefundAllowed(e, a, k), Refund(e, a, k))
  <2>1. k \in RefundKeys BY RefFacts DEF RefundKey
  <2> HIDE DEF k, e, a
  <2>2. Drains(Refund(e, a, k), Load(row, ledger)) BY <1>2, <1>3, <2>1, RefundGrown
  <2> QED BY <1>1, <1>6, <2>2, AckSaveIf
<1>7. CASE r.op = "resolve" /\ SaveRuling(w) BY <1>1, <1>7, AckRuling
<1> QED BY <1>4, <1>5, <1>6, <1>7

LEMMA AckContinue ==
  ASSUME Alone, IInv, Straight, Answered, NEW w \in Workers, Continue(w)
  PROVE  Answered'
BY AckFund, AckRespond, AckWebhook, AckCount, AckCommit, AckGigs, AckReads, AckDispute,
   AckResolve, AckTransfer, AckRefund DEF Continue

LEMMA AnsweredStutter ==
  ASSUME Answered, UNCHANGED <<row, ledger, tokens, acked, req>>
  PROVE  Answered'
BY DEF Answered, AckedIsBooked, HasEntryOf, Drained

LEMMA AnsweredNext ==
  ASSUME Alone, IInv, Straight, Answered, [Next]_vars
  PROVE  Answered'
<1>1. CASE \E w \in Workers : Crash(w) BY <1>1, AckEnd DEF Crash, rows
<1>2. CASE UNCHANGED vars \/ Tick \/ \E i \in Intents : Pay(i)
  BY <1>2, AnsweredStutter DEF vars, Tick, Pay, rows
<1> QED BY <1>1, <1>2, AckStart, AckContinue DEF Next

LEMMA AnsweredInit == Init => Answered
BY DEF Init, Answered, AckedIsBooked, Answering, Idle

\* A capture whose event names its escrow and was answered 2xx is in the ledger, or came after
\* a dispute or a refund (payments.ts:451-512), as long as requests do not overlap; it takes
\* every route of the service into account, and requests lost at any await.
THEOREM AckedIsBookedAlways ==
  ASSUME Alone
  PROVE  Spec => []AckedIsBooked
<1>1. IInv /\ Straight /\ [Next]_vars => Straight' BY StraightNext
<1>2. IInv /\ Straight /\ Answered /\ [Next]_vars => Answered' BY AnsweredNext
<1>3. Answered => AckedIsBooked BY DEF Answered
<1> QED BY StraightInit, AnsweredInit, <1>1, <1>2, <1>3, Invariance, PTL DEF Spec
=============================================================================
