-------------------------------- MODULE Vault --------------------------------
(***************************************************************************)
(* What the escrow vault of one booking promises the two parties, without  *)
(* a word about states, intents or ledger rows: the money of one price is  *)
(* taken in, and either the whole of it is paid out on delivery, or parts  *)
(* of it go back to the host, or a ruling splits all that is left.  Once   *)
(* nothing is left to decide the vault is closed for good.                 *)
(*                                                                         *)
(* EscrowLedger (the ledger of domain/escrow.ts) implements this module.   *)
(***************************************************************************)
EXTENDS Integers

CONSTANT Price              \* what the host agreed to pay, in cents

VARIABLES
  taken,                    \* captured from the host's card so far
  returned,                 \* given back to the host
  paid,                     \* handed to the vendor and the platform
  open                      \* money may still move

vars == <<taken, returned, paid, open>>

Left == taken - returned - paid

Init ==
  /\ taken = 0
  /\ returned = 0
  /\ paid = 0
  /\ open = TRUE

\* Money comes in only while none has gone out, and never beyond the price.
Take(n) ==
  /\ open
  /\ returned = 0 /\ paid = 0
  /\ taken + n <= Price
  /\ taken' = taken + n
  /\ UNCHANGED <<returned, paid, open>>

\* A refund. Giving back the last cent closes the vault.
GiveBack(n) ==
  /\ open
  /\ n <= Left
  /\ returned' = returned + n
  /\ open' = (n # Left)
  /\ UNCHANGED <<taken, paid>>

\* The undisputed payout: all of the price, and only if all of it is there.
PayOut ==
  /\ open
  /\ taken = Price /\ returned = 0
  /\ paid' = Price
  /\ open' = FALSE
  /\ UNCHANGED <<taken, returned>>

\* A ruling accounts for every cent that is left.
Rule(toVendor, toHost) ==
  /\ open
  /\ toVendor + toHost = Left
  /\ paid' = paid + toVendor
  /\ returned' = returned + toHost
  /\ open' = FALSE
  /\ UNCHANGED taken

Next ==
  \/ \E n \in 0 .. Price : Take(n) \/ GiveBack(n)
  \/ PayOut
  \/ \E v, h \in 0 .. Price : Rule(v, h)

Spec == Init /\ [][Next]_vars
=============================================================================
