------------------------------- MODULE Quotes --------------------------------
(***************************************************************************)
(* What a booking costs: the fee arithmetic of domain/money.ts and the     *)
(* travel quote of domain/geo.ts, in whole cents and in tenths of a mile.  *)
(* The code multiplies by rates such as 0.12 in floating point and rounds  *)
(* half up; here a rate is a number of hundredths and the product exact.   *)
(***************************************************************************)
EXTENDS Integers

Ceiling == 100000000        \* assertCents: the per-transaction ceiling
MinPlatformFee == 500       \* DEFAULT_FEES

\* assertCents
IsCents(n) == n \in 0 .. Ceiling

Lesser(a, b) == IF a <= b THEN a ELSE b
Greater(a, b) == IF a >= b THEN a ELSE b

\* applyRate: Math.round, half up.
ApplyRate(base, hundredths) == (base * hundredths + 50) \div 100

\* quoteBooking with DEFAULT_FEES: 12% of the service from the vendor, 5% on top from the
\* host, 30% of the total as deposit.  Travel is the vendor's in full.
HostTotal(service, travel) == service + travel + ApplyRate(service + travel, 5)
VendorCommission(service) == Lesser(service, Greater(ApplyRate(service, 12), MinPlatformFee))
VendorPayout(service, travel) == service + travel - VendorCommission(service)
DepositDue(total) == Lesser(total, ApplyRate(total, 30))

QuoteBooking(service, travel) ==
  LET total == HostTotal(service, travel)
  IN [hostTotal |-> total,
      depositDue |-> DepositDue(total),
      balanceDue |-> total - DepositDue(total),
      vendorPayout |-> VendorPayout(service, travel),
      platformRevenue |-> total - VendorPayout(service, travel)]

\* splitRefund: the balance leg first, the rest from the deposit leg.
SplitRefund(quote, refund) ==
  LET fromBalance == Lesser(refund, quote.balanceDue)
  IN [fromDeposit |-> refund - fromBalance, fromBalance |-> fromBalance]

\* A travel policy as the vendor saved it; the columns' defaults stand for what is absent.
DefaultTravelPolicy ==
  [free |-> 250, perMile |-> 90, max |-> 3000, overnightFrom |-> 1200, overnight |-> 18000]

\* normalizeTravelPolicy throws for any other policy.
PolicyAccepted(policy) ==
  /\ IsCents(policy.perMile) /\ IsCents(policy.overnight)
  /\ policy.free >= 0 /\ policy.overnightFrom >= 0
  /\ policy.max >= policy.free

\* quoteTravel: mileage is billed both ways, beyond the free radius.
QuoteTravel(miles, policy) ==
  LET outOfRange == miles > policy.max
      billable == IF outOfRange THEN 0 ELSE Greater(0, miles - policy.free)
  IN [outOfRange |-> outOfRange,
      totalCents |-> (2 * billable * policy.perMile + 5) \div 10
                     + (IF ~outOfRange /\ miles >= policy.overnightFrom
                          THEN policy.overnight ELSE 0)]
=============================================================================
