------------------------------ MODULE Settlement ------------------------------
(***************************************************************************)
(* How one agreed freight price is split between customer, driver,         *)
(* platform and tax office, and how much of a blocked payment goes back to *)
(* the customer.  Money is counted in kurus (1/100 TRY), the two decimal   *)
(* places every amount is rounded to; rates are in ten-thousandths (0.02   *)
(* is 200).  Every rounding is "half away from zero"; amounts and rates    *)
(* are never negative, so that is "half up".                               *)
(***************************************************************************)
EXTENDS Integers

CONSTANTS DriverRate,               \* Commission:DriverRate
          CustomerRate,             \* Commission:CustomerRate
          StopajRate,               \* Settlement:StopajRate
          StopajAppliesToCorporate, \* Settlement:StopajAppliesToCorporate
          RefundPercent,            \* Cancellation:RefundPercent
          CancellationFee           \* Cancellation:CancellationFee, in kurus

Scale == 10000

\* What the two option readers let through: negative or unparsable rates fall
\* back to the defaults, but nothing bounds a rate from above.
ASSUME RatesAssumption ==
    /\ DriverRate \in Nat
    /\ CustomerRate \in Nat
    /\ StopajRate \in Nat
    /\ StopajAppliesToCorporate \in BOOLEAN
    /\ RefundPercent \in 0..100
    /\ CancellationFee \in Nat

RoundShare(x, rate) == (x * rate + Scale \div 2) \div Scale

DriverCommission(x) == RoundShare(x, DriverRate)

CustomerCommission(x) == RoundShare(x, CustomerRate)

Stopaj(x, corporate) ==
    IF corporate /\ ~StopajAppliesToCorporate THEN 0 ELSE RoundShare(x, StopajRate)

DriverNet(x, corporate) == x - DriverCommission(x) - Stopaj(x, corporate)

CustomerTotal(x) == x + CustomerCommission(x)

PlatformRevenue(x) == DriverCommission(x) + CustomerCommission(x)

\* The three audit rows of a hold that are not the driver's: both commissions
\* and the withholding.
Fees(x, corporate) == PlatformRevenue(x) + Stopaj(x, corporate)

GrossRefund(total) == (total * RefundPercent + 50) \div 100

\* Mutant: the fee is added where it should be subtracted.
RefundPlusFee(total) == GrossRefund(total) + CancellationFee

RefundAmount(total) ==
    IF GrossRefund(total) > CancellationFee THEN GrossRefund(total) - CancellationFee ELSE 0
===============================================================================
