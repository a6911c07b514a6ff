----------------------------- MODULE FeeEngine -----------------------------
(***************************************************************************)
(* FeeEngineService (services/fee-engine.service.ts): the platform fee of  *)
(* a contribution.  Every amount is a whole number of kobo; the service    *)
(* computes Math.round(amount * 0.01) in doubles, which agrees with        *)
(* rounding half up for every amount the validators let through.           *)
(***************************************************************************)
EXTENDS Integers

\* The config object the constructor builds.
contributionFeePercent == 1
flatFee == 0
minFee  == 0
maxFee  == 2000

AtLeast(n, floor) == IF n < floor THEN floor ELSE n
AtMost(n, cap)    == IF n > cap THEN cap ELSE n

\* Math.round(amount * contributionFeeRate): nearest kobo, halves up.
PercentageFee(amount) == (amount * contributionFeePercent + 50) \div 100

CalculateFee(amount) == AtMost(AtLeast(PercentageFee(amount) + flatFee, minFee), maxFee)

\* Mutant: the group is credited the whole amount beside the fee.
NetAmountWithoutFee(amount) == amount

\* processContributionPayment credits the group with what the fee leaves.
NetAmount(amount) == amount - CalculateFee(amount)

\* The fee is 1 % to the nearest kobo, halves in the platform's favour, until
\* it reaches the cap: no other fee below the cap is closer.
NearestPercent(amount) ==
    LET fee == CalculateFee(amount) IN
    /\ fee <= maxFee
    /\ \/ fee = maxFee /\ 100 * fee <= amount + 50
       \/ 2 * (100 * fee - amount) \in -99..100
=============================================================================
