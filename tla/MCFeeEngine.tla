---------------------------- MODULE MCFeeEngine ----------------------------
(***************************************************************************)
(* FeeEngine over every amount of a few windows: the smallest amounts, the *)
(* one where the cap of the code begins to bite, and the one where the cap *)
(* the documentation gives would.                                          *)
(***************************************************************************)
EXTENDS FeeEngine

VARIABLE amount

Windows == 0..6000 \cup 199000..201000 \cup 19999000..20001000

Init == amount \in Windows
Next == amount + 1 \in Windows /\ amount' = amount + 1
Spec == Init /\ [][Next]_amount

\* The fee calculateContributionFee returns is the nearest to 1 % under the cap.
FeeIsNearestPercent == NearestPercent(amount)

\* A member who pays more never gets less into the group wallet, and the fee
\* never exceeds what was paid: rounding up on one kobo more costs one kobo.
NetGrowsWithAmount ==
    [][NetAmount(amount') >= NetAmount(amount) /\ NetAmount(amount) >= 0]_amount

\* The documented fee: 1 %, capped at 2,000 naira in kobo.
FeeAsDocumented == CalculateFee(amount) = AtMost(PercentageFee(amount), 2000 * 100)
=============================================================================
