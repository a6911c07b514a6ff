------------------------- MODULE MCPayoutTransfers -------------------------
(* Small instances of PayoutTransfers. *)
EXTENDS PayoutTransfers, TLC

CONSTANTS p1, p2, r1, r2

OnePayoutOneRecipient  == r1 :> p1
OnePayoutTwoRecipients == r1 :> p1 @@ r2 :> p1
TwoPayouts             == r1 :> p1 @@ r2 :> p2

\* Requests, jobs and workers are interchangeable: no action tells one from
\* another, and the safety properties name none.
Interchangeable == Permutations(Requests) \cup Permutations(Jobs) \cup Permutations(Workers)
=============================================================================
