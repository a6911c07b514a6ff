---------------------------- MODULE MCWithdrawals ----------------------------
(* Withdrawals, and the provider's client that asks for their transfers, for *)
(* TLC.  They share no variable: a behaviour runs one of them, so that the   *)
(* states explored are their sum.                                            *)
EXTENDS Withdrawals, ProviderClient, TLC

VARIABLE part

MCInit == Init /\ ClientInit /\ part \in {"withdrawals", "client"}

MCNext ==
    \/ part = "withdrawals" /\ Next /\ UNCHANGED <<clientVars, part>>
    \/ part = "client" /\ ClientNext /\ UNCHANGED <<vars, part>>

MCSpec == MCInit /\ [][MCNext]_<<vars, clientVars, part>>

SlotSymmetry == Permutations(Calls) \cup Permutations(Withdrawals) \cup Permutations(Requests)

\* The type invariants of both.
TypesOK == TypeOK /\ ClientTypeOK
=============================================================================
