----------------------------- MODULE MCIdentity -----------------------------
(* Accounts and OneTimeCodes for TLC.  They share no variable: a behaviour  *)
(* runs one of them, so that the states explored are their sum.             *)
EXTENDS Accounts, OneTimeCodes, TLC

VARIABLE part

MCInit == Init /\ CodesInit /\ part \in {"accounts", "codes"}

MCNext ==
    \/ part = "accounts" /\ Next /\ UNCHANGED <<codeVars, part>>
    \/ part = "codes" /\ CodesNext /\ UNCHANGED <<vars, part>>

MCSpec == MCInit /\ [][MCNext]_<<vars, codeVars, part>>

CallSymmetry == Permutations(Calls) \cup Permutations(Requests)

\* The type invariants of both.
TypesOK == TypeOK /\ CodesTypeOK
=============================================================================
