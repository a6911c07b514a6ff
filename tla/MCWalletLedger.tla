-------------------------- MODULE MCWalletLedger --------------------------
EXTENDS WalletLedger, TLC

CONSTANTS g1, g2, platform, r1, r2, r3

MCWallets  == {g1, g2, platform}
MCRequests == {r1, r2, r3}
MCPairRequests == {r1, r2}

\* g2 and the platform wallet have no row yet: the first contribution makes it.
MCCreated == {g1}
MCOpening == g1 :> 100 @@ g2 :> 0 @@ platform :> 0
MCGroupsCreated == {g1, g2}
MCGroupsFunded == g1 :> 100 @@ g2 :> 100 @@ platform :> 0
MCAllCreated == MCWallets
MCFunded == g1 :> 100 @@ g2 :> 100 @@ platform :> 1

Symmetry == Permutations(MCRequests)
=============================================================================
