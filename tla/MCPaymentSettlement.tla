------------------------ MODULE MCPaymentSettlement ------------------------
EXTENDS PaymentSettlement, TLC

CONSTANTS c1, c2, g1, p1, p2, i1, i2, w1, w2, e1, e2

MCContributions    == {c1}
MCTwoContributions == {c1, c2}
MCGroups     == {g1}
MCGroupOf    == [c \in Contributions |-> g1]
MCPayments   == {p1, p2}
MCInitiators == {i1, i2}
MCWorkers    == {w1, w2}
MCEvents     == {e1, e2}
MCOneEvent   == {e1}

Symmetry == Permutations(MCPayments) \cup Permutations(MCInitiators)
              \cup Permutations(MCWorkers) \cup Permutations(MCEvents)
=============================================================================
