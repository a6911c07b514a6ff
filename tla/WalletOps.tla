----------------------------- MODULE WalletOps -----------------------------
(***************************************************************************)
(* The operations WalletService offers on the rows of `wallets`, each      *)
(* described by its legs: the balance updates it makes, in the order the   *)
(* code issues them.  Shared by the abstract specification (AtomicWallets) *)
(* and the statement-level one (WalletLedger).                             *)
(***************************************************************************)
EXTENDS Integers, Sequences, FeeEngine

CONSTANTS
    Wallets,         \* wallet ids
    Platform,        \* the wallet owned by ("PLATFORM", "platform")
    Requests,        \* calls of WalletService, one Postgres transaction each
    Amounts,         \* amounts callers pass, whole positive kobo
    Kinds,           \* which of the operations below callers use
    OpeningBalance,  \* committed balance each wallet starts from
    MaxBalance       \* largest value of the Int column "balance"

AllKinds == {"credit", "debit", "transfer", "contribution"}

ASSUME WalletOpsAssumption ==
    /\ Platform \in Wallets
    /\ Amounts \subseteq Nat \ {0}
    /\ Kinds \subseteq AllKinds
    /\ MaxBalance \in Nat
    /\ OpeningBalance \in [Wallets -> 0..MaxBalance]

Leg == [wallet : Wallets, delta : Int]

Operation(kind, a, legs) == [kind |-> kind, amount |-> a, legs |-> legs]

CreditOp(w, a) == Operation("credit", a, <<[wallet |-> w, delta |-> a]>>)
DebitOp(w, a)  == Operation("debit", a, <<[wallet |-> w, delta |-> -a]>>)

\* transfer: the source is decremented before the destination is credited.
TransferOp(src, dst, a) ==
    Operation("transfer", a,
              <<[wallet |-> src, delta |-> -a], [wallet |-> dst, delta |-> a]>>)

\* Mutant: the platform is credited first when its fee is more than a kobo.
ContributionLegsFeeFirst(w, a) ==
    IF CalculateFee(a) > 1
    THEN <<[wallet |-> Platform, delta |-> CalculateFee(a)],
           [wallet |-> w, delta |-> NetAmount(a)]>>
    ELSE <<[wallet |-> w, delta |-> NetAmount(a)],
           [wallet |-> Platform, delta |-> CalculateFee(a)]>>

\* processContributionPayment: the group's share first, then, when there is
\* one, the fee on the platform wallet.
ContributionLegs(w, a) ==
    IF CalculateFee(a) > 0
    THEN <<[wallet |-> w, delta |-> NetAmount(a)],
           [wallet |-> Platform, delta |-> CalculateFee(a)]>>
    ELSE <<[wallet |-> w, delta |-> a]>>

ContributionOp(w, a) == Operation("contribution", a, ContributionLegs(w, a))

\* Every call the program makes: transfer refuses source = destination, and
\* contributions are paid into group wallets only.
TransferOps == UNION {{TransferOp(s, d, a) : d \in Wallets \ {s}, a \in Amounts} : s \in Wallets}

Operations ==
    {o \in
        {CreditOp(w, a) : w \in Wallets, a \in Amounts} \cup
        {DebitOp(w, a) : w \in Wallets, a \in Amounts} \cup
        {ContributionOp(w, a) : w \in Wallets \ {Platform}, a \in Amounts} \cup
        TransferOps :
     o.kind \in Kinds}

\* What an operation does to wallet w, 0 when it does not touch it.
Delta(o, w) ==
    IF \E i \in DOMAIN o.legs : o.legs[i].wallet = w
    THEN o.legs[CHOOSE i \in DOMAIN o.legs : o.legs[i].wallet = w].delta
    ELSE 0
=============================================================================
