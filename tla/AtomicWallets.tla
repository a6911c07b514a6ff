--------------------------- MODULE AtomicWallets ---------------------------
(***************************************************************************)
(* What WalletService promises its callers: each operation takes effect in *)
(* one indivisible step or not at all, no balance leaves 0..MaxBalance,    *)
(* and an operation that was rejected is never applied later.  One that    *)
(* was applied may still be answered with a throw.                         *)
(***************************************************************************)
EXTENDS WalletOps

CONSTANT NoOp      \* operation of a request not yet made

VARIABLES balance, \* committed balance of each wallet
          op,      \* operation of each request
          outcome  \* "pending", "rejected", "applied", and then "returned" or "threw"

avars == <<balance, op, outcome>>

Init ==
    /\ balance = OpeningBalance
    /\ op = [r \in Requests |-> NoOp]
    /\ outcome = [r \in Requests |-> "pending"]

Submit(r) ==
    /\ op[r] = NoOp
    /\ \E o \in Operations : op' = [op EXCEPT ![r] = o]
    /\ UNCHANGED <<balance, outcome>>

Apply(r) ==
    /\ op[r] # NoOp
    /\ outcome[r] = "pending"
    /\ balance' = [w \in Wallets |-> balance[w] + Delta(op[r], w)]
    /\ \A w \in Wallets : balance'[w] \in 0..MaxBalance
    /\ outcome' = [outcome EXCEPT ![r] = "applied"]
    /\ UNCHANGED op

Reject(r) ==
    /\ op[r] # NoOp
    /\ outcome[r] = "pending"
    /\ outcome' = [outcome EXCEPT ![r] = "rejected"]
    /\ UNCHANGED <<balance, op>>

\* The audit log of an applied operation is written, or throws.
Answer(r) ==
    /\ outcome[r] = "applied"
    /\ \E answer \in {"returned", "threw"} : outcome' = [outcome EXCEPT ![r] = answer]
    /\ UNCHANGED <<balance, op>>

Next == \E r \in Requests : Submit(r) \/ Apply(r) \/ Reject(r) \/ Answer(r)

Spec == Init /\ [][Next]_avars
=============================================================================
