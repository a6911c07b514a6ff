------------------------------- MODULE MCEdge -------------------------------
(* WebhookIntake, Idempotency, ApiClient and Deliveries for TLC.  They share  *)
(* no variable: a behaviour runs one of them, so that the states explored are *)
(* their sum.                                                                 *)
EXTENDS WebhookIntake, Idempotency, ApiClient, Deliveries, TLC

VARIABLE part

MCInit ==
    /\ Init /\ PostsInit /\ ClientInit /\ DeliveriesInit
    /\ part \in {"webhooks", "posts", "browser", "mails"}

MCNext ==
    \/ part = "webhooks" /\ Next /\ UNCHANGED <<postVars, clientVars, deliveryVars, part>>
    \/ part = "posts" /\ PostsNext /\ UNCHANGED <<vars, clientVars, deliveryVars, part>>
    \/ part = "browser" /\ ClientNext /\ UNCHANGED <<vars, postVars, deliveryVars, part>>
    \/ part = "mails" /\ DeliveriesNext /\ UNCHANGED <<vars, postVars, clientVars, part>>

MCSpec == MCInit /\ [][MCNext]_<<vars, postVars, clientVars, deliveryVars, part>>

\* Each part has two sets to permute.  The pairs are exchanged in all parts at
\* once, which the parts that a behaviour does not run do not notice; the set is
\* the whole group, for TLC takes no products of its elements.
Same(pair)     == [x \in pair |-> x]
Exchange(pair) == [x \in pair |-> CHOOSE y \in pair : y # x]

SlotSymmetry ==
    {f @@ g : f \in {Same(Calls \cup Tabs \cup Workers), Exchange(Calls) @@ Exchange(Tabs) @@ Exchange(Workers)},
              g \in {Same(Slots \cup Deliveries), Exchange(Slots) @@ Exchange(Deliveries)}}

\* The type invariants of the four.
TypesOK == TypeOK /\ PostsTypeOK /\ ClientTypeOK /\ DeliveriesTypeOK
=============================================================================
