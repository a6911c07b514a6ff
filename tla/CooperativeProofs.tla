------------------------- MODULE CooperativeProofs -------------------------
(***************************************************************************)
(* Proofs about Cooperative for every set of calls, invitations and plans, *)
(* any finite set of users and any number of cycles, and about             *)
(* CycleSchedule for every calendar and every plan in it.                  *)
(***************************************************************************)
EXTENDS Cooperative, CycleSchedule, TLAPS, FiniteSetTheorems, SequenceTheorems, WellFoundedInduction

-----------------------------------------------------------------------------
(* Members and plans                                                       *)

\* The steps of a call that generates the cycles of its plan.
Generating == {"count", "read", "bill"}
WorksOn(c, p) == call[c].pc \in Generating /\ call[c].row = p

\* A removal is final, and the owner is not removed.
MemberShape ==
    /\ member[Owner] # "REMOVED"
    /\ \A i \in Invitations : invitation[i] = "ACCEPTED" => member[Invitee[i]] # "none"
    /\ \A c \in Calls, i \in Invitations : At(c, "accepted", i) => member[Invitee[i]] # "none"

\* One call generates the cycles of a plan, in order.
PlanShape ==
    /\ \A c \in Calls, p \in Plans : WorksOn(c, p) => plan[p].status # "none" /\ plan[p].done < Cycles
    /\ \A c, d \in Calls : \A p \in Plans : WorksOn(c, p) /\ WorksOn(d, p) => c = d
    /\ \A p \in Plans : plan[p].status = "none" => plan[p].done = 0
    /\ \A p \in Plans : \A l \in 1..Cycles : l > plan[p].done => plan[p].billed[l] = {}

\* Who was left out of a cycle was removed, and will be left out by the members
\* already read for the next one.
ReadShape ==
    \A c \in Calls, p \in Plans, u \in Users : At(c, "bill", p) =>
        \A j \in 1..Cycles : u \in plan[p].billed[j] =>
            /\ u \notin call[c].read => member[u] = "REMOVED"
            /\ \A k \in 1..Cycles : j < k /\ k <= plan[p].done /\ u \notin plan[p].billed[k] =>
                  u \notin call[c].read

\* Whoever is billed, or about to be, has been a member.
BilledShape ==
    /\ \A p \in Plans, u \in Users : \A j \in 1..Cycles : u \in plan[p].billed[j] => member[u] # "none"
    /\ \A c \in Calls, u \in Users : u \in call[c].read => member[u] # "none"

Shape == MemberShape /\ PlanShape /\ BilledShape /\ ReadShape

Kept == TypeOK /\ Shape /\ BillingStopsOnlyByRemoval

PlanRows == [status : {"none", "ACTIVE", "PAUSED", "COMPLETED"}, counted : 0..Cardinality(Users),
             billed : [1..Cycles -> SUBSET Users], done : 0..Cycles]
CallRows == [pc : {"idle", "own", "invite", "expire", "join", "accepted", "count", "read", "bill"},
             row : Invitations \cup Plans \cup {"none"}, read : SUBSET Users]

\* Steps that leave the plans alone, and neither read members nor forget one.
LEMMA MemberStep ==
    ASSUME Kept,
           plan' = plan,
           member' \in [Users -> {"none", "ACTIVE", "REMOVED"}],
           \A u \in Users : /\ member[u] # "none" => member'[u] # "none"
                            /\ member[u] = "REMOVED" => member'[u] = "REMOVED",
           member'[Owner] # "REMOVED",
           call' \in [Calls -> CallRows],
           \A c \in Calls, p \in Plans : WorksOn(c, p)' => WorksOn(c, p) /\ call'[c] = call[c],
           \A c \in Calls : call'[c].read \subseteq call[c].read
    PROVE  PlanShape' /\ BilledShape' /\ ReadShape' /\ BillingStopsOnlyByRemoval'
<1> USE DEF Kept, Shape
<1>1. PlanShape'
  BY DEF PlanShape
<1>2. BilledShape'
  BY DEF BilledShape
<1>3. ReadShape'
  <2> SUFFICES ASSUME NEW c \in Calls, NEW p \in Plans, NEW u \in Users, At(c, "bill", p)',
                      NEW j \in 1..Cycles, u \in plan[p].billed[j]
               PROVE  /\ u \notin call'[c].read => member'[u] = "REMOVED"
                      /\ \A k \in 1..Cycles : j < k /\ k <= plan[p].done /\ u \notin plan[p].billed[k] =>
                            u \notin call'[c].read
    BY DEF ReadShape
  <2>1. call'[c] = call[c] /\ At(c, "bill", p)
    BY DEF At, WorksOn, Generating
  <2> QED BY <2>1 DEF ReadShape
<1>4. BillingStopsOnlyByRemoval'
  BY DEF BillingStopsOnlyByRemoval
<1> QED BY <1>1, <1>2, <1>3, <1>4

\* The steps of group, members and invitations, and those that end a call.
GroupStep(c) ==
    \/ CreateGroup(c) \/ AddOwner(c) \/ Interrupt(c)
    \/ \E i \in Invitations : \/ CheckInvite(c, i) \/ CreateInvitation(c, i) \/ ReadInvitation(c, i)
                              \/ Join(c, i) \/ CloseInvitation(c, i)

LEMMA GroupStepKept ==
    ASSUME Kept, NEW c \in Calls, GroupStep(c)
    PROVE  Kept'
<1> USE CooperativeAssumption DEF Kept, Shape
<1>u. plan' = plan /\ lapsed' = lapsed
  BY DEF GroupStep, CreateGroup, AddOwner, Interrupt, CheckInvite, CreateInvitation, ReadInvitation, Join, CloseInvitation
<1>m. /\ member' \in [Users -> {"none", "ACTIVE", "REMOVED"}]
      /\ \A u \in Users : /\ member[u] # "none" => member'[u] # "none"
                          /\ member[u] = "REMOVED" => member'[u] = "REMOVED"
      /\ member'[Owner] # "REMOVED"
  BY DEF GroupStep, CreateGroup, AddOwner, Interrupt, CheckInvite, CreateInvitation, ReadInvitation, Join, CloseInvitation,
     MayJoin, TypeOK, MemberShape
<1>c. PICK row \in CallRows :
          /\ row.pc \notin Generating /\ row.read = {}
          /\ call' = [call EXCEPT ![c] = row]
          /\ \A i \in Invitations : row.pc = "accepted" /\ row.row = i => member'[Invitee[i]] # "none"
  <2> DEFINE R(step, x) == [pc |-> step, row |-> x, read |-> {}]
  <2>1. CASE AddOwner(c) \/ Interrupt(c) \/ \E i \in Invitations : CreateInvitation(c, i) \/ CloseInvitation(c, i)
    <3>1. R("idle", "none") \in CallRows /\ R("idle", "none").pc = "idle" /\ R("idle", "none").read = {}
      BY DEF CallRows
    <3>2. call' = [call EXCEPT ![c] = R("idle", "none")]
      BY <2>1 DEF AddOwner, Interrupt, CreateInvitation, CloseInvitation, End, Idle
    <3> QED BY <3>1, <3>2 DEF Generating
  <2>2. CASE CreateGroup(c)
    <3>1. R("own", "none") \in CallRows /\ R("own", "none").pc = "own" /\ R("own", "none").read = {}
      BY DEF CallRows
    <3>2. call' = [call EXCEPT ![c] = R("own", "none")]
      BY <2>2 DEF CreateGroup, Start, Go
    <3> QED BY <3>1, <3>2 DEF Generating
  <2>3. ASSUME NEW i \in Invitations, CheckInvite(c, i) \/ ReadInvitation(c, i)
        PROVE  \E step \in {"invite", "expire", "join"} : call' = [call EXCEPT ![c] = R(step, i)]
    BY <2>3 DEF CheckInvite, ReadInvitation, Start, Go
  <2>4. ASSUME NEW i \in Invitations, Join(c, i)
        PROVE  \/ call' = [call EXCEPT ![c] = R("idle", "none")]
               \/ call' = [call EXCEPT ![c] = R("accepted", i)] /\ member'[Invitee[i]] = "ACTIVE"
    BY <2>4 DEF Join, Go, End, Idle, TypeOK
  <2>5. \A i \in Invitations : \A step \in {"idle", "invite", "expire", "join", "accepted"} :
            R(step, i) \in CallRows /\ R("idle", "none") \in CallRows
    BY DEF CallRows
  <2> QED BY <2>1, <2>2, <2>3, <2>4, <2>5 DEF GroupStep, Generating
<1>t. call \in [Calls -> CallRows]
  BY DEF TypeOK, CallRows
<1>1. call' \in [Calls -> CallRows]
  BY <1>c, <1>t
<1>2. /\ \A d \in Calls, p \in Plans : WorksOn(d, p)' => WorksOn(d, p) /\ call'[d] = call[d]
      /\ \A d \in Calls : call'[d].read \subseteq call[d].read
  BY <1>c, <1>t DEF WorksOn, Generating
<1>3. PlanShape' /\ BilledShape' /\ ReadShape' /\ BillingStopsOnlyByRemoval'
  BY <1>u, <1>m, <1>1, <1>2, MemberStep
<1>4. group' \in {"none", "ACTIVE", "COMPLETED"} /\ invitation' \in [Invitations -> {"none", "PENDING", "ACCEPTED", "EXPIRED"}]
  BY DEF GroupStep, CreateGroup, AddOwner, Interrupt, CheckInvite, CreateInvitation, ReadInvitation, Join, CloseInvitation, TypeOK
<1>5. TypeOK'
  BY <1>u, <1>m, <1>1, <1>4 DEF TypeOK, CallRows
<1>6. \A i \in Invitations : invitation'[i] = "ACCEPTED" => member'[Invitee[i]] # "none"
  <2> SUFFICES ASSUME NEW i \in Invitations, invitation'[i] = "ACCEPTED" PROVE member[Invitee[i]] # "none"
    BY <1>m
  <2>1. CASE invitation[i] = "ACCEPTED"
    BY <2>1 DEF MemberShape
  <2>2. CASE invitation[i] # "ACCEPTED"
    <3>1. CloseInvitation(c, i) /\ At(c, "accepted", i)
      BY <2>2 DEF GroupStep, CreateGroup, AddOwner, Interrupt, CheckInvite, CreateInvitation, ReadInvitation, Join,
         CloseInvitation, TypeOK
    <3> QED BY <3>1 DEF MemberShape
  <2> QED BY <2>1, <2>2
<1>7. MemberShape'
  <2> SUFFICES ASSUME NEW d \in Calls, NEW i \in Invitations, At(d, "accepted", i)'
               PROVE  member'[Invitee[i]] # "none"
    BY <1>6, <1>m DEF MemberShape
  <2>1. CASE d = c
    BY <2>1, <1>c, <1>t DEF At
  <2>2. CASE d # c
    <3>1. At(d, "accepted", i)
      BY <2>2, <1>c, <1>t DEF At
    <3> QED BY <3>1, <1>m DEF MemberShape
  <2> QED BY <2>1, <2>2
<1> QED BY <1>3, <1>5, <1>7

LEMMA MemberStepKept ==
    ASSUME Kept, DeleteGroup \/ (\E u \in Users : RemoveMember(u)) \/ (\E i \in Invitations : Lapse(i))
    PROVE  Kept'
<1> USE CooperativeAssumption DEF Kept, Shape
<1>u. plan' = plan /\ call' = call /\ invitation' = invitation
  BY DEF DeleteGroup, RemoveMember, Lapse
<1>m. /\ member' \in [Users -> {"none", "ACTIVE", "REMOVED"}]
      /\ \A u \in Users : /\ member[u] # "none" => member'[u] # "none"
                          /\ member[u] = "REMOVED" => member'[u] = "REMOVED"
      /\ member'[Owner] # "REMOVED"
  BY DEF DeleteGroup, RemoveMember, Lapse, TypeOK, MemberShape
<1>1. PlanShape' /\ BilledShape' /\ ReadShape' /\ BillingStopsOnlyByRemoval'
  BY <1>u, <1>m, MemberStep DEF TypeOK, CallRows, WorksOn
<1>2. TypeOK'
  BY <1>u, <1>m DEF TypeOK, DeleteGroup, RemoveMember, Lapse
<1>3. MemberShape'
  BY <1>u, <1>m DEF MemberShape, At
<1> QED BY <1>1, <1>2, <1>3

\* The statuses of a plan change: who is billed does not.
LEMMA PlanStatusKept ==
    ASSUME Kept, NEW p \in Plans, UpdatePlan(p) \/ DeletePlan(p)
    PROVE  Kept'
<1> USE DEF Kept, Shape
<1>u. UNCHANGED <<group, member, invitation, lapsed, call>> /\ plan[p].status # "none"
  BY DEF UpdatePlan, DeletePlan, SetPlanStatus
<1>t. plan \in [Plans -> PlanRows]
  BY DEF TypeOK, PlanRows
<1>p. PICK s \in {"ACTIVE", "PAUSED", "COMPLETED"} : plan' = [plan EXCEPT ![p].status = s]
  BY DEF UpdatePlan, DeletePlan, SetPlanStatus
<1>1. /\ plan' \in [Plans -> PlanRows]
      /\ \A q \in Plans : /\ plan'[q].billed = plan[q].billed /\ plan'[q].done = plan[q].done
                          /\ plan'[q].status = "none" <=> plan[q].status = "none"
  BY <1>u, <1>t, <1>p DEF PlanRows
<1>2. TypeOK'
  BY <1>u, <1>1 DEF TypeOK, PlanRows
<1>3. PlanShape' /\ MemberShape'
  BY <1>u, <1>1 DEF PlanShape, MemberShape, WorksOn, At
<1>4. BilledShape' /\ ReadShape' /\ BillingStopsOnlyByRemoval'
  BY <1>u, <1>1 DEF BilledShape, ReadShape, BillingStopsOnlyByRemoval, At
<1> QED BY <1>2, <1>3, <1>4

\* A call begins to generate the cycles of a plan, or is about to read members.
LEMMA PlanBeginsKept ==
    ASSUME Kept, NEW c \in Calls, NEW p \in Plans, CreatePlan(c, p) \/ CreateCycles(c, p)
    PROVE  Kept'
<1> USE CooperativeAssumption DEF Kept, Shape
<1>u. UNCHANGED <<group, member, invitation, lapsed>>
  BY DEF CreatePlan, CreateCycles
<1>t. plan \in [Plans -> PlanRows] /\ call \in [Calls -> CallRows]
  BY DEF TypeOK, PlanRows, CallRows
<1>n. Cardinality(Active) \in 0..Cardinality(Users)
  <2>1. Active \subseteq Users /\ IsFiniteSet(Users)
    BY DEF Active
  <2> QED BY <2>1, FS_Subset, FS_CardinalityType
<1>c. PICK step \in {"count", "read"} : call' = [call EXCEPT ![c] = [pc |-> step, row |-> p, read |-> {}]]
  BY DEF CreatePlan, CreateCycles, Start, Go
<1>p. /\ plan' \in [Plans -> PlanRows]
      /\ \A q \in Plans : /\ plan'[q].billed = plan[q].billed /\ plan'[q].done = plan[q].done
                          /\ q # p => plan'[q] = plan[q]
      /\ plan'[p].status # "none" /\ plan[p].done < Cycles
  <2>1. CASE CreatePlan(c, p)
    <3>1. plan' = [plan EXCEPT ![p].status = "ACTIVE"] /\ plan[p].done < Cycles
      BY <2>1 DEF CreatePlan, PlanShape
    <3> QED BY <3>1, <1>t DEF PlanRows
  <2>2. CASE CreateCycles(c, p)
    <3>1. plan' = [plan EXCEPT ![p].counted = Cardinality(Active)]
      BY <2>2 DEF CreateCycles
    <3>2. plan[p].status # "none" /\ plan[p].done < Cycles
      BY <2>2 DEF CreateCycles, PlanShape, WorksOn, At, Generating
    <3> QED BY <3>1, <3>2, <1>t, <1>n DEF PlanRows
  <2> QED BY <2>1, <2>2
<1>w. \A d \in Calls : WorksOn(d, p) => d = c
  BY <1>t DEF CreatePlan, CreateCycles, PlanShape, WorksOn, At, Generating
<1>r. [pc |-> step, row |-> p, read |-> {}] \in CallRows
  BY DEF CallRows
<1>1. TypeOK'
  BY <1>u, <1>t, <1>c, <1>p, <1>r DEF TypeOK, PlanRows, CallRows
<1>d. \A d \in Calls \ {c} : call'[d] = call[d]
  BY <1>c, <1>t
<1>e. call'[c].pc = step /\ call'[c].row = p /\ call'[c].read = {}
  BY <1>c, <1>t
<1>2. PlanShape'
  <2>1. \A d \in Calls, q \in Plans : WorksOn(d, q)' => (d = c /\ q = p) \/ (d # c /\ q # p /\ WorksOn(d, q))
    BY <1>d, <1>e, <1>w DEF WorksOn
  <2>2. \A d \in Calls, q \in Plans : WorksOn(d, q)' => plan'[q].status # "none" /\ plan'[q].done < Cycles
    BY <2>1, <1>p DEF PlanShape
  <2>3. \A d, b \in Calls : \A q \in Plans : WorksOn(d, q)' /\ WorksOn(b, q)' => d = b
    BY <2>1 DEF PlanShape
  <2>4. \A q \in Plans : plan'[q].status = "none" => plan'[q].done = 0
    BY <1>p DEF PlanShape
  <2>5. \A q \in Plans : \A l \in 1..Cycles : l > plan'[q].done => plan'[q].billed[l] = {}
    BY <1>p DEF PlanShape
  <2> QED BY <2>2, <2>3, <2>4, <2>5 DEF PlanShape
<1>3. MemberShape'
  BY <1>u, <1>d, <1>e DEF MemberShape, At
<1>4. BilledShape'
  BY <1>u, <1>p, <1>d, <1>e DEF BilledShape
<1>5. ReadShape'
  <2>1. \A d \in Calls, q \in Plans : At(d, "bill", q)' => At(d, "bill", q) /\ call'[d] = call[d]
    BY <1>d, <1>e DEF At
  <2> QED BY <2>1, <1>u, <1>p DEF ReadShape
<1>6. BillingStopsOnlyByRemoval'
  BY <1>u, <1>p DEF BillingStopsOnlyByRemoval
<1> QED BY <1>1, <1>2, <1>3, <1>4, <1>5, <1>6

LEMMA ReadMembersKept ==
    ASSUME Kept, NEW c \in Calls, NEW p \in Plans, ReadMembers(c, p)
    PROVE  Kept'
<1> USE CooperativeAssumption DEF Kept, Shape
<1>u. UNCHANGED <<group, member, invitation, lapsed, plan>>
  BY DEF ReadMembers
<1>t. plan \in [Plans -> PlanRows] /\ call \in [Calls -> CallRows]
  BY DEF TypeOK, PlanRows, CallRows
<1>c. /\ call[c].pc = "read" /\ call[c].row = p
      /\ call' = [call EXCEPT ![c].pc = "bill", ![c].read = Active]
  BY DEF ReadMembers, At
<1>d. /\ \A d \in Calls \ {c} : call'[d] = call[d]
      /\ call'[c].pc = "bill" /\ call'[c].row = p /\ call'[c].read = Active
      /\ call' \in [Calls -> CallRows]
  BY <1>c, <1>t DEF CallRows, Active
<1>1. TypeOK'
  BY <1>u, <1>d DEF TypeOK, CallRows
<1>2. PlanShape'
  <2>1. \A d \in Calls, q \in Plans : WorksOn(d, q)' => WorksOn(d, q)
    BY <1>c, <1>d DEF WorksOn, Generating
  <2> QED BY <2>1, <1>u DEF PlanShape
<1>3. MemberShape'
  BY <1>u, <1>d DEF MemberShape, At
<1>4. BilledShape'
  BY <1>u, <1>d DEF BilledShape, Active
<1>5. ReadShape'
  <2> SUFFICES ASSUME NEW d \in Calls, NEW q \in Plans, NEW u \in Users, At(d, "bill", q)',
                      NEW j \in 1..Cycles, u \in plan[q].billed[j]
               PROVE  /\ u \notin call'[d].read => member[u] = "REMOVED"
                      /\ \A k \in 1..Cycles : j < k /\ k <= plan[q].done /\ u \notin plan[q].billed[k] =>
                            u \notin call'[d].read
    BY <1>u DEF ReadShape
  <2>1. CASE d # c
    BY <2>1, <1>d DEF ReadShape, At
  <2>2. CASE d = c
    <3>1. q = p /\ call'[d].read = Active
      BY <2>2, <1>d DEF At
    <3>2. member[u] # "none" /\ member[u] \in {"none", "ACTIVE", "REMOVED"}
      BY DEF BilledShape, TypeOK
    <3>3. ASSUME NEW k \in 1..Cycles, j < k, k <= plan[q].done, u \notin plan[q].billed[k]
          PROVE  member[u] = "REMOVED"
      BY <3>3 DEF BillingStopsOnlyByRemoval
    <3> QED BY <3>1, <3>2, <3>3 DEF Active
  <2> QED BY <2>1, <2>2
<1>6. BillingStopsOnlyByRemoval'
  BY <1>u DEF BillingStopsOnlyByRemoval
<1> QED BY <1>1, <1>2, <1>3, <1>4, <1>5, <1>6

LEMMA BillMembersKept ==
    ASSUME Kept, NEW c \in Calls, NEW p \in Plans, BillMembers(c, p)
    PROVE  Kept'
<1> USE CooperativeAssumption DEF Kept, Shape
<1> DEFINE k == plan[p].done + 1
<1>u. UNCHANGED <<group, member, invitation, lapsed>>
  BY DEF BillMembers
<1>t. plan \in [Plans -> PlanRows] /\ call \in [Calls -> CallRows]
  BY DEF TypeOK, PlanRows, CallRows
<1>c. At(c, "bill", p) /\ WorksOn(c, p) /\ plan' = [plan EXCEPT ![p].billed[k] = call[c].read, ![p].done = k]
  BY DEF BillMembers, WorksOn, At, Generating
<1>k. k \in 1..Cycles /\ plan[p].status # "none" /\ plan[p].done \in Nat /\ call[c].read \subseteq Users
  BY <1>c, <1>t DEF PlanShape, PlanRows, CallRows
<1>p. /\ plan' \in [Plans -> PlanRows]
      /\ \A q \in Plans \ {p} : plan'[q] = plan[q]
      /\ plan'[p].done = k /\ plan'[p].status = plan[p].status
      /\ plan'[p].billed[k] = call[c].read
      /\ \A l \in 1..Cycles : l # k => plan'[p].billed[l] = plan[p].billed[l]
  BY <1>c, <1>k, <1>t DEF PlanRows
<1>d. /\ \A d \in Calls \ {c} : call'[d] = call[d]
      /\ call'[c].read = {} /\ call' \in [Calls -> CallRows]
      /\ call'[c].pc = "idle" \/ (k < Cycles /\ call'[c].pc = "read" /\ call'[c].row = p)
  <2>1. \/ k >= Cycles /\ call' = [call EXCEPT ![c] = [pc |-> "idle", row |-> "none", read |-> {}]]
        \/ k < Cycles /\ call' = [call EXCEPT ![c] = [pc |-> "read", row |-> p, read |-> {}]]
    BY <1>k DEF BillMembers, End, Idle, Go
  <2>2. /\ [pc |-> "idle", row |-> "none", read |-> {}] \in CallRows
        /\ [pc |-> "read", row |-> p, read |-> {}] \in CallRows
    BY DEF CallRows
  <2>3. CASE call' = [call EXCEPT ![c] = [pc |-> "idle", row |-> "none", read |-> {}]]
    BY <2>2, <2>3, <1>t
  <2>4. CASE k < Cycles /\ call' = [call EXCEPT ![c] = [pc |-> "read", row |-> p, read |-> {}]]
    BY <2>2, <2>4, <1>t
  <2> QED BY <2>1, <2>3, <2>4
<1> HIDE DEF k
<1>1. TypeOK'
  BY <1>u, <1>p, <1>d DEF TypeOK, PlanRows, CallRows
<1>w. \A d \in Calls, q \in Plans : WorksOn(d, q)' =>
          WorksOn(d, q) /\ (d = c => k < Cycles) /\ (q = p => d = c)
  <2> SUFFICES ASSUME NEW d \in Calls, NEW q \in Plans, WorksOn(d, q)'
               PROVE  WorksOn(d, q) /\ (d = c => k < Cycles) /\ (q = p => d = c)
    OBVIOUS
  <2>1. WorksOn(d, q) /\ (d = c => k < Cycles)
    BY <1>c, <1>d DEF WorksOn, Generating, At
  <2> QED BY <2>1, <1>c DEF PlanShape
<1>2. PlanShape'
  <2>1. \A d \in Calls, q \in Plans : WorksOn(d, q)' => plan'[q].status # "none" /\ plan'[q].done < Cycles
    BY <1>w, <1>p, <1>k DEF PlanShape
  <2>2. \A d, b \in Calls : \A q \in Plans : WorksOn(d, q)' /\ WorksOn(b, q)' => d = b
    BY <1>w DEF PlanShape
  <2>3. \A q \in Plans : plan'[q].status = "none" => plan'[q].done = 0
    BY <1>p, <1>k DEF PlanShape
  <2>4. \A q \in Plans : \A l \in 1..Cycles : l > plan'[q].done => plan'[q].billed[l] = {}
    BY <1>p, <1>k DEF PlanShape, k
  <2> QED BY <2>1, <2>2, <2>3, <2>4 DEF PlanShape
<1>3. MemberShape'
  BY <1>u, <1>d DEF MemberShape, At
<1>4. BilledShape'
  <2>1. \A q \in Plans, u \in Users : \A j \in 1..Cycles :
            u \in plan'[q].billed[j] => u \in plan[q].billed[j] \/ u \in call[c].read
    BY <1>p
  <2> QED BY <2>1, <1>u, <1>d DEF BilledShape
<1>5. ReadShape'
  <2> SUFFICES ASSUME NEW d \in Calls, NEW q \in Plans, At(d, "bill", q)'
               PROVE  plan'[q] = plan[q] /\ call'[d] = call[d] /\ At(d, "bill", q)
    BY <1>u DEF ReadShape
  <2>1. d # c
    BY <1>d DEF At
  <2>2. WorksOn(d, q)'
    BY DEF At, WorksOn, Generating
  <2> QED BY <2>1, <2>2, <1>w, <1>p, <1>d DEF At
<1>6. BillingStopsOnlyByRemoval'
  <2> SUFFICES ASSUME NEW q \in Plans, NEW u \in Users, NEW j \in 1..Cycles, NEW m \in 1..Cycles,
                      j < m, m <= plan'[q].done, u \in plan'[q].billed[j], u \notin plan'[q].billed[m]
               PROVE  member[u] = "REMOVED" /\ \A l \in m..Cycles : u \notin plan'[q].billed[l]
    BY <1>u DEF BillingStopsOnlyByRemoval
  <2>1. CASE q # p
    BY <2>1, <1>p DEF BillingStopsOnlyByRemoval
  <2>2. CASE q = p
    <3>1. j # k /\ u \in plan[p].billed[j]
      BY <2>2, <1>p, <1>k
    <3>r. /\ u \notin call[c].read => member[u] = "REMOVED"
          /\ \A i \in 1..Cycles : j < i /\ i <= plan[p].done /\ u \notin plan[p].billed[i] =>
                u \notin call[c].read
      BY <3>1, <1>c DEF ReadShape
    <3>2. CASE m = k
      <4>1. u \notin call[c].read
        BY <3>2, <2>2, <1>p
      <4>2. \A l \in m..Cycles : l # k => plan'[q].billed[l] = {}
        BY <2>2, <3>2, <1>k, <1>p DEF PlanShape, k
      <4> QED BY <4>1, <4>2, <3>2, <3>r, <2>2, <1>p
    <3>3. CASE m # k
      <4>1. m <= plan[p].done /\ u \notin plan[p].billed[m]
        BY <3>3, <2>2, <1>p, <1>k DEF k
      <4>2. u \notin call[c].read
        BY <4>1, <3>r
      <4>3. \A l \in m..Cycles : u \notin plan[p].billed[l]
        BY <3>1, <4>1 DEF BillingStopsOnlyByRemoval
      <4>4. \A l \in m..Cycles : l \in 1..Cycles
        OBVIOUS
      <4> QED BY <4>2, <4>3, <4>4, <3>r, <2>2, <1>p
    <3> QED BY <3>2, <3>3
  <2> QED BY <2>1, <2>2
<1> QED BY <1>1, <1>2, <1>3, <1>4, <1>5, <1>6

\* The inductive invariant of the group, its members and its bills.
LEMMA AlwaysKept == Spec => []Kept
<1>1. Init => Kept
  <2> SUFFICES ASSUME Init PROVE Kept
    OBVIOUS
  <2>1. TypeOK
    <3>1. Cardinality(Users) \in Nat
      BY FS_CardinalityType, CooperativeAssumption
    <3> QED BY <3>1, CooperativeAssumption DEF Init, TypeOK, NoPlan, Idle
  <2>2. MemberShape /\ BilledShape /\ ReadShape /\ BillingStopsOnlyByRemoval
    BY CooperativeAssumption
    DEF Init, MemberShape, BilledShape, ReadShape, BillingStopsOnlyByRemoval, NoPlan, Idle, At
  <2>3. PlanShape
    BY CooperativeAssumption DEF Init, PlanShape, NoPlan, Idle, WorksOn, Generating
  <2> QED BY <2>1, <2>2, <2>3 DEF Kept, Shape
<1>2. Kept /\ [Next]_vars => Kept'
  <2>1. CASE UNCHANGED vars
    BY <2>1 DEF vars, Kept, TypeOK, Shape, MemberShape, PlanShape, BilledShape, ReadShape,
       BillingStopsOnlyByRemoval, WorksOn, At
  <2>2. ASSUME Kept, Next PROVE Kept'
    BY <2>2, GroupStepKept, MemberStepKept, PlanStatusKept, PlanBeginsKept, ReadMembersKept, BillMembersKept
    DEF Next, GroupStep
  <2> QED BY <2>1, <2>2
<1> QED BY <1>1, <1>2, PTL DEF Spec

\* The group, its plans and its calls keep their shape.
THEOREM Typing == Spec => []TypeOK
<1>1. Kept => TypeOK
  BY DEF Kept
<1> QED BY <1>1, AlwaysKept, PTL

\* A member is billed in every cycle from the first that billed them, unless
\* they were removed, however plans, invitations and removals interleave.
THEOREM BilledUntilRemoved == Spec => []BillingStopsOnlyByRemoval
<1>1. Kept => BillingStopsOnlyByRemoval
  BY DEF Kept
<1> QED BY <1>1, AlwaysKept, PTL

\* An accepted invitation has made a member.
THEOREM AcceptedMakesMember == Spec => []AcceptedHasMember
<1>1. Kept => AcceptedHasMember
  BY DEF Kept, Shape, MemberShape, AcceptedHasMember
<1> QED BY <1>1, AlwaysKept, PTL
-----------------------------------------------------------------------------
(* The calendar                                                            *)

\* A bounded set of naturals has a least element, because proper subsets of a
\* finite set are well-founded; and so what holds of 0 and of every successor
\* holds of every number.
LEMMA LeastOf ==
    ASSUME NEW n \in Nat, NEW T \in SUBSET (0..n), T # {}
    PROVE  \E m \in T : \A k \in T : m <= k
<1> DEFINE Below(m) == {k \in T : k < m}
           F == {Below(m) : m \in T}
<1>1. IsFiniteSet(T)
  <2>1. IsFiniteSet(0..n)
    BY FS_Interval
  <2> QED BY <2>1, FS_Subset
<1>2. IsWellFoundedOn(StrictSubsetOrdering(T), SUBSET T)
  <2>1. IsWellFoundedOn(StrictSubsetOrdering(T), FiniteSubsetsOf(T))
    BY FS_StrictSubsetOrderingWellFounded
  <2> QED BY <1>1, <2>1, FS_FiniteSubsetsOfFinite
<1>3. F \subseteq SUBSET T /\ F # {}
  OBVIOUS
<1>4. PICK S \in F : \A R \in F : <<R, S>> \notin StrictSubsetOrdering(T)
  <2> HIDE DEF F
  <2> QED BY <1>2, <1>3, WFMin
<1>5. PICK m \in T : S = Below(m)
  OBVIOUS
<1>6. ASSUME NEW k \in T, k < m
      PROVE  FALSE
  <2>1. Below(k) \in F
    OBVIOUS
  <2>2. T \subseteq Int
    OBVIOUS
  <2>3. Below(k) \subseteq S /\ k \in S /\ k \notin Below(k)
    <3>1. \A x \in T : x < k => x < m
      BY <1>6, <2>2
    <3>2. ~ (k < k)
      BY <2>2
    <3> QED BY <3>1, <3>2, <1>5, <1>6
  <2> QED BY <2>1, <2>3, <1>3, <1>4 DEF StrictSubsetOrdering
<1> QED BY <1>5, <1>6

\* Induction over the naturals, stated of a set.
LEMMA Induction ==
    ASSUME NEW S \in SUBSET Nat, 0 \in S, \A n \in S : n + 1 \in S
    PROVE  S = Nat
<1> SUFFICES ASSUME NEW n \in Nat, n \notin S
             PROVE  FALSE
  OBVIOUS
<1> DEFINE T == {k \in 0..n : k \notin S}
<1>1. PICK m \in T : \A k \in T : m <= k
  <2>1. T \in SUBSET (0..n) /\ T # {}
    OBVIOUS
  <2> HIDE DEF T
  <2> QED BY <2>1, LeastOf
<1>2. m # 0 /\ m - 1 \in 0..n /\ m - 1 \notin T
  BY <1>1
<1> QED BY <1>2

LastMonth == Len(MonthDays)
Lasts(m) == Day * MonthDays[m]

\* Every month lasts a positive number of days.
LEMMA MonthsLast ==
    /\ LastMonth \in Nat
    /\ \A m \in 1..LastMonth : Lasts(m) \in Nat \ {0}
<1>1. MonthDays \in Seq(28..31) /\ Day \in Nat \ {0}
  BY ScheduleAssumption
<1>2. LastMonth \in Nat
  BY <1>1, LenProperties DEF LastMonth
<1>3. ASSUME NEW m \in 1..LastMonth
      PROVE  Lasts(m) \in Nat \ {0}
  <2>1. MonthDays[m] \in 28..31
    BY <1>1, ElementOfSeq DEF LastMonth
  <2>2. \A d \in 28..31 : Day * d \in Nat \ {0}
    BY <1>1
  <2> QED BY <2>1, <2>2 DEF Lasts
<1> QED BY <1>2, <1>3

\* f gives the first instants of the months up to n + 1.
Begins(f, n) ==
    /\ f \in [1..(n + 1) -> Nat]
    /\ \A m \in 1..(n + 1) : f[m] = IF m = 1 THEN 0 ELSE f[m - 1] + Lasts(m - 1)

\* The calendar has a first day for each of its months: the recursion is defined.
LEMMA BeginsExists == \A n \in Nat : n <= LastMonth => \E f : Begins(f, n)
<1> DEFINE S == {n \in Nat : n <= LastMonth => \E f : Begins(f, n)}
<1>1. 0 \in S
  <2>1. Begins([m \in 1..(0 + 1) |-> 0], 0)
    BY DEF Begins
  <2> QED BY <2>1
<1>2. ASSUME NEW n \in S
      PROVE  n + 1 \in S
  <2> SUFFICES ASSUME n + 1 <= LastMonth PROVE \E f : Begins(f, n + 1)
    OBVIOUS
  <2>1. n \in Nat /\ n <= LastMonth /\ Lasts(n + 1) \in Nat
    BY MonthsLast
  <2>2. PICK f : Begins(f, n)
    BY <2>1
  <2>3. f[n + 1] \in Nat
    BY <2>1, <2>2 DEF Begins
  <2> DEFINE g == [m \in 1..((n + 1) + 1) |-> IF m = n + 2 THEN f[n + 1] + Lasts(n + 1) ELSE f[m]]
  <2>4. g \in [1..((n + 1) + 1) -> Nat]
    BY <2>1, <2>2, <2>3 DEF Begins
  <2>5. ASSUME NEW m \in 1..((n + 1) + 1)
        PROVE  g[m] = IF m = 1 THEN 0 ELSE g[m - 1] + Lasts(m - 1)
    <3>1. CASE m = n + 2
      BY <2>1, <3>1
    <3>2. CASE m # n + 2
      <4>1. m \in 1..(n + 1) /\ g[m] = f[m] /\ (m # 1 => g[m - 1] = f[m - 1])
        BY <2>1, <3>2
      <4> QED BY <4>1, <2>2 DEF Begins
    <3> QED BY <3>1, <3>2
  <2> QED BY <2>4, <2>5 DEF Begins
<1>3. S = Nat
  <2> HIDE DEF S
  <2>1. S \in SUBSET Nat
    BY DEF S
  <2> QED BY <1>1, <1>2, <2>1, Induction
<1> QED BY <1>3

\* The function MonthStart is what its definition says.
LEMMA MonthStartBegins == Begins(MonthStart, LastMonth)
<1> DEFINE F(f) == [m \in 1..(LastMonth + 1) |-> IF m = 1 THEN 0 ELSE f[m - 1] + Lasts(m - 1)]
<1>1. PICK f : Begins(f, LastMonth)
  BY BeginsExists, MonthsLast
<1>2. f = F(f)
  BY <1>1 DEF Begins
<1>3. MonthStart = CHOOSE g : g = F(g)
  BY DEF MonthStart, LastMonth, Lasts
<1>4. MonthStart = F(MonthStart)
  BY <1>2, <1>3
<1>5. \A m \in 1..(LastMonth + 1) : MonthStart[m] = IF m = 1 THEN 0 ELSE MonthStart[m - 1] + Lasts(m - 1)
  BY <1>4
<1>6. \A m \in 1..(LastMonth + 1) : MonthStart[m] \in Nat
  <2> DEFINE T == {m \in 1..(LastMonth + 1) : MonthStart[m] \notin Nat}
  <2> SUFFICES ASSUME T # {} PROVE FALSE
    OBVIOUS
  <2>1. PICK m \in T : \A k \in T : m <= k
    <3>1. T \in SUBSET (0..(LastMonth + 1)) /\ LastMonth + 1 \in Nat
      BY MonthsLast
    <3> HIDE DEF T
    <3> QED BY <3>1, LeastOf
  <2>2. m # 1 /\ m - 1 \in 1..LastMonth
    BY <1>5, <2>1, MonthsLast
  <2>3. MonthStart[m - 1] \in Nat
    BY <2>1, <2>2, MonthsLast
  <2> QED BY <1>5, <2>1, <2>2, <2>3, MonthsLast
<1> QED BY <1>4, <1>5, <1>6 DEF Begins

\* Each month begins when the one before it has lasted its days.
LEMMA CalendarFacts ==
    /\ MonthStart[1] = 0
    /\ \A m \in 1..(LastMonth + 1) : MonthStart[m] \in Nat
    /\ \A m \in 1..LastMonth : MonthStart[m + 1] = MonthStart[m] + Lasts(m)
BY MonthStartBegins, MonthsLast DEF Begins

\* Every date of the calendar lies in the month MonthOf names.
LEMMA MonthOfDate ==
    ASSUME NEW t \in Dates
    PROVE  /\ MonthOf(t) \in 1..LastMonth
           /\ MonthStart[MonthOf(t)] <= t /\ t < MonthStart[MonthOf(t) + 1]
<1>1. t \in Nat /\ t < MonthStart[LastMonth + 1] /\ LastMonth \in Nat
  BY CalendarFacts, MonthsLast DEF Dates, LastMonth
<1> DEFINE T == {k \in 0..LastMonth : t < MonthStart[k + 1]}
<1>2. PICK k \in T : \A l \in T : k <= l
  <2>1. T \in SUBSET (0..LastMonth) /\ T # {}
    BY <1>1
  <2> HIDE DEF T
  <2> QED BY <1>1, <2>1, LeastOf
<1>3. k # 0
  BY <1>1, <1>2, CalendarFacts
<1>4. k - 1 \in 0..LastMonth /\ k - 1 \notin T
  BY <1>1, <1>2, <1>3
<1>5. k \in 1..LastMonth /\ MonthStart[k] <= t /\ t < MonthStart[k + 1]
  <2>1. MonthStart[k] \in Nat
    BY <1>1, <1>3, CalendarFacts
  <2> QED BY <1>1, <1>2, <1>3, <1>4, <2>1
<1>6. \E m \in Months : MonthStart[m] <= t /\ t < MonthStart[m + 1]
  BY <1>5 DEF Months, LastMonth
<1> QED BY <1>6 DEF MonthOf, Months, LastMonth

\* The months begin in order.
LEMMA MonthsInOrder ==
    ASSUME NEW i \in 1..(LastMonth + 1), NEW j \in i..(LastMonth + 1)
    PROVE  MonthStart[i] <= MonthStart[j]
<1> DEFINE T == {k \in i..(LastMonth + 1) : MonthStart[k] < MonthStart[i]}
<1> SUFFICES ASSUME T # {} PROVE FALSE
  BY CalendarFacts, MonthsLast
<1>1. PICK m \in T : \A k \in T : m <= k
  <2>1. T \in SUBSET (0..(LastMonth + 1)) /\ LastMonth + 1 \in Nat
    BY MonthsLast
  <2> HIDE DEF T
  <2> QED BY <2>1, LeastOf
<1>2. m # i /\ m - 1 \in i..LastMonth
  BY <1>1, CalendarFacts, MonthsLast
<1>3. MonthStart[m] = MonthStart[m - 1] + Lasts(m - 1) /\ Lasts(m - 1) \in Nat
  BY <1>2, CalendarFacts, MonthsLast
<1>4. m - 1 \notin T
  BY <1>1, <1>2, MonthsLast
<1>5. MonthStart[m - 1] >= MonthStart[i] /\ MonthStart[m - 1] \in Nat /\ MonthStart[i] \in Nat
  BY <1>2, <1>4, CalendarFacts, MonthsLast
<1> QED BY <1>1, <1>3, <1>5

\* A day on or after the end of t's month lies in a later month.
LEMMA LaterMonth ==
    ASSUME NEW t \in Dates, NEW u \in Dates, u >= MonthStart[MonthOf(t) + 1]
    PROVE  MonthOf(u) > MonthOf(t)
<1> SUFFICES ASSUME MonthOf(u) <= MonthOf(t) PROVE FALSE
  BY MonthOfDate, MonthsLast
<1>1. /\ MonthOf(t) \in 1..LastMonth /\ MonthOf(u) \in 1..LastMonth /\ u < MonthStart[MonthOf(u) + 1]
  BY MonthOfDate
<1>2. MonthOf(u) + 1 \in 1..(LastMonth + 1) /\ MonthOf(t) + 1 \in (MonthOf(u) + 1)..(LastMonth + 1)
  BY <1>1, MonthsLast
<1>3. MonthStart[MonthOf(u) + 1] <= MonthStart[MonthOf(t) + 1]
  BY <1>2, MonthsInOrder
<1>4. MonthStart[MonthOf(u) + 1] \in Nat /\ MonthStart[MonthOf(t) + 1] \in Nat /\ u \in Int
  BY <1>2, CalendarFacts, MonthsLast DEF Dates
<1> QED BY <1>1, <1>3, <1>4
-----------------------------------------------------------------------------
(* The periods                                                             *)

Tiled == ScheduleTypeOK /\ startDate \in Nat /\ endDate \in Dates /\ currentStart \in Nat /\ PeriodsTile

\* Setting the month forward reaches the next month, or one after it.
LEMMA AddMonthFacts ==
    ASSUME NEW t \in Dates
    PROVE  AddMonth(t) \in Nat /\ AddMonth(t) > t /\ AddMonth(t) >= MonthStart[MonthOf(t) + 1]
<1>1. MonthOf(t) \in 1..LastMonth /\ MonthStart[MonthOf(t)] <= t
  BY MonthOfDate
<1>2. MonthStart[MonthOf(t) + 1] = MonthStart[MonthOf(t)] + Lasts(MonthOf(t))
  BY <1>1, CalendarFacts
<1>3. Lasts(MonthOf(t)) \in Nat \ {0} /\ MonthStart[MonthOf(t)] \in Nat /\ t \in Nat
  BY <1>1, MonthsLast, CalendarFacts DEF Dates
<1>4. AddMonth(t) = t + Lasts(MonthOf(t))
  BY DEF AddMonth, Lasts
<1> QED BY <1>1, <1>2, <1>3, <1>4

LEMMA DateBefore ==
    ASSUME NEW u \in Dates, NEW t \in Nat, t <= u
    PROVE  t \in Dates
<1>1. MonthStart[LastMonth + 1] \in Nat
  BY CalendarFacts, MonthsLast
<1> QED BY <1>1 DEF Dates, LastMonth

LEMMA PeriodGrows ==
    ASSUME Tiled, currentStart < endDate
    PROVE  /\ currentStart \in Dates
           /\ CurrentEnd(currentStart) \in Nat
           /\ currentStart < CurrentEnd(currentStart) /\ CurrentEnd(currentStart) <= endDate
           /\ frequency = "MONTHLY" /\ CurrentEnd(currentStart) < endDate =>
                 CurrentEnd(currentStart) = AddMonth(currentStart)
<1>1. endDate \in Nat /\ currentStart \in Nat /\ Day \in Nat \ {0} /\ frequency \in Frequencies
  BY ScheduleAssumption DEF Tiled, ScheduleTypeOK
<1>2. currentStart \in Dates
  BY <1>1, DateBefore DEF Tiled
<1>3. Advance(currentStart) \in Nat /\ Advance(currentStart) > currentStart
  BY <1>1, <1>2, AddMonthFacts DEF Advance, Frequencies
<1>4. frequency = "MONTHLY" => Advance(currentStart) = AddMonth(currentStart)
  BY DEF Advance
<1> QED BY <1>1, <1>2, <1>3, <1>4 DEF CurrentEnd

\* The sequence after one pass of the loop.
LEMMA PushFacts ==
    ASSUME Tiled, PushCycle
    PROVE  /\ cycles' \in Seq([periodStart : Nat, periodEnd : Nat])
           /\ Len(cycles') = Len(cycles) + 1 /\ Len(cycles) \in Nat
           /\ DOMAIN cycles = 1..Len(cycles) /\ DOMAIN cycles' = 1..Len(cycles) + 1
           /\ \A k \in 1..Len(cycles) : cycles'[k] = cycles[k]
           /\ cycles'[Len(cycles) + 1] = [periodStart |-> currentStart, periodEnd |-> CurrentEnd(currentStart)]
           /\ cycles = <<>> <=> Len(cycles) = 0
           /\ cycles' # <<>>
<1> DEFINE c == [periodStart |-> currentStart, periodEnd |-> CurrentEnd(currentStart)]
           R == [periodStart : Nat, periodEnd : Nat]
<1>1. c \in R /\ cycles \in Seq(R) /\ cycles' = Append(cycles, c)
  BY PeriodGrows DEF Tiled, ScheduleTypeOK, PushCycle
<1> HIDE DEF c, R
<1>2. /\ cycles' \in Seq(R) /\ Len(cycles') = Len(cycles) + 1
      /\ \A k \in 1..Len(cycles) : cycles'[k] = cycles[k]
      /\ cycles'[Len(cycles) + 1] = c
  BY <1>1, AppendProperties
<1>3. /\ Len(cycles) \in Nat /\ DOMAIN cycles = 1..Len(cycles)
      /\ DOMAIN cycles' = 1..Len(cycles')
  BY <1>1, <1>2, LenProperties
<1>4. (cycles = <<>> <=> Len(cycles) = 0) /\ (cycles' = <<>> <=> Len(cycles') = 0)
  BY <1>1, <1>2, EmptySeq
<1> QED BY <1>2, <1>3, <1>4 DEF c, R

\* The next period begins where the last one ended.
LEMMA TiledStep == ASSUME Tiled, [PushCycle]_schedule PROVE Tiled'
<1>1. CASE UNCHANGED schedule
  BY <1>1 DEF schedule, Tiled, ScheduleTypeOK, PeriodsTile, Dates
<1>2. CASE PushCycle
  <2>u. UNCHANGED <<frequency, startDate, endDate>> /\ currentStart' = CurrentEnd(currentStart) /\ currentStart < endDate
    BY <1>2 DEF PushCycle
  <2>1. /\ CurrentEnd(currentStart) \in Nat
        /\ currentStart < CurrentEnd(currentStart) /\ CurrentEnd(currentStart) <= endDate
    BY <2>u, PeriodGrows
  <2> DEFINE n == Len(cycles)
  <2>2. /\ cycles' \in Seq([periodStart : Nat, periodEnd : Nat])
        /\ Len(cycles') = n + 1 /\ n \in Nat
        /\ DOMAIN cycles = 1..n /\ DOMAIN cycles' = 1..n + 1
        /\ \A k \in 1..n : cycles'[k] = cycles[k]
        /\ cycles'[n + 1] = [periodStart |-> currentStart, periodEnd |-> CurrentEnd(currentStart)]
        /\ cycles = <<>> <=> n = 0
        /\ cycles' # <<>>
    BY <1>2, PushFacts
  <2> HIDE DEF n
  <2>3. currentStart = IF n = 0 THEN startDate ELSE cycles[n].periodEnd
    BY <2>2 DEF Tiled, PeriodsTile, n
  <2>4. ASSUME NEW k \in DOMAIN cycles'
        PROVE  /\ cycles'[k].periodStart = IF k = 1 THEN startDate ELSE cycles'[k - 1].periodEnd
               /\ cycles'[k].periodStart < cycles'[k].periodEnd /\ cycles'[k].periodEnd <= endDate
    <3>1. CASE k = n + 1
      BY <3>1, <2>1, <2>2, <2>3
    <3>2. CASE k # n + 1
      <4>1. k \in DOMAIN cycles /\ k \in 1..n /\ (k # 1 => k - 1 \in 1..n)
        BY <3>2, <2>2
      <4>2. /\ cycles[k].periodStart = IF k = 1 THEN startDate ELSE cycles[k - 1].periodEnd
            /\ cycles[k].periodStart < cycles[k].periodEnd /\ cycles[k].periodEnd <= endDate
        BY <4>1 DEF Tiled, PeriodsTile
      <4> QED BY <4>1, <4>2, <2>2
    <3> QED BY <3>1, <3>2
  <2>5. currentStart' = cycles'[Len(cycles')].periodEnd
    BY <2>u, <2>2
  <2>6. PeriodsTile'
    BY <2>u, <2>2, <2>4, <2>5 DEF PeriodsTile
  <2>7. ScheduleTypeOK'
    BY <2>u, <2>1, <2>2 DEF Tiled, ScheduleTypeOK
  <2> QED BY <2>u, <2>1, <2>6, <2>7 DEF Tiled, Dates
<1> QED BY <1>1, <1>2

\* The inductive invariant of a plan's periods.
LEMMA AlwaysTiled == ScheduleSpec => []Tiled
<1>1. ScheduleInit => Tiled
  <2> SUFFICES ASSUME ScheduleInit PROVE Tiled
    OBVIOUS
  <2>1. startDate \in Nat /\ endDate \in Dates /\ endDate \in Nat /\ currentStart \in Nat
    BY ScheduleAssumption, CalendarFacts, MonthsLast DEF ScheduleInit, Dates, LastMonth
  <2>2. cycles \in Seq([periodStart : Nat, periodEnd : Nat]) /\ DOMAIN cycles = {} /\ cycles = <<>>
    BY EmptySeq DEF ScheduleInit
  <2> QED BY <2>1, <2>2 DEF ScheduleInit, Tiled, ScheduleTypeOK, PeriodsTile
<1>2. Tiled /\ [PushCycle]_schedule => Tiled'
  BY TiledStep
<1> QED BY <1>1, <1>2, PTL DEF ScheduleSpec

\* The periods of every plan cover its time without a gap or an overlap, in
\* every calendar.
THEOREM PeriodsCoverThePlan == ScheduleSpec => []PeriodsTile
<1>1. Tiled => PeriodsTile
  BY DEF Tiled
<1> QED BY <1>1, AlwaysTiled, PTL

\* The cycles of a monthly plan begin in later and later months, and so will
\* the next one.
InLaterMonths ==
    frequency = "MONTHLY" =>
        /\ \A k \in DOMAIN cycles : cycles[k].periodStart \in Dates
        /\ \A j, k \in DOMAIN cycles : j < k => MonthOf(cycles[j].periodStart) < MonthOf(cycles[k].periodStart)
        /\ currentStart < endDate =>
              \A j \in DOMAIN cycles : MonthOf(cycles[j].periodStart) < MonthOf(currentStart)

\* The next cycle begins in a later month than all before it.
LEMMA InLaterMonthsStep == ASSUME Tiled, InLaterMonths, [PushCycle]_schedule PROVE InLaterMonths'
<1>1. CASE UNCHANGED schedule
  BY <1>1 DEF schedule, InLaterMonths, MonthOf, Dates
<1>2. CASE PushCycle
  <2> SUFFICES ASSUME frequency = "MONTHLY" PROVE InLaterMonths'
    BY <1>2 DEF PushCycle, InLaterMonths
  <2>u. UNCHANGED <<frequency, endDate>> /\ currentStart' = CurrentEnd(currentStart) /\ currentStart < endDate
    BY <1>2 DEF PushCycle
  <2>1. /\ currentStart \in Dates /\ CurrentEnd(currentStart) \in Nat
        /\ CurrentEnd(currentStart) < endDate => CurrentEnd(currentStart) = AddMonth(currentStart)
    BY <2>u, PeriodGrows
  <2> DEFINE n == Len(cycles)
  <2>2. /\ n \in Nat
        /\ DOMAIN cycles = 1..n /\ DOMAIN cycles' = 1..n + 1
        /\ \A k \in 1..n : cycles'[k] = cycles[k]
        /\ cycles'[n + 1].periodStart = currentStart
    BY <1>2, PushFacts
  <2> HIDE DEF n
  <2>3. /\ \A k \in 1..n : cycles[k].periodStart \in Dates
        /\ \A j, k \in 1..n : j < k => MonthOf(cycles[j].periodStart) < MonthOf(cycles[k].periodStart)
        /\ \A j \in 1..n : MonthOf(cycles[j].periodStart) < MonthOf(currentStart)
    BY <2>u, <2>2 DEF InLaterMonths
  <2>4. ASSUME CurrentEnd(currentStart) < endDate
        PROVE  MonthOf(currentStart) < MonthOf(CurrentEnd(currentStart))
    <3>1. CurrentEnd(currentStart) >= MonthStart[MonthOf(currentStart) + 1]
      BY <2>1, <2>4, AddMonthFacts
    <3>2. CurrentEnd(currentStart) \in Dates
      BY <2>1, <2>4, DateBefore DEF Tiled, ScheduleTypeOK
    <3>3. MonthOf(CurrentEnd(currentStart)) > MonthOf(currentStart)
      BY <2>1, <3>1, <3>2, LaterMonth
    <3>4. MonthOf(CurrentEnd(currentStart)) \in Int /\ MonthOf(currentStart) \in Int
      BY <2>1, <3>2, MonthOfDate
    <3> QED BY <3>3, <3>4
  <2>5. \A k \in 1..n + 1 : cycles'[k].periodStart \in Dates
    BY <2>1, <2>2, <2>3
  <2>6. \A k \in 1..n + 1 : MonthOf(cycles'[k].periodStart) \in Int
    BY <2>5, MonthOfDate
  <2>7. \A j, k \in 1..n + 1 : j < k => MonthOf(cycles'[j].periodStart) < MonthOf(cycles'[k].periodStart)
    BY <2>2, <2>3
  <2>8. CurrentEnd(currentStart) < endDate =>
            \A j \in 1..n + 1 : MonthOf(cycles'[j].periodStart) < MonthOf(CurrentEnd(currentStart))
    <3> SUFFICES ASSUME CurrentEnd(currentStart) < endDate, NEW j \in 1..n + 1
                 PROVE  MonthOf(cycles'[j].periodStart) < MonthOf(CurrentEnd(currentStart))
      OBVIOUS
    <3>1. CurrentEnd(currentStart) \in Dates
      BY <2>1, DateBefore DEF Tiled, ScheduleTypeOK
    <3>2. MonthOf(CurrentEnd(currentStart)) \in Int /\ MonthOf(currentStart) \in Int
      BY <2>1, <3>1, MonthOfDate
    <3>3. MonthOf(cycles'[j].periodStart) <= MonthOf(currentStart)
      BY <2>2, <2>3, <2>6, <3>2
    <3> QED BY <2>4, <2>6, <3>2, <3>3
  <2>9. \A t : MonthOf(t)' = MonthOf(t)
    BY DEF MonthOf
  <2> QED BY <2>u, <2>2, <2>5, <2>7, <2>8, <2>9 DEF InLaterMonths, MonthOf, Dates
<1> QED BY <1>1, <1>2

\* A monthly plan bills no calendar month twice, whatever the day it begins on.
THEOREM NoMonthBilledTwice == ScheduleSpec => []MonthBilledOnce
<1>1. ScheduleInit => InLaterMonths
  <2> SUFFICES ASSUME ScheduleInit PROVE InLaterMonths
    OBVIOUS
  <2>1. DOMAIN cycles = {}
    BY EmptySeq DEF ScheduleInit
  <2> QED BY <2>1 DEF InLaterMonths
<1>2. Tiled /\ InLaterMonths /\ [PushCycle]_schedule => InLaterMonths'
  BY InLaterMonthsStep
<1>3. Tiled /\ InLaterMonths => MonthBilledOnce
  <2> SUFFICES ASSUME Tiled, InLaterMonths, frequency = "MONTHLY",
                      NEW j \in DOMAIN cycles, NEW k \in DOMAIN cycles, j # k
               PROVE  MonthOf(cycles[j].periodStart) # MonthOf(cycles[k].periodStart)
    BY DEF MonthBilledOnce
  <2>1. DOMAIN cycles = 1..Len(cycles) /\ Len(cycles) \in Nat
    BY LenProperties DEF Tiled, ScheduleTypeOK
  <2>2. j < k \/ k < j
    BY <2>1
  <2>3. MonthOf(cycles[j].periodStart) \in Int /\ MonthOf(cycles[k].periodStart) \in Int
    BY MonthOfDate DEF InLaterMonths
  <2> QED BY <2>2, <2>3 DEF InLaterMonths
<1> QED BY <1>1, <1>2, <1>3, AlwaysTiled, PTL DEF ScheduleSpec
=============================================================================
