---------------------------- MODULE Cooperative ----------------------------
(***************************************************************************)
(* A savings group: its members and invitations (GroupService and          *)
(* GroupInvitationService) and the generation of the cycles of its         *)
(* contribution plans (ContributionPlanService).  Creating a group,        *)
(* accepting an invitation and creating a plan are sequences of statements *)
(* outside any transaction, and interleave.                                *)
(***************************************************************************)
EXTENDS Integers, FiniteSets

CONSTANTS
    Calls,        \* requests running at once
    Users, Owner, \* Owner creates the group and is its only administrator
    Invitations,  \* GroupInvitation rows that may be created
    Invitee,      \* the user whose email or phone an invitation names
    Plans,        \* ContributionPlan rows that may be created
    Cycles        \* number of cycles between the dates of a plan

ASSUME CooperativeAssumption ==
    /\ IsFiniteSet(Users)
    /\ Owner \in Users /\ Invitee \in [Invitations -> Users] /\ Cycles \in Nat \ {0}

VARIABLES
    group,       \* status of the Group row
    member,      \* status of each user's GroupMember row
    invitation,  \* status of each GroupInvitation row
    lapsed,      \* invitations whose expiresAt has passed
    plan,        \* status; members counted for expectedAmount; members with a
                 \* MemberContribution in each cycle; cycles done
    call         \* where each request stands, its row, and the members it read

vars == <<group, member, invitation, lapsed, plan, call>>

NoPlan == [status |-> "none", counted |-> 0, billed |-> [k \in 1..Cycles |-> {}], done |-> 0]
Idle   == [pc |-> "idle", row |-> "none", read |-> {}]

TypeOK ==
    /\ group \in {"none", "ACTIVE", "COMPLETED"}
    /\ member \in [Users -> {"none", "ACTIVE", "REMOVED"}]
    /\ invitation \in [Invitations -> {"none", "PENDING", "ACCEPTED", "EXPIRED"}]
    /\ lapsed \subseteq Invitations
    /\ plan \in [Plans -> [status : {"none", "ACTIVE", "PAUSED", "COMPLETED"}, counted : 0..Cardinality(Users),
                           billed : [1..Cycles -> SUBSET Users], done : 0..Cycles]]
    /\ call \in [Calls -> [pc : {"idle", "own", "invite", "expire", "join", "accepted", "count", "read", "bill"},
                           row : Invitations \cup Plans \cup {"none"}, read : SUBSET Users]]

Init ==
    /\ group = "none"
    /\ member = [u \in Users |-> "none"]
    /\ invitation = [i \in Invitations |-> "none"]
    /\ lapsed = {}
    /\ plan = [p \in Plans |-> NoPlan]
    /\ call = [c \in Calls |-> Idle]

Active == {u \in Users : member[u] = "ACTIVE"}
At(c, step, row) == call[c].pc = step /\ call[c].row = row
Go(c, step, row) == call' = [call EXCEPT ![c] = [pc |-> step, row |-> row, read |-> {}]]
Start(c, step, row) == call[c].pc = "idle" /\ Go(c, step, row)
End(c) == call' = [call EXCEPT ![c] = Idle]
-----------------------------------------------------------------------------
(* Group and members                                                       *)

CreateGroup(c) ==
    /\ group = "none"
    /\ group' = "ACTIVE"
    /\ Start(c, "own", "none")
    /\ UNCHANGED <<member, invitation, lapsed, plan>>

AddOwner(c) ==
    /\ At(c, "own", "none")
    /\ member' = [member EXCEPT ![Owner] = "ACTIVE"]
    /\ End(c)
    /\ UNCHANGED <<group, invitation, lapsed, plan>>

\* The row stays; no other operation looks at the group's status.
DeleteGroup ==
    /\ member[Owner] = "ACTIVE"
    /\ group' = "COMPLETED"
    /\ UNCHANGED <<member, invitation, lapsed, plan, call>>

\* The owner cannot be removed.
RemoveMember(u) ==
    /\ member[Owner] = "ACTIVE" /\ u # Owner /\ member[u] # "none"
    /\ member' = [member EXCEPT ![u] = "REMOVED"]
    /\ UNCHANGED <<group, invitation, lapsed, plan, call>>

\* Only the invitee's membership is looked at, not earlier invitations.
CheckInvite(c, i) ==
    /\ member[Owner] = "ACTIVE" /\ member[Invitee[i]] = "none"
    /\ Start(c, "invite", i)
    /\ UNCHANGED <<group, member, invitation, lapsed, plan>>

CreateInvitation(c, i) ==
    /\ At(c, "invite", i)
    /\ invitation[i] = "none"
    /\ invitation' = [invitation EXCEPT ![i] = "PENDING"]
    /\ End(c)
    /\ UNCHANGED <<group, member, lapsed, plan>>

Lapse(i) ==
    /\ invitation[i] # "none" /\ i \notin lapsed
    /\ lapsed' = lapsed \cup {i}
    /\ UNCHANGED <<group, member, invitation, plan, call>>

ReadInvitation(c, i) ==
    /\ invitation[i] = "PENDING"
    /\ Start(c, IF i \in lapsed THEN "expire" ELSE "join", i)
    /\ UNCHANGED <<group, member, invitation, lapsed, plan>>

\* Mutant: a removed member's row is taken up again.
MayJoinAgain(u) == member[u] # "ACTIVE"

\* A row of any status refuses, by the check or by the unique key.
MayJoin(u) == member[u] = "none"

Join(c, i) ==
    /\ At(c, "join", i)
    /\ IF MayJoin(Invitee[i])
       THEN member' = [member EXCEPT ![Invitee[i]] = "ACTIVE"] /\ Go(c, "accepted", i)
       ELSE End(c) /\ UNCHANGED member
    /\ UNCHANGED <<group, invitation, lapsed, plan>>

\* The status read as PENDING is overwritten, whatever it is now.
CloseInvitation(c, i) ==
    /\ \/ At(c, "accepted", i) /\ invitation' = [invitation EXCEPT ![i] = "ACCEPTED"]
       \/ At(c, "expire", i) /\ invitation' = [invitation EXCEPT ![i] = "EXPIRED"]
    /\ End(c)
    /\ UNCHANGED <<group, member, lapsed, plan>>
-----------------------------------------------------------------------------
(* Contribution plans                                                      *)

\* The middleware lets the group's administrator in.
CreatePlan(c, p) ==
    /\ member[Owner] = "ACTIVE"
    /\ plan[p].status = "none"
    /\ plan' = [plan EXCEPT ![p].status = "ACTIVE"]
    /\ Start(c, "count", p)
    /\ UNCHANGED <<group, member, invitation, lapsed>>

\* Members are counted once, for the expectedAmount of every cycle.
CreateCycles(c, p) ==
    /\ At(c, "count", p)
    /\ plan' = [plan EXCEPT ![p].counted = Cardinality(Active)]
    /\ Go(c, "read", p)
    /\ UNCHANGED <<group, member, invitation, lapsed>>

\* Each cycle reads the members again, then bills those it read.
ReadMembers(c, p) ==
    /\ At(c, "read", p)
    /\ call' = [call EXCEPT ![c].pc = "bill", ![c].read = Active]
    /\ UNCHANGED <<group, member, invitation, lapsed, plan>>

BillMembers(c, p) ==
    LET k == plan[p].done + 1
    IN  /\ At(c, "bill", p)
        /\ plan' = [plan EXCEPT ![p].billed[k] = call[c].read, ![p].done = k]
        /\ IF k >= Cycles THEN End(c) ELSE Go(c, "read", p)
        /\ UNCHANGED <<group, member, invitation, lapsed>>

\* updatePlan and deletePlan: any status follows any other, and the cycles
\* already created, or still being created, stay as they are.
SetPlanStatus(p, s) ==
    /\ member[Owner] = "ACTIVE" /\ plan[p].status # "none"
    /\ plan' = [plan EXCEPT ![p].status = s]
    /\ UNCHANGED <<group, member, invitation, lapsed, call>>

UpdatePlan(p) == \E s \in {"ACTIVE", "PAUSED", "COMPLETED"} : SetPlanStatus(p, s)
DeletePlan(p) == SetPlanStatus(p, "COMPLETED")

\* A statement throws or the server dies; nothing resumes the request.
Interrupt(c) ==
    /\ call[c].pc # "idle"
    /\ End(c)
    /\ UNCHANGED <<group, member, invitation, lapsed, plan>>

Next ==
    \/ \E c \in Calls :
        \/ CreateGroup(c) \/ AddOwner(c) \/ Interrupt(c)
        \/ \E i \in Invitations :
            \/ CheckInvite(c, i) \/ CreateInvitation(c, i) \/ ReadInvitation(c, i)
            \/ Join(c, i) \/ CloseInvitation(c, i)
        \/ \E p \in Plans : CreatePlan(c, p) \/ CreateCycles(c, p) \/ ReadMembers(c, p) \/ BillMembers(c, p)
    \/ DeleteGroup
    \/ \E u \in Users : RemoveMember(u)
    \/ \E i \in Invitations : Lapse(i)
    \/ \E p \in Plans : UpdatePlan(p) \/ DeletePlan(p)

Spec == Init /\ [][Next]_vars
-----------------------------------------------------------------------------
\* An invitation is ACCEPTED only when its invitee has a member row, although
\* the two are written one after the other and others join meanwhile.
AcceptedHasMember ==
    \A i \in Invitations : invitation[i] = "ACCEPTED" => member[Invitee[i]] # "none"

\* The cycles of a plan that bill a member follow each other, and end early only
\* for a member who was removed: removal is final, whatever invitations are
\* still open, and the plan's cycles are worked through in order.
BillingStopsOnlyByRemoval ==
    \A p \in Plans, u \in Users : \A j, k \in 1..Cycles :
        j < k /\ k <= plan[p].done /\ u \in plan[p].billed[j] /\ u \notin plan[p].billed[k] =>
            /\ member[u] = "REMOVED"
            /\ \A l \in k..Cycles : u \notin plan[p].billed[l]

\* The following are not true of the code; the README names the configuration
\* that shows each of them violated.

\* An ACCEPTED invitation stays so.
AcceptedIsFinal ==
    [][\A i \in Invitations : invitation[i] = "ACCEPTED" => invitation'[i] = "ACCEPTED"]_vars

\* A plan that is through expects as many contributions as it created.
ExpectsWhatItBills ==
    \A p \in Plans : \A k \in 1..Cycles : k <= plan[p].done => Cardinality(plan[p].billed[k]) = plan[p].counted

\* Every cycle of a plan is billed once nobody works on the plan.
EveryCycleBilled ==
    \A p \in Plans : plan[p].counted > 0 /\ (\A c \in Calls : call[c].row # p) =>
        \A k \in 1..Cycles : plan[p].billed[k] # {}

\* A group somebody has created gets an owner.
GroupHasOwner == group # "none" /\ (\A c \in Calls : call[c].pc # "own") => member[Owner] = "ACTIVE"

\* Nobody joins a deleted group.
DeletedGroupIsClosed ==
    [][group = "COMPLETED" => \A u \in Users : member'[u] = "ACTIVE" => member[u] = "ACTIVE"]_vars
=============================================================================
