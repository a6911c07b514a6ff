---------------------------- MODULE MCCooperative ----------------------------
(* Cooperative and CycleSchedule for TLC.  They share no variable: a         *)
(* behaviour runs one of them, so that the states explored are their sum.    *)
EXTENDS Cooperative, CycleSchedule, TLC

VARIABLE part

NoSchedule ==
    /\ frequency = "CUSTOM" /\ cycles = <<>>
    /\ startDate = 0 /\ endDate = 0 /\ currentStart = 0

MCInit ==
    /\ Init
    /\ \/ part = "cooperative" /\ NoSchedule
       \/ part = "schedule" /\ ScheduleInit

MCNext ==
    \/ part = "cooperative" /\ Next /\ UNCHANGED <<schedule, part>>
    \/ part = "schedule" /\ PushCycle /\ UNCHANGED <<vars, part>>

MCSpec == MCInit /\ [][MCNext]_<<vars, schedule, part>>

SlotSymmetry == Permutations(Calls) \cup Permutations(Invitations) \cup Permutations(Plans)

\* The type invariants of both.
TypesOK == TypeOK /\ ScheduleTypeOK

\* The constants of the runs: every invitation is for the one user who is not
\* the owner; half a common year, with a plan that begins on
\* any of its first days, at noon or midnight, and ends up to half a year later.
TheInvitee == [i \in Invitations |-> CHOOSE u \in Users : u # Owner]
CommonYear == <<31, 28, 31, 30, 31, 30>>
FirstMonths == 0..63
WeekApart == {7 * k : k \in 0..45}
=============================================================================
