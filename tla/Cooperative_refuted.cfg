SPECIFICATION MCSpec
CONSTANTS
    Calls = {c1, c2}
    Users = {ada, bola}
    Owner = ada
    Invitations = {i1, i2}
    Invitee <- TheInvitee
    Plans = {p1}
    Cycles = 3
    Day = 2
    MonthDays <- CommonYear
    Starts <- FirstMonths
    Ends <- WeekApart
CHECK_DEADLOCK FALSE
\* Properties the code violates, one at a time: TLC stops at the first.
INVARIANT EveryCycleBilled
\* INVARIANT ExpectsWhatItBills
\* INVARIANT GroupHasOwner
\* INVARIANT NoMonthSkipped
\* PROPERTY AcceptedIsFinal
\* PROPERTY DeletedGroupIsClosed
