SPECIFICATION MCSpec
CONSTANTS
    Calls = {c1, c2, c3}
    Users = {ada, bola}
    Owner = ada
    Invitations = {i1, i2}
    Invitee <- TheInvitee
    Plans = {p1}
    Cycles = 3
    Day = 2
    MonthDays <- CommonYear
    Starts <- FirstMonths
    Ends <- WeekApart
SYMMETRY SlotSymmetry
CHECK_DEADLOCK FALSE
INVARIANTS
    BillingStopsOnlyByRemoval
    PeriodsTile
    MonthBilledOnce
