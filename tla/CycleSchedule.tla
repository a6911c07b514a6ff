--------------------------- MODULE CycleSchedule ---------------------------
(***************************************************************************)
(* The periods of a contribution plan's cycles, as the loop of             *)
(* ContributionPlanService.generateCycles computes them from the plan's    *)
(* frequency and dates.  Dates are instants counted from the start of the  *)
(* first month; one step is one pass of the loop.                          *)
(***************************************************************************)
EXTENDS Integers, Sequences

CONSTANTS
    Day,          \* instants in a day
    MonthDays,    \* days of each calendar month
    Starts, Ends  \* startDate and endDate of the plans considered

Months == 1..Len(MonthDays)

\* First instant of each month, and of the one after the last.
MonthStart[m \in 1..(Len(MonthDays) + 1)] ==
    IF m = 1 THEN 0 ELSE MonthStart[m - 1] + Day * MonthDays[m - 1]

Dates == 0..(MonthStart[Len(MonthDays) + 1] - 1)

ASSUME ScheduleAssumption ==
    /\ Day \in Nat \ {0}
    /\ MonthDays \in Seq(28..31)
    /\ Starts \subseteq Nat /\ Ends \subseteq Dates

VARIABLES frequency, startDate, endDate, currentStart, cycles

schedule == <<frequency, startDate, endDate, currentStart, cycles>>

Frequencies == {"DAILY", "WEEKLY", "MONTHLY", "CUSTOM"}

ScheduleTypeOK ==
    /\ frequency \in Frequencies
    /\ startDate \in Nat /\ endDate \in Nat /\ currentStart \in Nat
    /\ cycles \in Seq([periodStart : Nat, periodEnd : Nat])

ScheduleInit ==
    /\ frequency \in Frequencies
    /\ startDate \in Starts /\ endDate \in Ends
    /\ currentStart = startDate
    /\ cycles = <<>>

MonthOf(t) == CHOOSE m \in Months : MonthStart[m] <= t /\ t < MonthStart[m + 1]

\* Mutant: a month is four weeks.
FourWeeks(t) == t + 28 * Day

\* setMonth(getMonth() + 1) keeps the day of the month, and lets a day the next
\* month has not got run over into the month after: it adds this month's days.
AddMonth(t) == t + Day * MonthDays[MonthOf(t)]

Advance(t) ==
    CASE frequency = "DAILY"   -> t + Day
      [] frequency = "WEEKLY"  -> t + 7 * Day
      [] frequency = "MONTHLY" -> AddMonth(t)
      [] OTHER                 -> endDate

\* Mutant: the last period is not cut at the plan's end.
Unclipped(t) == Advance(t)

CurrentEnd(t) == IF Advance(t) > endDate THEN endDate ELSE Advance(t)

\* One pass of the loop.
PushCycle ==
    /\ currentStart < endDate
    /\ cycles' = Append(cycles, [periodStart |-> currentStart, periodEnd |-> CurrentEnd(currentStart)])
    /\ currentStart' = CurrentEnd(currentStart)
    /\ UNCHANGED <<frequency, startDate, endDate>>

ScheduleSpec == ScheduleInit /\ [][PushCycle]_schedule
-----------------------------------------------------------------------------
\* The cycles cover the plan's time from its start to its end, one after the
\* other, none of them empty: no day is in two cycles, or in none.
PeriodsTile ==
    /\ \A k \in DOMAIN cycles :
        /\ cycles[k].periodStart = IF k = 1 THEN startDate ELSE cycles[k - 1].periodEnd
        /\ cycles[k].periodStart < cycles[k].periodEnd /\ cycles[k].periodEnd <= endDate
    /\ currentStart = IF cycles = <<>> THEN startDate ELSE cycles[Len(cycles)].periodEnd

\* No two cycles of a monthly plan begin in one calendar month, whatever day of
\* the month the plan begins and however months run over.
MonthBilledOnce ==
    frequency = "MONTHLY" => \A j, k \in DOMAIN cycles :
        j # k => MonthOf(cycles[j].periodStart) # MonthOf(cycles[k].periodStart)

\* Not true of the code; the README names the configuration that shows it: a
\* monthly plan begins a cycle in every calendar month it passes through.
NoMonthSkipped ==
    frequency = "MONTHLY" => \A k \in DOMAIN cycles :
        k > 1 => MonthOf(cycles[k].periodStart) = MonthOf(cycles[k - 1].periodStart) + 1
=============================================================================
