----------------------------- MODULE PriceCharts ----------------------------
(***************************************************************************)
(* The price charts of services/price_history_service.py: bars are fetched *)
(* from a day that is computed from the number of points asked for, put    *)
(* together to weeks or months, and cut to the newest of them.  Providers  *)
(* are external: they answer the bars they have published, which are of    *)
(* trading days only and may lag behind.  Day 0 is a Monday.               *)
(***************************************************************************)
EXTENDS Integers, FiniteSets, FiniteSetsExt

CONSTANTS
    EarliestDay,    \* no bar is older
    FirstDay, LastDay,      \* charts are asked for from the one to the other
    MonthOf,        \* number of the month of each day
    Calendars,      \* sets of trading days
    MaxLag,         \* days a provider may be behind
    MaxPoints,      \* 500
    MaxMonths,      \* 60
    MaxBack         \* 1825

Days == EarliestDay..LastDay

ASSUME CalendarAssumption ==
    /\ {EarliestDay, FirstDay, LastDay} \subseteq Nat
    /\ EarliestDay < FirstDay /\ FirstDay <= LastDay
    /\ \A trading \in Calendars : trading \subseteq Days
    /\ {MaxLag, MaxPoints, MaxMonths, MaxBack} \subseteq Nat

\* Months follow each other, and none is longer than 31 days.
ASSUME MonthsAssumption ==
    /\ MonthOf \in [Days -> Int]
    /\ \A c, d \in Days : c <= d => MonthOf[c] <= MonthOf[d]
    /\ \A d \in Days : d + 31 \in Days => MonthOf[d] < MonthOf[d + 31]

VARIABLES
    today,
    published,      \* the provider has the bars up to this day
    open,           \* the trading days
    chart           \* the last answer of this day

vars == <<today, published, open, chart>>

NoChart == [interval |-> "none"]

Init ==
    /\ today = FirstDay /\ published = FirstDay - 1
    /\ open \in Calendars
    /\ chart = NoChart

-----------------------------------------------------------------------------

Intervals == {"daily", "weekly", "monthly"}

\* The route refuses other limits.
Limits(interval) ==
    1..(IF interval = "monthly" THEN Min({MaxMonths, MaxPoints}) ELSE MaxPoints)

\* resample("W-MON") ends a week with its Monday, resample("MS") groups by month.
Period(interval, day) ==
    CASE interval = "daily"   -> day
      [] interval = "weekly"  -> (day - 1) \div 7
      [] interval = "monthly" -> MonthOf[day]

DaysBack(interval, limit) ==
    CASE interval = "daily"   -> (3 * limit) \div 2
      [] interval = "weekly"  -> limit * 7
      [] interval = "monthly" -> Min({limit * 31, MaxBack})

\* One day less, as if the day of the request were of the days gone back.
StartWithToday(interval, limit) == today - DaysBack(interval, limit) + 1
_calculate_start_date(interval, limit) == today - DaysBack(interval, limit)

\* What the provider has up to today.
History == {d \in open : d <= published}

\* A period without a bar has no point: the empty groups are dropped.
Points(interval, bars) ==
    {[period |-> p, bars |-> {d \in bars : Period(interval, d) = p}] :
        p \in {Period(interval, d) : d \in bars}}

AllPoints(points, limit) == points
NewestPoints(points, limit) ==
    {p \in points : Cardinality({q \in points : q.period > p.period}) < limit}

\* The two dates are computed before the one await, so an answer that comes after
\* midnight is still that of the day it was asked for on.
GetPriceHistory(interval, limit) ==
    LET bars == {d \in History : d >= _calculate_start_date(interval, limit)}
    IN  /\ chart' = [interval |-> interval, limit |-> limit,
                     points |-> NewestPoints(Points(interval, bars), limit)]
        /\ UNCHANGED <<today, published, open>>

Publish ==
    /\ published < today
    /\ published' \in (published + 1)..today
    /\ chart' = NoChart
    /\ UNCHANGED <<today, open>>

NextDay ==
    /\ today < LastDay /\ today - published < MaxLag
    /\ today' = today + 1
    /\ chart' = NoChart
    /\ UNCHANGED <<published, open>>

Next ==
    \/ \E interval \in Intervals :
        \E limit \in Limits(interval) : GetPriceHistory(interval, limit)
    \/ Publish \/ NextDay

Spec == Init /\ [][Next]_vars

-----------------------------------------------------------------------------
(* Properties *)

Whole == Points(chart.interval, History)

TypeOK ==
    /\ published \in Int /\ today \in FirstDay..LastDay /\ published <= today
    /\ open \in Calendars
    /\ chart # NoChart =>
        /\ chart.interval \in Intervals /\ chart.limit \in Limits(chart.interval)
        /\ Cardinality(chart.points) <= chart.limit
        /\ \A p \in chart.points : p.bars # {} /\ p.bars \subseteq History

\* A chart has no hole and no cut point but its oldest: whatever it shows, every
\* newer day, week or month of the provider's history is shown with all its bars,
\* on any day, under any calendar, however late the provider is and whether the
\* cap of five years bites or not.  And it is all that was asked for, the oldest
\* point whole, when the points due are of as many days, weeks or months before
\* today as were asked for and the cap does not bite
\* (price_history_service.py:30-41,241-251).
ChartPeriodsWhole ==
    chart # NoChart =>
        LET due == NewestPoints(Whole, chart.limit)
            back == Period(chart.interval, today - 1) - chart.limit
        IN  /\ \A p \in chart.points, q \in Whole :
                q.period > p.period => q \in chart.points
            /\ /\ chart.interval = "monthly" => chart.limit * 31 <= MaxBack
               /\ \A p \in due : p.period > back
               => chart.points = due

=============================================================================
