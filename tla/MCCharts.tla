------------------------------ MODULE MCCharts ------------------------------
(***************************************************************************)
(* Charts from 9 February to 4 April 2022, of three calendars.  Day 0 is   *)
(* 1 November 2021, a Monday.                                              *)
(***************************************************************************)
EXTENDS PriceCharts

MCMonthStarts == {0, 30, 61, 92, 120, 151}
MCMonthOf == [d \in Days |-> Cardinality({s \in MCMonthStarts : s <= d})]

MCWeekdays == {d \in Days : d % 7 < 5}

\* Tokyo's holidays and days around the New Year.
MCTokyo == MCWeekdays \ ({2, 22, 102, 114, 140, 70} \union 60..63)

\* A Tuesday, and a whole week of the chart.
MCClosures == MCWeekdays \ ({120} \union 127..133)

MCCalendars == {MCWeekdays, MCTokyo, MCClosures}

=============================================================================
