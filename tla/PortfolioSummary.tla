-------------------------- MODULE PortfolioSummary --------------------------
(***************************************************************************)
(* What the dashboard and the portfolio history show of the position:      *)
(* portfolio_service.py sums the stored columns of the holding rows, and   *)
(* the dividends from their own table.  It is read between any two commits *)
(* of PositionSystem.                                                      *)
(***************************************************************************)
EXTENDS PositionSystem

\* A column of the holding rows, summed; there is at most one row here.
SumOfRows(column) == IF holding = NoHolding THEN 0 ELSE holding[column]

\* A slip: the profit of the rows, which has the dividends in it already, and
\* the dividends.
SummaryTwice ==
    [total_cost |-> SumOfRows("cost"), total_market_value |-> SumOfRows("value"),
     total_realized_pl |-> SumOfRows("realized"),
     total_dividend |-> TotalDividend(dividends),
     total_pl |-> SumOfRows("pl") + TotalDividend(dividends)]

_calculate_portfolio_summary ==
    [total_cost |-> SumOfRows("cost"), total_market_value |-> SumOfRows("value"),
     total_realized_pl |-> SumOfRows("realized"),
     total_dividend |-> TotalDividend(dividends),
     total_pl |-> SumOfRows("value") - SumOfRows("cost")
                  + SumOfRows("realized") + TotalDividend(dividends)]

-----------------------------------------------------------------------------

\* Without overlapping requests the profit of the portfolio is at every commit
\* the profit its holding rows show and the dividends of symbols without a row:
\* the dividends the summary reads from their table (portfolio_service.py:50-58)
\* and those the rows have stored (holding_service.py:292) never differ, and no
\* amount is counted twice or by neither.
SummaryMatchesRows ==
    _calculate_portfolio_summary.total_pl =
        IF holding = NoHolding THEN TotalDividend(dividends) ELSE holding.pl
=============================================================================
