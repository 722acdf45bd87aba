------------------------------ MODULE MCImport ------------------------------
(* Small instances of CsvImport. *)
EXTENDS CsvImport, TLC

CONSTANTS Toyota, Vti, World, Nowhere, Garbled, none

\* Names in the files: a fund, a name that ends in a ticker, one that ends in
\* something else, one that has no end.
MCNames        == {"fund", "ticker", "odd", "plain"}
MCFundSymbolOf == [n \in {"fund"} |-> World]
MCTickerOf     == [n \in {"ticker", "odd"} |->
                      IF n = "odd" THEN Garbled ELSE Vti]
MCSymbolRank   == (Toyota :> 2) @@ (Vti :> 4) @@ (World :> 3)
                  @@ (Nowhere :> 1) @@ (Garbled :> 5)

Domestic(day, code, deal, quantity, unit) ==
    [foreign |-> FALSE, code |-> code, name |-> "plain", deal |-> deal,
     custody |-> "NISA", day |-> day, quantity |-> quantity, unit |-> unit,
     amount |-> quantity * unit, currency |-> "JPY"]

Fund(day, deal, quantity, unit) ==
    [Domestic(day, none, deal, quantity, unit) EXCEPT !.name = "fund"]

Foreign(day, deal, quantity, unit, currency, amount) ==
    [foreign |-> TRUE, code |-> none, name |-> "ticker", deal |-> deal,
     custody |-> "specific", day |-> day, quantity |-> quantity,
     unit |-> unit, amount |-> amount, currency |-> currency]

Payout(day, fund, quantity, amount) ==
    [fund |-> fund, mrf |-> FALSE, name |-> IF fund THEN "fund" ELSE "ticker",
     day |-> day, quantity |-> quantity, amount |-> amount]

\* A purchase in dollars, sold in part on the same day; a fund; a stock no
\* service knows; rows that are left out: another kind of deal, no quantity, a
\* currency without rates.
MCTrades ==
    <<Domestic(1, Nowhere, "spot buy", 1, 10),
      Domestic(1, Nowhere, "transfer", 1, 10),
      Foreign(2, "buy", 2, 5, "USD", 10),
      Foreign(2, "sell", 1, 6, "USD", 6),
      Foreign(2, "buy", 0, 5, "JPY", 0),
      Fund(3, "fund buy", 20000, 3),
      Foreign(3, "buy", 1, 5, "CAD", 5)>>

MCDividends ==
    <<[Payout(1, FALSE, 2, 3) EXCEPT !.name = "odd"],
      Payout(2, TRUE, 20000, 3), Payout(3, FALSE, 2, 4),
      [Payout(3, FALSE, 1, 1) EXCEPT !.mrf = TRUE],
      [Payout(3, FALSE, 1, 1) EXCEPT !.name = "plain"]>>

MCPeriods    == {<<1, 2>>, <<2, 3>>}
WholePeriod  == {<<1, 3>>}
MCMaxImports == [trades |-> 2, dividends |-> 1]

MCHistory == [trades |-> MCTrades, dividends |-> MCDividends]


\* The service does not know the rate of day 2 yet, or does.
MCRateTables == {1 :> 100, (1 :> 100) @@ (2 :> 110)}

\* One file: a good trade, then two of a stock no service knows.
LostHistory ==
    [trades |-> <<Domestic(1, Toyota, "spot buy", 1, 20),
                  Domestic(2, Nowhere, "spot buy", 1, 10),
                  Domestic(3, Nowhere, "spot buy", 2, 10)>>]
=============================================================================
