----------------------------- MODULE MCPosition -----------------------------
(* Small instances of PositionSystem and PortfolioSummary. *)
EXTENDS PortfolioSummary, TLC

CONSTANTS r1, r2, r3, r4, job

Trade(kind, date, quantity, price) ==
    [kind |-> kind, date |-> date, quantity |-> quantity, price |-> price]

\* The trades of a position bought before the run starts: 4 at 12 on day 1.
Bought ==
    {[id |-> "opening", kind |-> "buy", date |-> 1, quantity |-> 4,
      price |-> 12, ratio |-> 1, realized |-> 0]}

NewPosition      == {{}}
OpenedPosition   == {Bought}
AnyPosition      == {{}, Bought}

AnyOrder ==
    {Trade("buy", 1, 2, 12), Trade("buy", 3, 2, 24),
     Trade("sell", 1, 2, 24), Trade("sell", 3, 4, 12),
     Trade("dividend", 3, 5, 0),
     Trade("split", 2, 2, 0), Trade("split", 3, 3, 0),
     Trade("unsplit", 0, 0, 0), Trade("recalculate", 0, 0, 0)}

Purchases == {Trade("buy", 1, 4, 12), Trade("buy", 3, 4, 24),
              Trade("dividend", 3, 5, 0)}

Sales == {Trade("sell", 3, 3, 24)}

MixedOrders ==
    {Trade("buy", 3, 2, 24), Trade("sell", 3, 2, 12),
     Trade("dividend", 3, 5, 0), Trade("split", 2, 2, 0),
     Trade("unsplit", 0, 0, 0)}

RequestSymmetry == Permutations(Requests)

=============================================================================
