--------------------------- MODULE PositionLedger ---------------------------
(***************************************************************************)
(* What a position promises its owner, without sessions, statements, row   *)
(* locks or an identity map: every request happens at once.  Recording a   *)
(* trade or a dividend leaves in the holding exactly the aggregates of the *)
(* rows recorded so far; a sale is recorded only if the position covers    *)
(* it; registering or deleting a split re-adjusts every recorded trade and *)
(* leaves the holding to the next recording or refresh.                    *)
(***************************************************************************)
EXTENDS PositionArithmetic

CONSTANTS
    Requests,   \* identities of the recordings
    Orders,     \* what a request may ask for: [kind, date, quantity, price]
    Openings,   \* the sets of trades a position may start with
    NoHolding   \* there is no row in `holdings`

VARIABLES
    transactions,
    dividends,
    splits,
    summary     \* quantity, cost, realized P/L and dividends of the holding

vars == <<transactions, dividends, splits, summary>>

SummaryOf(T, D) ==
    [quantity |-> HeldQuantity(T),
     cost     |-> HeldCost(T),
     realized |-> RealizedPl(T),
     dividend |-> TotalDividend(D)]

TradeRow(id, o, realized) ==
    [id |-> id, kind |-> o.kind, date |-> o.date, quantity |-> o.quantity,
     price |-> o.price, ratio |-> 1, realized |-> realized]

Init ==
    /\ transactions \in Openings
    /\ dividends = {}
    /\ splits = {}
    /\ summary = IF transactions = {}
                 THEN NoHolding
                 ELSE SummaryOf(transactions, {})

-----------------------------------------------------------------------------

Record(t) ==
    /\ transactions' = transactions \cup {t}
    /\ summary' = SummaryOf(transactions', dividends)
    /\ UNCHANGED <<dividends, splits>>

Buy(id, o) ==
    /\ o.kind = "buy"
    /\ Record(TradeRow(id, o, 0))

Sell(id, o) ==
    /\ o.kind = "sell"
    /\ summary # NoHolding
    /\ HeldQuantity(transactions) >= o.quantity
    /\ Record(TradeRow(id, o,
                       (o.price - AverageCost(transactions)) * o.quantity))

Receive(id, o) ==
    /\ o.kind = "dividend"
    /\ dividends' = dividends \cup {[id |-> id, amount |-> o.quantity]}
    /\ summary' = IF summary = NoHolding
                  THEN NoHolding
                  ELSE SummaryOf(transactions, dividends')
    /\ UNCHANGED <<transactions, splits>>

Adjust(S) ==
    /\ splits' = S
    /\ transactions' = Readjusted(transactions, S)
    /\ UNCHANGED <<dividends, summary>>

RegisterSplit(id, o) ==
    /\ o.kind = "split"
    /\ \A sp \in splits : sp.date # o.date
    /\ Adjust(splits \cup {[id |-> id, date |-> o.date, ratio |-> o.quantity]})

DeleteSplit == \E sp \in splits : Adjust(splits \ {sp})

Recalculate == Adjust(splits)

Refresh ==
    /\ summary # NoHolding
    /\ summary' = SummaryOf(transactions, dividends)
    /\ UNCHANGED <<transactions, dividends, splits>>

Next ==
    \/ \E id \in Requests, o \in Orders :
          \/ Buy(id, o)
          \/ Sell(id, o)
          \/ Receive(id, o)
          \/ RegisterSplit(id, o)
    \/ DeleteSplit
    \/ Recalculate
    \/ Refresh

Spec == Init /\ [][Next]_vars

=============================================================================
