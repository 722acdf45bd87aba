------------------------- MODULE PositionArithmetic -------------------------
(***************************************************************************)
(* The aggregates holding_service.py and stock_split_service.py compute    *)
(* over the rows of one position, that is, of one (user_id, symbol).       *)
(*                                                                         *)
(* A trade is the part of a row of `transactions` they read:               *)
(*   [id, kind, date, quantity, price, ratio, realized]                    *)
(* `ratio` stands for the pair adjusted_quantity / adjusted_price, which   *)
(* the code only ever writes together: ratio = 1 is NULL / NULL, any other *)
(* ratio is quantity * ratio / (price / ratio).  A dividend is             *)
(* [id, amount], net of tax and fee; a split is [id, date, ratio].         *)
(*                                                                         *)
(* Money and quantities are integers, split ratios natural numbers.  The   *)
(* code divides floats where Average rounds down: a property that compares *)
(* two results of the same sums does not tell the two apart.               *)
(***************************************************************************)
EXTENDS Integers, FiniteSetsExt

\* `float(total or 0)`: what the code makes of the result of a SUM.
OrZero(x) == IF x \in Int THEN x ELSE 0

Buys(T)  == {t \in T : t.kind = "buy"}
Sells(T) == {t \in T : t.kind = "sell"}

\* coalesce(adjusted_quantity, quantity)
AdjustedQuantity(t) == t.quantity * t.ratio

\* coalesce(adjusted_quantity, quantity) * coalesce(adjusted_price, price):
\* the ratio cancels.
Cost(t) == t.quantity * t.price

BuyQuantity(T)  == OrZero(MapThenSumSet(AdjustedQuantity, Buys(T)))
BuyCost(T)      == OrZero(MapThenSumSet(Cost, Buys(T)))
SellQuantity(T) == OrZero(MapThenSumSet(AdjustedQuantity, Sells(T)))

Average(cost, quantity) == IF quantity > 0 THEN cost \div quantity ELSE 0

\* current_quantity, average_cost and current_total_cost of a set of trades.
HeldQuantity(T) == BuyQuantity(T) - SellQuantity(T)
AverageCost(T)  == Average(BuyCost(T), BuyQuantity(T))
HeldCost(T)     == HeldQuantity(T) * AverageCost(T)

RealizedPl(T) == OrZero(MapThenSumSet(LAMBDA t : t.realized, Sells(T)))

TotalDividend(D) == OrZero(MapThenSumSet(LAMBDA d : d.amount, D))

\* The ratio of every split later than the trade, multiplied; a trade of the
\* split date itself is not adjusted (`<`).
CumulativeRatio(date, S) ==
    MapThenFoldSet(LAMBDA x, y : x * y,
                   1,
                   LAMBDA sp : sp.ratio,
                   LAMBDA set : CHOOSE sp \in set : TRUE,
                   {sp \in S : date < sp.date})

\* What recalculate_adjusted_values leaves in the rows it has read.
Readjusted(T, S) ==
    {[t EXCEPT !.ratio = CumulativeRatio(t.date, S)] : t \in T}

=============================================================================
