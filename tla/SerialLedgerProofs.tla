------------------------- MODULE SerialLedgerProofs -------------------------
(***************************************************************************)
(* Requests that do not overlap implement the ledger: each commit is one   *)
(* recording, adjustment or refresh of PositionLedger, and all other       *)
(* statements leave it as it is.                                           *)
(***************************************************************************)
EXTENDS SerialProofs, PortfolioSummary

Trading   == {"buy", "sell"}
Adjusting == {"split", "unsplit", "recalculate"}
Valuing   == {"plSelect", "plBuys", "plSells", "plRealized", "plDividend",
              "plPrice", "plFlush"}

\* Which requests pass which statements.
OnPath(kind, at) ==
    /\ at \in {"select", "register", "sumBuys", "sumSells"} => kind \in Trading
    /\ at \in {"checkBuys", "checkSells", "sumRealized"} => kind = "sell"
    /\ at \in {"registerDividend", "selectForDividend"} => kind = "dividend"
    /\ at = "flush" => kind \in Trading \cup {"dividend"}
    /\ at \in Valuing => kind \in Trading \cup {"dividend", "refresh"}
    /\ at \in {"checkSplit", "insertSplit"} => kind = "split"
    /\ at \in {"findSplit", "deleteSplit"} => kind = "unsplit"
    /\ at \in {"readSplits", "readTrades", "flushRatios"} => kind \in Adjusting

\* Only requests record: a job's order is a refresh.
OrderFits(s) ==
    /\ order[s] \in Orders \cup {RefreshOrder}
    /\ order[s].kind \in Kinds
    /\ OnPath(order[s].kind, pc[s])
    /\ s \in Jobs => order[s] = RefreshOrder

-----------------------------------------------------------------------------
(* What an open session has written.                                       *)

\* Statements up to the first that writes a row of a table.
Unwritten == {"select", "checkBuys", "checkSells", "register",
              "registerDividend", "checkSplit", "insertSplit", "findSplit",
              "deleteSplit"}

RecordedTrade(s) ==
    TradeRow(s, order[s],
             IF order[s].kind = "sell"
             THEN (order[s].price - AverageCost(transactions))
                     * order[s].quantity
             ELSE 0)

RecordedDividend(s) == [id |-> s, amount |-> order[s].quantity]

RecordedSplit(s) ==
    [id |-> s, date |-> order[s].date, ratio |-> order[s].quantity]

TradeWritten(s) ==
    pending[s].transactions =
        IF order[s].kind \in Trading /\ pc[s] \notin Unwritten
        THEN {RecordedTrade(s)}
        ELSE {}

DividendWritten(s) ==
    pending[s].dividends =
        IF order[s].kind = "dividend" /\ pc[s] \notin Unwritten
        THEN {RecordedDividend(s)}
        ELSE {}

SplitWritten(s) ==
    IF order[s].kind = "split" /\ pc[s] \notin Unwritten
    THEN pending[s].splits = {RecordedSplit(s)} /\ ~DateTaken(s)
    ELSE pending[s].splits = {}

SplitDeleted(s) ==
    IF order[s].kind = "unsplit" /\ pc[s] \notin Unwritten
    THEN \E sp \in splits : pending[s].deleted = {sp}
    ELSE pending[s].deleted = {}

Written(s) ==
    /\ TradeWritten(s)
    /\ DividendWritten(s)
    /\ SplitWritten(s)
    /\ SplitDeleted(s)

-----------------------------------------------------------------------------
(* What it has read and computed.                                          *)

\* The part of the holding row the ledger keeps, from all rows.
Aggregates(T, D) ==
    [quantity |-> HeldQuantity(T), cost |-> HeldCost(T),
     realized |-> RealizedPl(T), dividend |-> TotalDividend(D)]

\* A sale past its check is covered, and its average is that of the trades
\* before it.
SaleCovered(s) ==
    order[s].kind = "sell" =>
        /\ pc[s] # "select" => holding # NoHolding
        /\ pc[s] = "checkSells" =>
              /\ tally[s].quantity = BuyQuantity(transactions)
              /\ tally[s].cost = BuyCost(transactions)
        /\ pc[s] = "register" => tally[s].before = AverageCost(transactions)
        /\ pc[s] \notin {"select", "checkBuys", "checkSells"} =>
              HeldQuantity(transactions) >= order[s].quantity

\* calculate_holding_pl replaces one aggregate after the other.
HoldingComputed(s) ==
    LET T == VisibleTransactions(s)
        D == VisibleDividends(s)
    IN  /\ pc[s] = "plSells" =>
              tally[s].quantity = BuyQuantity(T) /\ tally[s].cost = BuyCost(T)
        /\ pc[s] \in {"plRealized", "plDividend", "plPrice", "plFlush"} =>
              /\ object[s].quantity = HeldQuantity(T)
              /\ object[s].cost = HeldCost(T)
        /\ pc[s] \in {"plDividend", "plPrice", "plFlush"} =>
              object[s].realized = RealizedPl(T)
        /\ pc[s] \in {"plPrice", "plFlush"} =>
              object[s].dividend = TotalDividend(D)
        /\ order[s].kind \in Trading /\ pc[s] = "plSelect" =>
              object[s] # NoHolding
        /\ pc[s] = "commit" /\ order[s].kind \notin Adjusting =>
              IF loaded[s] = NoHolding
              THEN holding = NoHolding /\ order[s].kind \notin Trading
              ELSE Summary(loaded[s]) = Aggregates(T, D)

\* Every session has its slots for what it reads.
ReadsKept == DOMAIN readSplits = Sessions /\ DOMAIN readTrades = Sessions

SplitsRead(s) ==
    /\ pc[s] = "deleteSplit" => \E sp \in splits : readSplits[s] = {sp}
    /\ pc[s] \in {"readTrades", "flushRatios"} =>
          readSplits[s] = VisibleSplits(s)
    /\ pc[s] = "flushRatios" => readTrades[s] = transactions

\* The trade as the session will commit it.
Rewritten(s, t) ==
    IF t.id \in DOMAIN pending[s].ratios
    THEN [t EXCEPT !.ratio = pending[s].ratios[t.id]]
    ELSE t

RatiosWritten(s) ==
    IF pc[s] = "commit" /\ order[s].kind \in Adjusting
    THEN \A t \in transactions :
            Rewritten(s, t) =
               [t EXCEPT !.ratio = CumulativeRatio(t.date, VisibleSplits(s))]
    ELSE DOMAIN pending[s].ratios = {}

Underway(s) ==
    /\ OrderFits(s)
    /\ Written(s)
    /\ SaleCovered(s)
    /\ HoldingComputed(s)
    /\ SplitsRead(s)
    /\ RatiosWritten(s)

-----------------------------------------------------------------------------

\* An id is one trade, and the request that recorded it is over.
TradesDistinct ==
    /\ \A t1, t2 \in transactions : t1.id = t2.id => t1 = t2
    /\ \A t \in transactions :
          IsTrade(t) /\ (t.id \in Requests => pc[t.id] = "done")

\* The dividends the row has stored are those of their table.
DividendsAgree ==
    holding # NoHolding => holding.dividend = TotalDividend(dividends)

\* An object is of a row that is there, unless the session's own trade makes
\* the row; a split operation has none.
ObjectsFound ==
    \A s \in Sessions :
       /\ pc[s] \in Unloaded \cup {"done"} => object[s] = NoHolding
       /\ IsOpen(s) /\ order[s].kind \in Adjusting => object[s] = NoHolding
       /\ IsOpen(s) /\ order[s].kind \notin Trading
             /\ object[s] # NoHolding => holding # NoHolding

LedgerInv ==
    /\ \A s \in Sessions : IsOpen(s) => Underway(s)
    /\ \A s \in Sessions : ~IsOpen(s) => pending[s] = NothingPending
    /\ TradesDistinct
    /\ DividendsAgree

-----------------------------------------------------------------------------
(* The aggregates.                                                         *)

\* The sum over no rows: the recursion of MapThenFoldSet has a solution on the
\* subsets of {}, and each solution is 0 there.
LEMMA EmptyTotal == TotalDividend({}) = 0
<1> DEFINE Sums(g) ==
             g = [s \in SUBSET {} |->
                    IF s = {} THEN 0
                    ELSE LET x == CHOOSE x \in s : TRUE
                         IN  x.amount + g[s \ {x}]]
           iter == CHOOSE g : Sums(g)
<1>1. Sums([s \in SUBSET {} |-> 0])
  OBVIOUS
<1>2. ASSUME NEW g, Sums(g) PROVE g[{}] = 0
  BY <1>2
<1>3. TotalDividend({}) = OrZero(iter[{}])
  BY Zenon DEF TotalDividend, MapThenSumSet, MapThenFoldSet
<1> HIDE DEF Sums
<1>4. Sums(iter)
  BY <1>1
<1> QED
  BY <1>2, <1>3, <1>4 DEF OrZero

\* The ledger's aggregates are the handlers'.
LEMMA SameSums ==
    ASSUME NEW T
    PROVE  /\ Ledger!BuyQuantity(T) = BuyQuantity(T)
           /\ Ledger!BuyCost(T) = BuyCost(T)
           /\ Ledger!SellQuantity(T) = SellQuantity(T)
           /\ Ledger!RealizedPl(T) = RealizedPl(T)
           /\ Ledger!TotalDividend(T) = TotalDividend(T)
<1> USE DEF Ledger!OrZero, OrZero, Ledger!MapThenSumSet, MapThenSumSet,
            Ledger!MapThenFoldSet, MapThenFoldSet
<1>1. Ledger!BuyQuantity(T) = BuyQuantity(T)
  BY Zenon DEF Ledger!BuyQuantity, BuyQuantity, Ledger!Buys, Buys,
               Ledger!AdjustedQuantity, AdjustedQuantity
<1>2. Ledger!BuyCost(T) = BuyCost(T)
  BY Zenon DEF Ledger!BuyCost, BuyCost, Ledger!Buys, Buys, Ledger!Cost, Cost
<1>3. Ledger!SellQuantity(T) = SellQuantity(T)
  BY Zenon DEF Ledger!SellQuantity, SellQuantity, Ledger!Sells, Sells,
               Ledger!AdjustedQuantity, AdjustedQuantity
<1>4. Ledger!RealizedPl(T) = RealizedPl(T)
  BY Zenon DEF Ledger!RealizedPl, RealizedPl, Ledger!Sells, Sells
<1>5. Ledger!TotalDividend(T) = TotalDividend(T)
  BY Zenon DEF Ledger!TotalDividend, TotalDividend
<1> QED
  BY <1>1, <1>2, <1>3, <1>4, <1>5

LEMMA SameAggregates ==
    ASSUME NEW T, NEW D
    PROVE  /\ Ledger!HeldQuantity(T) = HeldQuantity(T)
           /\ Ledger!AverageCost(T) = AverageCost(T)
           /\ Ledger!SummaryOf(T, D) = Aggregates(T, D)
<1>1. /\ Ledger!HeldQuantity(T) = HeldQuantity(T)
      /\ Ledger!AverageCost(T) = AverageCost(T)
  BY SameSums DEF Ledger!HeldQuantity, HeldQuantity, Ledger!AverageCost,
                  AverageCost, Ledger!Average, Average
<1>2. Ledger!HeldCost(T) = HeldCost(T)
  BY <1>1 DEF Ledger!HeldCost, HeldCost
<1> QED
  BY <1>1, <1>2, SameSums DEF Ledger!SummaryOf, Aggregates

LEMMA SameRatios ==
    ASSUME NEW T, NEW S
    PROVE  Ledger!Readjusted(T, S) = Readjusted(T, S)
  BY Zenon DEF Ledger!Readjusted, Readjusted, Ledger!CumulativeRatio,
               CumulativeRatio, Ledger!MapThenFoldSet, MapThenFoldSet

\* A summary is never taken for an absent row.
LEMMA AggregatesPresent ==
    ASSUME NEW T, NEW D
    PROVE  Aggregates(T, D) # NoHolding
<1>1. /\ HeldQuantity(T) \in Int /\ AverageCost(T) \in Int
      /\ RealizedPl(T) \in Int /\ TotalDividend(D) \in Int
  BY AggregatesAreIntegers, AverageIsInteger DEF HeldQuantity, AverageCost
<1>2. HeldCost(T) \in Int
  BY <1>1 DEF HeldCost
<1>3. Aggregates(T, D)
         \in [{"quantity", "cost", "realized", "dividend"} -> Int]
  BY <1>1, <1>2 DEF Aggregates
<1> QED
  BY <1>3, NoHoldingAssumption

LEMMA SummaryPresent ==
    ASSUME NEW row \in Rows
    PROVE  Summary(row) = NoHolding <=> row = NoHolding
<1>1. ASSUME row # NoHolding PROVE Summary(row) # NoHolding
  <2>1. Summary(row) \in [{"quantity", "cost", "realized", "dividend"} -> Int]
    BY <1>1 DEF Summary, Rows, Columns
  <2> QED
    BY <2>1, NoHoldingAssumption
<1> QED
  BY <1>1 DEF Summary

-----------------------------------------------------------------------------
(* Statements keep LedgerInv.                                              *)

LEMMA LedgerInit == Init => LedgerInv
<1> SUFFICES ASSUME Init PROVE LedgerInv
  OBVIOUS
<1>1. \A s \in Sessions : ~IsOpen(s) /\ pending[s] = NothingPending
  BY DEF Init, DatabaseInit, IsOpen
<1>2. TradesDistinct
  BY OpeningsAssumption DEF Init, DatabaseInit, TradesDistinct
<1>3. DividendsAgree
  <2> SUFFICES ASSUME holding # NoHolding
               PROVE  holding.dividend = TotalDividend(dividends)
    BY DEF DividendsAgree
  <2>1. holding = OpeningRow(transactions) /\ dividends = {}
    BY DEF Init, DatabaseInit
  <2>2. OpeningRow(transactions).dividend = 0
    BY DEF OpeningRow, Valued, Columns
  <2> QED
    BY <2>1, <2>2, EmptyTotal
<1> QED
  BY <1>1, <1>2, <1>3 DEF LedgerInv

\* What a statement that goes on changes besides its own session.
LEMMA StepFrame ==
    ASSUME TypeInv, SerialInv, LedgerInv, NEW s \in Sessions, NEW at,
           NEW next, Step(s, at, next), at \notin {"idle", "done"}
    PROVE  /\ pc[s] = at /\ pc'[s] = next
           /\ \A t \in Sessions \ {s} : pc'[t] = pc[t] /\ ~IsOpen(t)
           /\ IsOpen(s) /\ Underway(s)
           /\ order'[s] = order[s]
           /\ UNCHANGED <<transactions, dividends, splits, holding>>
<1>1. IsOpen(s)
  BY DEF Step, IsOpen
<1> QED
  BY <1>1, OthersIdle DEF Step, tables, TypeInv, TypeOK, LedgerInv

LEMMA StepKeepsLedger ==
    ASSUME TypeInv, SerialInv, LedgerInv, NEW s \in Sessions, NEW at,
           NEW next, Step(s, at, next), at \notin {"idle", "done"},
           next \notin {"idle", "done"},
           \A t \in Sessions \ {s} : pending'[t] = pending[t],
           Underway(s)'
    PROVE  LedgerInv'
<1>1. /\ pc[s] = at /\ pc'[s] = next
      /\ \A t \in Sessions \ {s} : pc'[t] = pc[t] /\ ~IsOpen(t)
      /\ UNCHANGED <<transactions, dividends, splits, holding>>
  BY StepFrame
<1>2. \A t \in Sessions : IsOpen(t)' => t = s
  BY <1>1 DEF IsOpen
<1>3. \A t \in Sessions : ~IsOpen(t)' => pending'[t] = NothingPending
  BY <1>1 DEF IsOpen, LedgerInv
<1>4. TradesDistinct'
  <2>1. \A t \in transactions :
           IsTrade(t) /\ (t.id \in Requests => pc[t.id] = "done")
    BY DEF LedgerInv, TradesDistinct
  <2>2. ASSUME NEW t \in transactions, t.id \in Requests
        PROVE  pc'[t.id] = "done"
    BY <1>1, <2>1, <2>2 DEF Sessions
  <2> QED
    BY <1>1, <2>1, <2>2 DEF LedgerInv, TradesDistinct, IsTrade
<1>5. DividendsAgree'
  BY <1>1 DEF LedgerInv, DividendsAgree
<1> QED
  BY <1>2, <1>3, <1>4, <1>5 DEF LedgerInv

\* A statement that writes no row of a table keeps what is written.
LEMMA WrittenStays ==
    ASSUME TypeInv, SerialInv, LedgerInv, NEW s \in Sessions, NEW at,
           NEW next, Step(s, at, next), at \notin {"idle", "done"},
           at \in Unwritten <=> next \in Unwritten,
           pending'[s].transactions = pending[s].transactions,
           pending'[s].dividends = pending[s].dividends,
           pending'[s].splits = pending[s].splits,
           pending'[s].deleted = pending[s].deleted
    PROVE  /\ Written(s)'
           /\ VisibleTransactions(s)' = VisibleTransactions(s)
           /\ VisibleDividends(s)' = VisibleDividends(s)
           /\ VisibleSplits(s)' = VisibleSplits(s)
<1>1. /\ pc[s] = at /\ pc'[s] = next /\ Written(s)
      /\ order'[s] = order[s]
      /\ UNCHANGED <<transactions, dividends, splits, holding>>
  BY StepFrame DEF Underway
<1>2. TradeWritten(s)' /\ DividendWritten(s)'
  BY <1>1 DEF Written, TradeWritten, DividendWritten, RecordedTrade,
              RecordedDividend, TradeRow
<1>3. SplitWritten(s)' /\ SplitDeleted(s)'
  BY <1>1 DEF Written, SplitWritten, SplitDeleted, RecordedSplit, DateTaken
<1>4. /\ VisibleTransactions(s)' = VisibleTransactions(s)
      /\ VisibleDividends(s)' = VisibleDividends(s)
      /\ VisibleSplits(s)' = VisibleSplits(s)
  BY <1>1 DEF VisibleTransactions, VisibleDividends, VisibleSplits
<1> QED
  BY <1>2, <1>3, <1>4 DEF Written

SplitPlaces == {"checkSplit", "insertSplit", "findSplit", "deleteSplit",
                "readSplits", "readTrades", "flushRatios"}

\* A statement of a recording or a refresh, but for what it has computed.
LEMMA HoldingStepKeeps ==
    ASSUME TypeInv, SerialInv, LedgerInv, NEW s \in Sessions, NEW at,
           NEW next, Step(s, at, next),
           at \notin {"idle", "done", "commit"} \cup SplitPlaces,
           next \notin {"idle", "done"} \cup SplitPlaces,
           OnPath(order[s].kind, next),
           Written(s)',
           pending'[s].ratios = pending[s].ratios,
           \A t \in Sessions \ {s} : pending'[t] = pending[t],
           SaleCovered(s)', HoldingComputed(s)'
    PROVE  LedgerInv'
<1>1. /\ pc[s] = at /\ pc'[s] = next /\ Underway(s)
      /\ order'[s] = order[s]
  BY StepFrame
<1>2. OrderFits(s)'
  BY <1>1 DEF Underway, OrderFits
<1>3. SplitsRead(s)'
  BY <1>1 DEF SplitsRead, SplitPlaces
<1>4. order[s].kind \notin Adjusting
  <2>1. at \in Places
    BY <1>1 DEF TypeInv, TypeOK
  <2>2. OnPath(order[s].kind, at)
    BY <1>1 DEF Underway, OrderFits
  <2> QED
    BY <2>1, <2>2
       DEF OnPath, Places, SplitPlaces, Trading, Valuing, Adjusting
<1>5. RatiosWritten(s)'
  BY <1>1, <1>4 DEF Underway, RatiosWritten
<1> QED
  BY <1>2, <1>3, <1>5, StepKeepsLedger DEF Underway

\* The statements up to the registration of a trade.
LEMMA SelectHoldingLedger ==
    ASSUME TypeInv, SerialInv, LedgerInv, NEW s \in Sessions,
           SelectHolding(s)
    PROVE  LedgerInv'
<1> DEFINE next == IF Asked(s) = "sell" THEN "checkBuys" ELSE "register"
<1>1. /\ Step(s, "select", next) /\ UNCHANGED pending
      /\ Asked(s) = "sell" => holding # NoHolding
  BY DEF SelectHolding, Load
<1>2. /\ pc[s] = "select" /\ pc'[s] = next /\ order'[s] = order[s]
      /\ order[s].kind \in Trading /\ UNCHANGED <<transactions, holding>>
  BY <1>1, StepFrame DEF Underway, OrderFits, OnPath
<1>3. next \in {"checkBuys", "register"}
      /\ (next = "checkBuys" <=> order[s].kind = "sell")
  BY DEF Asked
<1> HIDE DEF next
<1>4. Written(s)'
  BY <1>1, <1>3, WrittenStays DEF Unwritten
<1>5. SaleCovered(s)'
  BY <1>1, <1>2, <1>3 DEF SaleCovered, Asked
<1>6. HoldingComputed(s)'
  BY <1>2, <1>3 DEF HoldingComputed
<1>7. OnPath(order[s].kind, next)
  BY <1>2, <1>3 DEF OnPath, Valuing
<1> QED
  BY <1>1, <1>3, <1>4, <1>5, <1>6, <1>7, HoldingStepKeeps DEF SplitPlaces

LEMMA CheckBuysLedger ==
    ASSUME TypeInv, SerialInv, LedgerInv, NEW s \in Sessions, CheckBuys(s)
    PROVE  LedgerInv'
<1>1. /\ Step(s, "checkBuys", "checkSells") /\ UNCHANGED pending
      /\ tally'[s].quantity = BuyQuantity(VisibleTransactions(s))
      /\ tally'[s].cost = BuyCost(VisibleTransactions(s))
  BY DEF CheckBuys, ReadBuys, TypeInv, TypeOK
<1>2. /\ pc[s] = "checkBuys" /\ pc'[s] = "checkSells"
      /\ order'[s] = order[s] /\ order[s].kind = "sell"
      /\ Underway(s) /\ UNCHANGED <<transactions, holding>>
  BY <1>1, StepFrame DEF Underway, OrderFits, OnPath
<1>3. VisibleTransactions(s) = transactions
  BY <1>2 DEF Underway, Written, TradeWritten, Unwritten,
              VisibleTransactions
<1>4. Written(s)'
  BY <1>1, WrittenStays DEF Unwritten
<1>5. SaleCovered(s)'
  BY <1>1, <1>2, <1>3 DEF Underway, SaleCovered
<1>6. HoldingComputed(s)'
  BY <1>2 DEF HoldingComputed
<1>7. OnPath(order[s].kind, "checkSells")
  BY <1>2 DEF OnPath, Valuing
<1> QED
  BY <1>1, <1>4, <1>5, <1>6, <1>7, HoldingStepKeeps DEF SplitPlaces

LEMMA CheckSellsLedger ==
    ASSUME TypeInv, SerialInv, LedgerInv, NEW s \in Sessions, CheckSells(s)
    PROVE  LedgerInv'
<1>1. /\ Step(s, "checkSells", "register") /\ UNCHANGED pending
      /\ Held(s) >= order[s].quantity
      /\ tally'[s].before = AverageHeld(s)
  BY DEF CheckSells, TypeInv, TypeOK
<1>2. /\ pc[s] = "checkSells" /\ pc'[s] = "register"
      /\ order'[s] = order[s] /\ order[s].kind = "sell"
      /\ Underway(s) /\ UNCHANGED <<transactions, holding>>
  BY <1>1, StepFrame DEF Underway, OrderFits, OnPath
<1>3. VisibleTransactions(s) = transactions
  BY <1>2 DEF Underway, Written, TradeWritten, Unwritten,
              VisibleTransactions
<1>4. Written(s)'
  BY <1>1, WrittenStays DEF Unwritten
<1>5. SaleCovered(s)'
  <2>1. /\ tally[s].quantity = BuyQuantity(transactions)
        /\ tally[s].cost = BuyCost(transactions)
        /\ holding # NoHolding
    BY <1>2 DEF Underway, SaleCovered
  <2>2. /\ Held(s) = HeldQuantity(transactions)
        /\ AverageHeld(s) = AverageCost(transactions)
    BY <1>3, <2>1 DEF Held, HeldQuantity, AverageHeld, AverageCost
  <2> QED
    BY <1>1, <1>2, <2>1, <2>2 DEF SaleCovered
<1>6. HoldingComputed(s)'
  BY <1>2 DEF HoldingComputed
<1>7. OnPath(order[s].kind, "register")
  BY <1>2 DEF OnPath, Valuing, Trading
<1> QED
  BY <1>1, <1>4, <1>5, <1>6, <1>7, HoldingStepKeeps DEF SplitPlaces

LEMMA RegisterTradeLedger ==
    ASSUME TypeInv, SerialInv, LedgerInv, NEW s \in Sessions,
           RegisterTrade(s)
    PROVE  LedgerInv'
<1> DEFINE realized == IF order[s].kind = "sell"
                       THEN (order[s].price - tally[s].before)
                               * order[s].quantity
                       ELSE 0
<1>1. /\ Step(s, "register", "sumBuys")
      /\ pending' = [pending EXCEPT
                       ![s].transactions = {TradeRow(s, order[s], realized)}]
  BY DEF RegisterTrade
<1>2. /\ pc[s] = "register" /\ pc'[s] = "sumBuys" /\ order'[s] = order[s]
      /\ order[s].kind \in Trading /\ Underway(s)
      /\ UNCHANGED <<transactions, dividends, splits, holding>>
  BY <1>1, StepFrame DEF Underway, OrderFits, OnPath
<1>3. TradeRow(s, order[s], realized) = RecordedTrade(s)
  BY <1>2 DEF Underway, SaleCovered, RecordedTrade
<1> HIDE DEF realized
<1>4. /\ pending'[s].transactions = {RecordedTrade(s)}
      /\ pending'[s].dividends = pending[s].dividends
      /\ pending'[s].splits = pending[s].splits
      /\ pending'[s].deleted = pending[s].deleted
      /\ pending'[s].ratios = pending[s].ratios
      /\ \A t \in Sessions \ {s} : pending'[t] = pending[t]
  BY <1>1, <1>3 DEF TypeInv, TypeOK, NothingPending
<1>5. RecordedTrade(s)' = RecordedTrade(s)
  BY <1>2 DEF RecordedTrade, TradeRow
<1>6. Written(s)'
  BY <1>2, <1>4, <1>5
     DEF Underway, Written, TradeWritten, DividendWritten, SplitWritten,
         SplitDeleted, Unwritten, Trading
<1>7. SaleCovered(s)'
  BY <1>2 DEF Underway, SaleCovered
<1>8. HoldingComputed(s)'
  BY <1>2 DEF HoldingComputed
<1>9. OnPath(order[s].kind, "sumBuys")
  BY <1>2 DEF OnPath, Valuing
<1> QED
  BY <1>1, <1>4, <1>6, <1>7, <1>8, <1>9, HoldingStepKeeps DEF SplitPlaces

\* The aggregates create_transaction puts into the row are computed again by
\* update_single_holding_pl: nothing depends on them.
LEMMA SumLedger ==
    ASSUME TypeInv, SerialInv, LedgerInv, NEW s \in Sessions,
           SumBuys(s) \/ SumSells(s) \/ SumRealized(s)
    PROVE  LedgerInv'
<1>1. PICK at \in {"sumBuys", "sumSells", "sumRealized"},
           next \in {"sumSells", "sumRealized", "flush"} :
         /\ Step(s, at, next) /\ UNCHANGED pending
         /\ next = "sumRealized" => order[s].kind = "sell"
  BY DEF SumBuys, ReadBuys, SumSells, SumRealized, AssignRealized, Asked
<1>2. /\ pc[s] = at /\ pc'[s] = next /\ order'[s] = order[s]
      /\ Underway(s) /\ UNCHANGED <<transactions, holding>>
  BY <1>1, StepFrame
<1>3. order[s].kind \in Trading
  BY <1>2 DEF Underway, OrderFits, OnPath, Trading
<1>4. Written(s)'
  BY <1>1, WrittenStays DEF Unwritten
<1>5. SaleCovered(s)'
  BY <1>2 DEF Underway, SaleCovered
<1>6. HoldingComputed(s)'
  BY <1>2 DEF HoldingComputed
<1>7. OnPath(order[s].kind, next)
  BY <1>1, <1>3 DEF OnPath, Valuing
<1> QED
  BY <1>1, <1>4, <1>5, <1>6, <1>7, HoldingStepKeeps DEF SplitPlaces

LEMMA RegisterDividendLedger ==
    ASSUME TypeInv, SerialInv, LedgerInv, NEW s \in Sessions,
           RegisterDividend(s)
    PROVE  LedgerInv'
<1>1. /\ Step(s, "registerDividend", "selectForDividend")
      /\ pending' = [pending EXCEPT ![s].dividends = {RecordedDividend(s)}]
  BY DEF RegisterDividend, RecordedDividend
<1>2. /\ pc[s] = "registerDividend" /\ pc'[s] = "selectForDividend"
      /\ order'[s] = order[s] /\ order[s].kind = "dividend" /\ Underway(s)
      /\ UNCHANGED <<transactions, dividends, splits, holding>>
  BY <1>1, StepFrame DEF Underway, OrderFits, OnPath
<1>3. /\ pending'[s].dividends = {RecordedDividend(s)}
      /\ pending'[s].transactions = pending[s].transactions
      /\ pending'[s].splits = pending[s].splits
      /\ pending'[s].deleted = pending[s].deleted
      /\ pending'[s].ratios = pending[s].ratios
      /\ \A t \in Sessions \ {s} : pending'[t] = pending[t]
  BY <1>1 DEF TypeInv, TypeOK, NothingPending
<1>4. RecordedDividend(s)' = RecordedDividend(s)
  BY <1>2 DEF RecordedDividend
<1>5. Written(s)'
  BY <1>2, <1>3, <1>4
     DEF Underway, Written, TradeWritten, DividendWritten, SplitWritten,
         SplitDeleted, Unwritten, Trading
<1>6. SaleCovered(s)' /\ HoldingComputed(s)'
  BY <1>2 DEF SaleCovered, HoldingComputed
<1>7. OnPath(order[s].kind, "selectForDividend")
  BY <1>2 DEF OnPath, Valuing
<1> QED
  BY <1>1, <1>3, <1>5, <1>6, <1>7, HoldingStepKeeps DEF SplitPlaces

LEMMA SelectForDividendLedger ==
    ASSUME TypeInv, SerialInv, LedgerInv, NEW s \in Sessions,
           SelectForDividend(s)
    PROVE  LedgerInv'
<1>1. PICK next \in {"plSelect", "flush"} :
         Step(s, "selectForDividend", next) /\ UNCHANGED pending
  BY DEF SelectForDividend, Load
<1>2. /\ pc[s] = "selectForDividend" /\ pc'[s] = next
      /\ order'[s] = order[s] /\ order[s].kind = "dividend"
  BY <1>1, StepFrame DEF Underway, OrderFits, OnPath
<1>3. Written(s)'
  BY <1>1, WrittenStays DEF Unwritten
<1>4. SaleCovered(s)' /\ HoldingComputed(s)'
  BY <1>2 DEF SaleCovered, HoldingComputed, Trading
<1>5. OnPath(order[s].kind, next)
  BY <1>2 DEF OnPath, Valuing
<1> QED
  BY <1>1, <1>3, <1>4, <1>5, HoldingStepKeeps DEF SplitPlaces

LEMMA FlushHandlerLedger ==
    ASSUME TypeInv, SerialInv, LedgerInv, NEW s \in Sessions,
           FlushHandler(s)
    PROVE  LedgerInv'
<1>1. Flush(s, "flush", "plSelect") /\ Step(s, "flush", "plSelect")
  BY DEF FlushHandler, Flush
<1>2. /\ pc[s] = "flush" /\ pc'[s] = "plSelect" /\ order'[s] = order[s]
      /\ order[s].kind \in Trading \cup {"dividend"} /\ Underway(s)
      /\ UNCHANGED <<transactions, holding>>
  BY <1>1, StepFrame DEF Underway, OrderFits, OnPath
<1>3. object'[s] # NoHolding
  BY <1>1, <1>2, FlushWrites DEF TypeInv, HandlerRows, Handling
<1>4. Written(s)'
  BY <1>1, FlushWrites, WrittenStays DEF Unwritten
<1>5. SaleCovered(s)'
  BY <1>2 DEF Underway, SaleCovered
<1>6. HoldingComputed(s)'
  BY <1>2, <1>3 DEF HoldingComputed
<1>7. OnPath(order[s].kind, "plSelect")
  BY <1>2 DEF OnPath, Valuing
<1> QED
  BY <1>1, <1>4, <1>5, <1>6, <1>7, FlushWrites, HoldingStepKeeps
     DEF SplitPlaces

-----------------------------------------------------------------------------
(* update_single_holding_pl.                                               *)

\* A statement of it, but for what it has computed.
LEMMA PlStepKeeps ==
    ASSUME TypeInv, SerialInv, LedgerInv, NEW s \in Sessions,
           NEW at \in Valuing, NEW next \in Valuing \cup {"commit"},
           Step(s, at, next),
           pending'[s].transactions = pending[s].transactions,
           pending'[s].dividends = pending[s].dividends,
           pending'[s].splits = pending[s].splits,
           pending'[s].deleted = pending[s].deleted,
           pending'[s].ratios = pending[s].ratios,
           \A t \in Sessions \ {s} : pending'[t] = pending[t],
           HoldingComputed(s)'
    PROVE  LedgerInv'
<1> USE DEF Valuing
<1>1. /\ pc[s] = at /\ pc'[s] = next /\ order'[s] = order[s]
      /\ Underway(s) /\ UNCHANGED <<transactions, holding>>
  BY StepFrame
<1>2. OnPath(order[s].kind, next)
  BY <1>1 DEF Underway, OrderFits, OnPath
<1>3. Written(s)'
  BY WrittenStays DEF Unwritten
<1>4. SaleCovered(s)'
  BY <1>1 DEF Underway, SaleCovered
<1> QED
  BY <1>2, <1>3, <1>4, HoldingStepKeeps DEF SplitPlaces

LEMMA PlSelectLedger ==
    ASSUME TypeInv, SerialInv, LedgerInv, NEW s \in Sessions, PlSelect(s)
    PROVE  LedgerInv'
<1>1. PICK next \in {"plBuys", "commit"} :
         /\ Step(s, "plSelect", next) /\ UNCHANGED pending
         /\ next = "commit" =>
              /\ object[s] = NoHolding /\ holding = NoHolding
              /\ loaded' = [loaded EXCEPT ![s] = holding]
  BY DEF PlSelect, Load
<1>2. /\ pc[s] = "plSelect" /\ pc'[s] = next /\ order'[s] = order[s]
      /\ Underway(s) /\ UNCHANGED <<transactions, holding>>
  BY <1>1, StepFrame
<1>3. HoldingComputed(s)'
  BY <1>1, <1>2 DEF Underway, HoldingComputed, TypeInv, TypeOK
<1> QED
  BY <1>1, <1>3, PlStepKeeps DEF Valuing

LEMMA PlBuysLedger ==
    ASSUME TypeInv, SerialInv, LedgerInv, NEW s \in Sessions, PlBuys(s)
    PROVE  LedgerInv'
<1>1. /\ Step(s, "plBuys", "plSells") /\ UNCHANGED pending
      /\ tally'[s].quantity = BuyQuantity(VisibleTransactions(s))
      /\ tally'[s].cost = BuyCost(VisibleTransactions(s))
  BY DEF PlBuys, ReadBuys, TypeInv, TypeOK
<1>2. pc'[s] = "plSells"
  BY <1>1, StepFrame
<1>3. VisibleTransactions(s)' = VisibleTransactions(s)
  BY <1>1, WrittenStays DEF Unwritten
<1>4. HoldingComputed(s)'
  BY <1>1, <1>2, <1>3 DEF HoldingComputed
<1> QED
  BY <1>1, <1>4, PlStepKeeps DEF Valuing

LEMMA PlSellsLedger ==
    ASSUME TypeInv, SerialInv, LedgerInv, NEW s \in Sessions, PlSells(s)
    PROVE  LedgerInv'
<1> DEFINE o == IF object[s] = NoHolding THEN NewHolding ELSE object[s]
           T == VisibleTransactions(s)
<1>1. /\ Step(s, "plSells", "plRealized") /\ UNCHANGED pending
      /\ object' = [object EXCEPT
                      ![s] = [o EXCEPT !.quantity = Held(s),
                                       !.average = AverageHeld(s),
                                       !.cost = Held(s) * AverageHeld(s)]]
  BY DEF PlSells, AssignHeld
<1>2. /\ pc[s] = "plSells" /\ pc'[s] = "plRealized" /\ Underway(s)
  BY <1>1, StepFrame
<1>3. /\ tally[s].quantity = BuyQuantity(T) /\ tally[s].cost = BuyCost(T)
  BY <1>2 DEF Underway, HoldingComputed
<1>4. Held(s) = HeldQuantity(T) /\ AverageHeld(s) = AverageCost(T)
  BY <1>3 DEF Held, HeldQuantity, AverageHeld, AverageCost
<1>5. o \in [Columns -> Int]
  BY DEF TypeInv, TypeOK, Rows, NewHolding
<1> HIDE DEF o
<1>6. /\ object'[s].quantity = Held(s)
      /\ object'[s].cost = Held(s) * AverageHeld(s)
  BY <1>1, <1>5 DEF TypeInv, TypeOK, Columns
<1>7. VisibleTransactions(s)' = T
  BY <1>1, WrittenStays DEF Unwritten
<1> HIDE DEF T
<1>8. object'[s].quantity = HeldQuantity(T) /\ object'[s].cost = HeldCost(T)
  BY <1>4, <1>6 DEF HeldCost
<1>9. HoldingComputed(s)'
  BY <1>2, <1>7, <1>8 DEF HoldingComputed
<1> QED
  BY <1>1, <1>9, PlStepKeeps DEF Valuing

LEMMA PlRealizedLedger ==
    ASSUME TypeInv, SerialInv, LedgerInv, NEW s \in Sessions, PlRealized(s)
    PROVE  LedgerInv'
<1> DEFINE T == VisibleTransactions(s)
<1>1. /\ Step(s, "plRealized", "plDividend") /\ UNCHANGED pending
      /\ object' = [object EXCEPT ![s].realized = RealizedPl(T)]
  BY DEF PlRealized, AssignRealized
<1>2. /\ pc[s] = "plRealized" /\ pc'[s] = "plDividend" /\ Underway(s)
  BY <1>1, StepFrame
<1>3. object[s] \in [Columns -> Int]
  BY <1>2 DEF TypeInv, TypeOK, HandlerRows, Rows, Handling
<1>4. VisibleTransactions(s)' = T
  BY <1>1, WrittenStays DEF Unwritten
<1>5. /\ object[s].quantity = HeldQuantity(T)
      /\ object[s].cost = HeldCost(T)
  BY <1>2 DEF Underway, HoldingComputed
<1> HIDE DEF T
<1>6. /\ object'[s].realized = RealizedPl(T)
      /\ object'[s].quantity = object[s].quantity
      /\ object'[s].cost = object[s].cost
  BY <1>1, <1>3 DEF TypeInv, TypeOK, Columns
<1>7. HoldingComputed(s)'
  BY <1>2, <1>4, <1>5, <1>6 DEF HoldingComputed
<1> QED
  BY <1>1, <1>7, PlStepKeeps DEF Valuing

LEMMA PlDividendLedger ==
    ASSUME TypeInv, SerialInv, LedgerInv, NEW s \in Sessions, PlDividend(s)
    PROVE  LedgerInv'
<1> DEFINE T == VisibleTransactions(s)
           D == VisibleDividends(s)
<1>1. /\ Step(s, "plDividend", "plPrice") /\ UNCHANGED pending
      /\ object' = [object EXCEPT ![s].dividend = TotalDividend(D)]
  BY DEF PlDividend
<1>2. /\ pc[s] = "plDividend" /\ pc'[s] = "plPrice" /\ Underway(s)
  BY <1>1, StepFrame
<1>3. object[s] \in [Columns -> Int]
  BY <1>2 DEF TypeInv, TypeOK, HandlerRows, Rows, Handling
<1>4. VisibleTransactions(s)' = T /\ VisibleDividends(s)' = D
  BY <1>1, WrittenStays DEF Unwritten
<1>5. /\ object[s].quantity = HeldQuantity(T)
      /\ object[s].cost = HeldCost(T)
      /\ object[s].realized = RealizedPl(T)
  BY <1>2 DEF Underway, HoldingComputed
<1> HIDE DEF T, D
<1>6. /\ object'[s].dividend = TotalDividend(D)
      /\ object'[s].quantity = object[s].quantity
      /\ object'[s].cost = object[s].cost
      /\ object'[s].realized = object[s].realized
  BY <1>1, <1>3 DEF TypeInv, TypeOK, Columns
<1>7. HoldingComputed(s)'
  BY <1>2, <1>4, <1>5, <1>6 DEF HoldingComputed
<1> QED
  BY <1>1, <1>7, PlStepKeeps DEF Valuing

LEMMA PlPriceLedger ==
    ASSUME TypeInv, SerialInv, LedgerInv, NEW s \in Sessions, PlPrice(s)
    PROVE  LedgerInv'
<1>1. Step(s, "plPrice", "plFlush") /\ UNCHANGED pending
  BY DEF PlPrice
<1>2. /\ pc[s] = "plPrice" /\ pc'[s] = "plFlush" /\ Underway(s)
  BY <1>1, StepFrame
<1>3. object[s] \in [Columns -> Int]
  BY <1>2 DEF TypeInv, TypeOK, HandlerRows, Rows, Handling
<1>4. PICK p \in Prices \cup {0} :
         object' = [object EXCEPT ![s] = Valued(Priced(object[s], p))]
  BY DEF PlPrice
<1>5. /\ VisibleTransactions(s)' = VisibleTransactions(s)
      /\ VisibleDividends(s)' = VisibleDividends(s)
  BY <1>1, WrittenStays DEF Unwritten
<1>6. /\ object'[s].quantity = object[s].quantity
      /\ object'[s].cost = object[s].cost
      /\ object'[s].realized = object[s].realized
      /\ object'[s].dividend = object[s].dividend
  <2>1. object'[s] = Valued(Priced(object[s], p))
    BY <1>4 DEF TypeInv, TypeOK
  <2>2. ASSUME NEW c \in {"quantity", "cost", "realized", "dividend"}
        PROVE  Valued(Priced(object[s], p))[c] = object[s][c]
    BY <1>3 DEF Valued, Priced, Columns
  <2> QED
    BY <2>1, <2>2
<1>7. HoldingComputed(s)'
  BY <1>2, <1>5, <1>6 DEF Underway, HoldingComputed
<1> QED
  BY <1>1, <1>7, PlStepKeeps DEF Valuing

LEMMA PlFlushLedger ==
    ASSUME TypeInv, SerialInv, LedgerInv, NEW s \in Sessions, PlFlush(s)
    PROVE  LedgerInv'
<1>1. Flush(s, "plFlush", "commit") /\ Step(s, "plFlush", "commit")
  BY DEF PlFlush, Flush
<1>2. /\ pc[s] = "plFlush" /\ pc'[s] = "commit" /\ Underway(s)
  BY <1>1, StepFrame
<1>3. object[s] # NoHolding
  BY <1>2 DEF TypeInv, HandlerRows, Handling
<1>4. /\ VisibleTransactions(s)' = VisibleTransactions(s)
      /\ VisibleDividends(s)' = VisibleDividends(s)
  BY <1>1, FlushWrites, WrittenStays DEF Unwritten
<1>5. Summary(object[s])
         = Aggregates(VisibleTransactions(s), VisibleDividends(s))
  BY <1>2, <1>3 DEF Underway, HoldingComputed, Summary, Aggregates
<1>6. loaded'[s] = object[s]
  BY <1>1, FlushWrites
<1>7. Summary(loaded[s])' = Summary(object[s])
  BY <1>6 DEF Summary
<1>8. Aggregates(VisibleTransactions(s), VisibleDividends(s))'
         = Aggregates(VisibleTransactions(s), VisibleDividends(s))
  BY <1>4
<1>9. HoldingComputed(s)'
  BY <1>2, <1>3, <1>5, <1>6, <1>7, <1>8 DEF HoldingComputed
<1> QED
  BY <1>1, <1>9, FlushWrites, PlStepKeeps DEF Valuing

-----------------------------------------------------------------------------
(* StockSplitService.                                                      *)

\* A statement of it, but for what it has written and read.
LEMMA SplitStepKeeps ==
    ASSUME TypeInv, SerialInv, LedgerInv, NEW s \in Sessions,
           NEW at \in SplitPlaces, NEW next \in SplitPlaces \cup {"commit"},
           Step(s, at, next), UNCHANGED holdingVars,
           OnPath(order[s].kind, next),
           next = "commit" => order[s].kind \in Adjusting,
           Written(s)', SplitsRead(s)', RatiosWritten(s)',
           \A t \in Sessions \ {s} : pending'[t] = pending[t]
    PROVE  LedgerInv'
<1> USE DEF SplitPlaces
<1>1. /\ pc[s] = at /\ pc'[s] = next /\ order'[s] = order[s] /\ Underway(s)
  BY StepFrame
<1>2. OrderFits(s)'
  BY <1>1 DEF Underway, OrderFits
<1>3. order[s].kind \in Adjusting
  BY <1>1 DEF Underway, OrderFits, OnPath, Adjusting
<1>4. SaleCovered(s)' /\ HoldingComputed(s)'
  BY <1>1, <1>3 DEF SaleCovered, HoldingComputed, Adjusting
<1> QED
  BY <1>2, <1>4, StepKeepsLedger DEF Underway

\* The checks, which write nothing.
LEMMA SplitCheckLedger ==
    ASSUME TypeInv, SerialInv, LedgerInv, ReadsKept, NEW s \in Sessions,
           EnsureNotDuplicated(s) \/ FindSplit(s), UNCHANGED holdingVars
    PROVE  LedgerInv'
<1>1. PICK at \in {"checkSplit", "findSplit"},
           next \in {"insertSplit", "deleteSplit"} :
         /\ Step(s, at, next) /\ UNCHANGED pending
         /\ at = "checkSplit" <=> next = "insertSplit"
         /\ next = "deleteSplit" =>
               \E sp \in splits : readSplits' = [readSplits EXCEPT ![s] = {sp}]
  BY DEF EnsureNotDuplicated, FindSplit
<1>2. /\ pc[s] = at /\ pc'[s] = next /\ order'[s] = order[s] /\ Underway(s)
      /\ UNCHANGED splits
  BY <1>1, StepFrame
<1>3. Written(s)'
  BY <1>1, WrittenStays DEF Unwritten
<1>4. SplitsRead(s)'
  BY <1>1, <1>2 DEF ReadsKept, SplitsRead
<1>5. RatiosWritten(s)'
  BY <1>1, <1>2 DEF Underway, RatiosWritten
<1>6. OnPath(order[s].kind, next)
  BY <1>1, <1>2 DEF Underway, OrderFits, OnPath, Valuing
<1> QED
  BY <1>1, <1>3, <1>4, <1>5, <1>6, SplitStepKeeps DEF SplitPlaces


\* The rows of stock_splits it writes.
LEMMA SplitWriteLedger ==
    ASSUME TypeInv, SerialInv, LedgerInv, ReadsKept, NEW s \in Sessions,
           InsertSplit(s) \/ DeleteSplit(s), UNCHANGED holdingVars
    PROVE  LedgerInv'
<1>1. CASE InsertSplit(s)
  <2>1. /\ Step(s, "insertSplit", "readSplits") /\ ~DateTaken(s)
        /\ pending' = [pending EXCEPT ![s].splits = {RecordedSplit(s)}]
    BY <1>1 DEF InsertSplit, RecordedSplit
  <2>2. /\ pc[s] = "insertSplit" /\ pc'[s] = "readSplits"
        /\ order'[s] = order[s] /\ Underway(s) /\ order[s].kind = "split"
        /\ UNCHANGED <<transactions, dividends, splits, holding>>
    BY <2>1, StepFrame DEF Underway, OrderFits, OnPath
  <2>3. /\ pending'[s].splits = {RecordedSplit(s)}
        /\ pending'[s].transactions = pending[s].transactions
        /\ pending'[s].dividends = pending[s].dividends
        /\ pending'[s].deleted = pending[s].deleted
        /\ pending'[s].ratios = pending[s].ratios
        /\ \A t \in Sessions \ {s} : pending'[t] = pending[t]
    BY <2>1 DEF TypeInv, TypeOK, NothingPending
  <2>4. /\ RecordedSplit(s)' = RecordedSplit(s)
        /\ DateTaken(s)' = DateTaken(s)
    BY <2>2 DEF RecordedSplit, DateTaken
  <2>5. Written(s)'
    BY <2>1, <2>2, <2>3, <2>4
       DEF Underway, Written, TradeWritten, DividendWritten, SplitWritten,
           SplitDeleted, Unwritten, Trading
  <2>6. SplitsRead(s)' /\ RatiosWritten(s)'
    BY <2>2, <2>3 DEF Underway, SplitsRead, RatiosWritten
  <2>7. OnPath(order[s].kind, "readSplits")
    BY <2>2 DEF OnPath, Adjusting, Valuing
  <2> QED
    BY <2>1, <2>3, <2>5, <2>6, <2>7, SplitStepKeeps DEF SplitPlaces
<1>2. CASE DeleteSplit(s)
  <2>1. /\ Step(s, "deleteSplit", "readSplits")
        /\ pending' = [pending EXCEPT ![s].deleted = readSplits[s]]
    BY <1>2 DEF DeleteSplit
  <2>2. /\ pc[s] = "deleteSplit" /\ pc'[s] = "readSplits"
        /\ order'[s] = order[s] /\ Underway(s) /\ order[s].kind = "unsplit"
        /\ UNCHANGED <<transactions, dividends, splits, holding>>
    BY <2>1, StepFrame DEF Underway, OrderFits, OnPath
  <2>3. PICK sp \in splits : readSplits[s] = {sp}
    BY <2>2 DEF Underway, SplitsRead
  <2>4. /\ pending'[s].deleted = {sp}
        /\ pending'[s].transactions = pending[s].transactions
        /\ pending'[s].dividends = pending[s].dividends
        /\ pending'[s].splits = pending[s].splits
        /\ pending'[s].ratios = pending[s].ratios
        /\ \A t \in Sessions \ {s} : pending'[t] = pending[t]
    BY <2>1, <2>3 DEF TypeInv, TypeOK, NothingPending
  <2>5. Written(s)'
    BY <2>2, <2>4
       DEF Underway, Written, TradeWritten, DividendWritten, SplitWritten,
           SplitDeleted, Unwritten, Trading
  <2>6. SplitsRead(s)' /\ RatiosWritten(s)'
    BY <2>2, <2>4 DEF Underway, SplitsRead, RatiosWritten
  <2>7. OnPath(order[s].kind, "readSplits")
    BY <2>2 DEF OnPath, Adjusting, Valuing
  <2> QED
    BY <2>1, <2>4, <2>5, <2>6, <2>7, SplitStepKeeps DEF SplitPlaces
<1> QED
  BY <1>1, <1>2

\* recalculate_adjusted_values reads the splits and then the trades.
LEMMA SplitReadLedger ==
    ASSUME TypeInv, SerialInv, LedgerInv, ReadsKept, NEW s \in Sessions,
           ReadSplits(s) \/ ReadTrades(s), UNCHANGED holdingVars
    PROVE  LedgerInv'
<1>1. PICK at \in {"readSplits", "readTrades"},
           next \in {"readTrades", "flushRatios"} :
         /\ Step(s, at, next) /\ UNCHANGED pending
         /\ next = "readTrades" =>
              readSplits' = [readSplits EXCEPT ![s] = VisibleSplits(s)]
         /\ next = "flushRatios" =>
              /\ at = "readTrades" /\ UNCHANGED readSplits
              /\ readTrades' = [readTrades EXCEPT ![s] = VisibleTransactions(s)]
  BY DEF ReadSplits, ReadTrades
<1>2. /\ pc[s] = at /\ pc'[s] = next /\ order'[s] = order[s] /\ Underway(s)
      /\ UNCHANGED transactions
  BY <1>1, StepFrame
<1>3. order[s].kind \in Adjusting
  BY <1>2 DEF Underway, OrderFits, OnPath, Adjusting
<1>4. /\ Written(s)' /\ VisibleSplits(s)' = VisibleSplits(s)
  BY <1>1, WrittenStays DEF Unwritten
<1>5. VisibleTransactions(s) = transactions
  BY <1>2, <1>3
     DEF Underway, Written, TradeWritten, VisibleTransactions, Trading,
         Adjusting
<1>6. SplitsRead(s)'
  BY <1>1, <1>2, <1>4, <1>5 DEF Underway, ReadsKept, SplitsRead
<1>7. RatiosWritten(s)'
  BY <1>1, <1>2 DEF Underway, RatiosWritten
<1>8. OnPath(order[s].kind, next)
  BY <1>1, <1>3 DEF OnPath, Valuing
<1> QED
  BY <1>1, <1>4, <1>6, <1>7, <1>8, SplitStepKeeps DEF SplitPlaces

\* Ids tell trades apart, so that the trade an UPDATE finds under an id is the
\* one the loop has changed.
LEMMA FlushRatiosLedger ==
    ASSUME TypeInv, SerialInv, LedgerInv, ReadsKept, NEW s \in Sessions,
           FlushRatios(s), UNCHANGED holdingVars
    PROVE  LedgerInv'
<1> DEFINE new(t) == CumulativeRatio(t.date, readSplits[s])
           dirty == {t \in readTrades[s] : t.ratio # new(t)}
           ids == {t.id : t \in dirty}
           ratios == [id \in ids |-> new(CHOOSE t \in dirty : t.id = id)]
<1>1. /\ Step(s, "flushRatios", "commit")
      /\ pending' = [pending EXCEPT ![s].ratios = ratios]
  BY DEF FlushRatios
<1>2. /\ pc[s] = "flushRatios" /\ pc'[s] = "commit"
      /\ order'[s] = order[s] /\ Underway(s) /\ order[s].kind \in Adjusting
      /\ UNCHANGED <<transactions, dividends, splits, holding>>
  BY <1>1, StepFrame DEF Underway, OrderFits, OnPath
<1>3. readTrades[s] = transactions /\ readSplits[s] = VisibleSplits(s)
  BY <1>2 DEF Underway, SplitsRead
<1>4. ASSUME NEW t \in transactions
      PROVE  (IF t.id \in ids THEN [t EXCEPT !.ratio = ratios[t.id]] ELSE t)
                = [t EXCEPT !.ratio = new(t)]
  <2>1. ASSUME NEW u \in transactions, u.id = t.id PROVE u = t
    BY <2>1 DEF LedgerInv, TradesDistinct
  <2>2. CASE t \in dirty
    <3>1. (CHOOSE u \in dirty : u.id = t.id) = t
      BY <1>3, <2>1, <2>2
    <3>2. t.id \in ids
      BY <2>2
    <3> QED
      BY <3>1, <3>2
  <2>3. CASE t \notin dirty
    <3>1. t.id \notin ids
      BY <1>3, <2>1, <2>3
    <3>2. t.ratio = new(t)
      BY <1>3, <2>3
    <3>3. [t EXCEPT !.ratio = t.ratio] = t
      BY DEF LedgerInv, TradesDistinct, IsTrade
    <3> HIDE DEF new
    <3> QED
      BY <3>1, <3>2, <3>3
  <2> QED
    BY <2>2, <2>3
<1>5. DOMAIN ratios = ids
  OBVIOUS
<1> HIDE DEF ratios, ids
<1>6. /\ pending'[s].ratios = ratios
      /\ pending'[s].transactions = pending[s].transactions
      /\ pending'[s].dividends = pending[s].dividends
      /\ pending'[s].splits = pending[s].splits
      /\ pending'[s].deleted = pending[s].deleted
      /\ \A t \in Sessions \ {s} : pending'[t] = pending[t]
  BY <1>1 DEF TypeInv, TypeOK, NothingPending
<1>7. /\ Written(s)' /\ VisibleSplits(s)' = VisibleSplits(s)
  BY <1>1, <1>6, WrittenStays DEF Unwritten
<1>8. SplitsRead(s)'
  BY <1>2 DEF SplitsRead
<1>9. RatiosWritten(s)'
  <2>1. ASSUME NEW t \in transactions
        PROVE  Rewritten(s, t)' =
                  [t EXCEPT !.ratio = CumulativeRatio(t.date, VisibleSplits(s)')]
    BY <1>3, <1>4, <1>5, <1>6, <1>7 DEF Rewritten
  <2> QED
    BY <1>2, <2>1 DEF RatiosWritten
<1>10. OnPath(order[s].kind, "commit")
  BY DEF OnPath, Valuing
<1> QED
  BY <1>1, <1>2, <1>6, <1>7, <1>8, <1>9, <1>10, SplitStepKeeps DEF SplitPlaces

-----------------------------------------------------------------------------
(* The end and the beginning of a session.                                 *)

LEMMA CloseKeepsLedger ==
    ASSUME TypeInv, SerialInv, LedgerInv, NEW s \in Sessions, IsOpen(s),
           Close(s), TradesDistinct', DividendsAgree'
    PROVE  LedgerInv'
<1>1. /\ pc'[s] \in {"idle", "done"}
      /\ \A t \in Sessions \ {s} : pc'[t] = pc[t]
      /\ pending'[s] = NothingPending
      /\ \A t \in Sessions \ {s} : pending'[t] = pending[t]
  BY DEF Close, TypeInv, TypeOK
<1>2. \A t \in Sessions : ~IsOpen(t)'
  BY <1>1, OthersIdle DEF IsOpen
<1>3. \A t \in Sessions : pending'[t] = NothingPending
  BY <1>1, OthersIdle DEF LedgerInv
<1> QED
  BY <1>2, <1>3 DEF LedgerInv

\* Of an open session no trade is recorded, and ending it forgets none.
LEMMA RecordedIsDone ==
    ASSUME TypeInv, LedgerInv, NEW s \in Sessions, IsOpen(s),
           NEW t \in transactions
    PROVE  s \in Requests => t.id # s
  BY DEF LedgerInv, TradesDistinct, IsOpen

LEMMA RollbackKeepsLedger ==
    ASSUME TypeInv, SerialInv, LedgerInv, NEW s \in Sessions, IsOpen(s),
           RollbackWrites(s)
    PROVE  LedgerInv'
<1>1. /\ Close(s) /\ UNCHANGED <<transactions, dividends, splits, holding>>
  BY DEF RollbackWrites, tables
<1>2. ASSUME NEW t \in transactions, t.id \in Requests
      PROVE  pc'[t.id] = "done"
  <2>1. pc[t.id] = "done" /\ t.id # s
    BY <1>2, RecordedIsDone DEF LedgerInv, TradesDistinct
  <2> QED
    BY <1>1, <1>2, <2>1 DEF Close, TypeInv, TypeOK, Sessions
<1>3. TradesDistinct'
  BY <1>1, <1>2 DEF LedgerInv, TradesDistinct, IsTrade
<1>4. DividendsAgree'
  BY <1>1 DEF LedgerInv, DividendsAgree
<1> QED
  BY <1>1, <1>3, <1>4, CloseKeepsLedger

\* A request arrives when no other is open.
LEMMA BeginKeepsLedger ==
    ASSUME ~Overlap, TypeInv, SerialInv, LedgerInv, NEW s \in Sessions,
           NEW o \in Orders \cup {RefreshOrder}, Begin(s, o),
           s \in Jobs => o = RefreshOrder
    PROVE  LedgerInv'
<1>1. /\ pc[s] = "idle" /\ \A t \in Sessions : ~IsOpen(t)
  BY DEF Begin, MayBegin
<1>2. /\ pc'[s] = Entry(o.kind) /\ \A t \in Sessions \ {s} : pc'[t] = pc[t]
      /\ order'[s] = o
      /\ UNCHANGED <<transactions, dividends, splits, holding, pending>>
  BY DEF Begin, tables, TypeInv, TypeOK
<1>3. o.kind \in Kinds
  BY OrdersAssumption DEF RefreshOrder, OrderRecords, Kinds
<1>4. pending[s] = NothingPending
  BY <1>1 DEF LedgerInv
<1>5. OrderFits(s)'
  BY <1>2, <1>3
     DEF OrderFits, OnPath, Entry, Kinds, Trading, Valuing, Adjusting
<1>6. Written(s)'
  BY <1>2, <1>3, <1>4
     DEF Written, TradeWritten, DividendWritten, SplitWritten, SplitDeleted,
         Entry, Kinds, Unwritten, Trading, NothingPending
<1>7. SaleCovered(s)' /\ HoldingComputed(s)'
  BY <1>2, <1>3 DEF SaleCovered, HoldingComputed, Entry, Kinds, Trading
<1>8. SplitsRead(s)' /\ RatiosWritten(s)'
  BY <1>2, <1>3, <1>4
     DEF SplitsRead, RatiosWritten, Entry, Kinds, NothingPending
<1>9. Underway(s)'
  BY <1>5, <1>6, <1>7, <1>8 DEF Underway
<1>10. TradesDistinct'
  <2>1. ASSUME NEW t \in transactions, t.id \in Requests
        PROVE  pc'[t.id] = "done"
    BY <1>1, <1>2, <2>1 DEF LedgerInv, TradesDistinct, Sessions
  <2> QED
    BY <1>2, <2>1 DEF LedgerInv, TradesDistinct, IsTrade
<1>11. DividendsAgree'
  BY <1>2 DEF LedgerInv, DividendsAgree
<1>12. \A t \in Sessions : IsOpen(t)' => t = s
  BY <1>1, <1>2 DEF IsOpen
<1>13. Entry(o.kind) \notin {"idle", "done"}
  BY <1>3 DEF Entry, Kinds
<1>14. \A t \in Sessions : ~IsOpen(t)' => pending'[t] = NothingPending
  BY <1>1, <1>2 DEF LedgerInv
<1> QED
  BY <1>9, <1>10, <1>11, <1>12, <1>14 DEF LedgerInv

-----------------------------------------------------------------------------
(* The objects of the sessions.                                            *)

LEMMA ObjectsFoundInit == Init => ObjectsFound
  BY DEF Init, DatabaseInit, HoldingInit, ObjectsFound, IsOpen

\* A statement after which the session has an object only if it had one, or if
\* there is a row, or if it has recorded a trade.
LEMMA StepKeepsObjects ==
    ASSUME TypeInv, SerialInv, LedgerInv, ObjectsFound, NEW s \in Sessions,
           NEW at, NEW next, Step(s, at, next), at \notin {"idle", "done"},
           \A t \in Sessions \ {s} : object'[t] = object[t],
           next \in Unloaded \cup {"done"} => object'[s] = NoHolding,
           order[s].kind \in Adjusting => object'[s] = NoHolding,
           order[s].kind \notin Trading /\ object'[s] # NoHolding
              => holding # NoHolding
    PROVE  ObjectsFound'
<1>1. /\ pc[s] = at /\ pc'[s] = next /\ order'[s] = order[s]
      /\ \A t \in Sessions \ {s} : pc'[t] = pc[t] /\ ~IsOpen(t)
      /\ UNCHANGED holding
  BY StepFrame
<1> QED
  BY <1>1 DEF ObjectsFound, IsOpen

LEMMA CloseKeepsObjects ==
    ASSUME TypeInv, SerialInv, ObjectsFound, NEW s \in Sessions, IsOpen(s),
           Close(s),
           ForgetHolding(s) \/ (object[s] = NoHolding /\ UNCHANGED holdingVars)
    PROVE  ObjectsFound'
<1>1. /\ pc'[s] \in {"idle", "done"}
      /\ \A t \in Sessions \ {s} : pc'[t] = pc[t] /\ ~IsOpen(t)
  BY OthersIdle DEF Close, TypeInv, TypeOK
<1>2. /\ object'[s] = NoHolding
      /\ \A t \in Sessions \ {s} : object'[t] = object[t]
  BY DEF ForgetHolding, holdingVars, TypeInv, TypeOK
<1> QED
  BY <1>1, <1>2 DEF ObjectsFound, IsOpen


LEMMA HoldingStatementKeepsObjects ==
    ASSUME TypeInv, SerialInv, LedgerInv, ObjectsFound, NEW s \in Sessions,
           HoldingStatement(s)
    PROVE  ObjectsFound'
<1> USE DEF Unloaded, Handling
<1>1. CASE RefuseNoHolding(s) \/ RefuseShort(s) \/ FlushKeyTaken(s)
  BY <1>1, CloseKeepsObjects
     DEF RefuseNoHolding, RefuseShort, FlushKeyTaken, Refuse,
         RollbackWrites, IsOpen
<1>2. ASSUME NEW at \in {"select", "selectForDividend", "plSelect"},
             NEW next \in Places \ Unloaded,
             Step(s, at, next), next # "done",
             NEW row, Load(s, row), row # NoHolding => holding # NoHolding
      PROVE  ObjectsFound'
  <2>1. /\ object'[s] = row
        /\ \A t \in Sessions \ {s} : object'[t] = object[t]
    BY <1>2 DEF Load, TypeInv, TypeOK
  <2>2. order[s].kind \notin Adjusting
    BY <1>2, StepFrame
       DEF Underway, OrderFits, OnPath, Trading, Adjusting, Valuing
  <2> QED
    BY <1>2, <2>1, <2>2, StepKeepsObjects
<1>3. CASE SelectHolding(s)
  <2> DEFINE next == IF Asked(s) = "sell" THEN "checkBuys" ELSE "register"
  <2>1. Step(s, "select", next) /\ Load(s, holding)
    BY <1>3 DEF SelectHolding
  <2>2. next \in Places \ Unloaded /\ next # "done"
    BY DEF Places
  <2> HIDE DEF next
  <2> QED
    BY <1>2, <2>1, <2>2
<1>4. CASE SelectForDividend(s)
  <2>1. PICK next \in {"plSelect", "flush"} : Step(s, "selectForDividend", next)
    BY <1>4 DEF SelectForDividend
  <2>2. PICK row : Load(s, row) /\ (row # NoHolding => holding # NoHolding)
    BY <1>4 DEF SelectForDividend
  <2> QED
    BY <1>2, <2>1, <2>2 DEF Places
<1>5. CASE PlSelect(s) /\ object[s] = NoHolding
  <2>1. PICK next \in {"plBuys", "commit"} : Step(s, "plSelect", next)
    BY <1>5 DEF PlSelect
  <2>2. Load(s, holding)
    BY <1>5 DEF PlSelect
  <2> QED
    BY <1>2, <2>1, <2>2 DEF Places
<1>6. ASSUME NEW at, NEW next \in Places \ Unloaded, Step(s, at, next),
             at \notin {"idle", "done"}, next # "done",
             \A t \in Sessions \ {s} : object'[t] = object[t],
             \/ object'[s] = object[s]
             \/ object[s] # NoHolding
             \/ order[s].kind \in Trading
      PROVE  ObjectsFound'
  <2>1. IsOpen(s)
    BY <1>6 DEF Step, IsOpen
  <2>2. order[s].kind \in Trading => order[s].kind \notin Adjusting
    BY DEF Trading, Adjusting
  <2>3. /\ order[s].kind \in Adjusting => object'[s] = NoHolding
        /\ order[s].kind \notin Trading /\ object'[s] # NoHolding
              => holding # NoHolding
    BY <1>6, <2>1, <2>2 DEF ObjectsFound
  <2> QED
    BY <1>6, <2>3, StepKeepsObjects
<1>7. CASE PlSelect(s) /\ object[s] # NoHolding
  BY <1>6, <1>7 DEF PlSelect, holdingVars, Places
<1>8. CASE CheckBuys(s) \/ CheckSells(s) \/ SumBuys(s) \/ PlBuys(s)
  BY <1>6, <1>8 DEF CheckBuys, CheckSells, SumBuys, PlBuys, ReadBuys, Places
<1>9. CASE RegisterTrade(s)
  BY <1>6, <1>9 DEF RegisterTrade, holdingVars, Places
<1>10. CASE RegisterDividend(s)
  <2>1. Step(s, "registerDividend", "selectForDividend") /\ UNCHANGED object
    BY <1>10 DEF RegisterDividend, holdingVars
  <2>2. object[s] = NoHolding
    BY <2>1, StepFrame DEF ObjectsFound
  <2> QED
    BY <2>1, <2>2, StepKeepsObjects
<1>11. CASE SumSells(s)
  <2> DEFINE next == IF Asked(s) = "sell" THEN "sumRealized" ELSE "flush"
  <2>1. Step(s, "sumSells", next)
    BY <1>11 DEF SumSells
  <2>2. \A t \in Sessions \ {s} : object'[t] = object[t]
    BY <1>11 DEF SumSells, AssignHeld, TypeInv, TypeOK
  <2>3. order[s].kind \in Trading
    BY <2>1, StepFrame DEF Underway, OrderFits, OnPath
  <2>4. next \in Places \ Unloaded /\ next # "done"
    BY DEF Places
  <2> HIDE DEF next
  <2> QED
    BY <1>6, <2>1, <2>2, <2>3, <2>4
<1>12. CASE \/ SumRealized(s) \/ PlSells(s) \/ PlRealized(s)
            \/ PlDividend(s) \/ PlPrice(s)
  <2>1. PICK at \in Handling, next \in Places \ Unloaded :
           Step(s, at, next) /\ next # "done"
    BY <1>12 DEF SumRealized, PlSells, PlRealized, PlDividend, PlPrice,
                 AssignRealized, Places
  <2>2. object[s] # NoHolding
    BY <2>1 DEF TypeInv, HandlerRows, Step
  <2>3. PICK row : object' = [object EXCEPT ![s] = row]
    BY <1>12 DEF SumRealized, PlSells, PlRealized, PlDividend, PlPrice,
                 AssignRealized, AssignHeld
  <2>4. \A t \in Sessions \ {s} : object'[t] = object[t]
    BY <2>3 DEF TypeInv, TypeOK
  <2> QED
    BY <1>6, <2>1, <2>2, <2>4
<1>13. CASE FlushHandler(s) \/ PlFlush(s)
  BY <1>6, <1>13 DEF FlushHandler, PlFlush, Flush, Places
<1> QED
  BY <1>1, <1>3, <1>4, <1>5, <1>7, <1>8, <1>9, <1>10, <1>11, <1>12, <1>13
     DEF HoldingStatement

LEMMA SplitStatementKeepsObjects ==
    ASSUME TypeInv, SerialInv, LedgerInv, ObjectsFound, NEW s \in Sessions,
           SplitStatement(s), UNCHANGED holdingVars
    PROVE  ObjectsFound'
<1>1. object[s] = NoHolding
  BY DEF ObjectsFound, Unloaded, SplitStatement, EnsureNotDuplicated,
         RefuseDuplicate, InsertSplit, InsertRefused, FindSplit,
         RefuseUnknown, DeleteSplit, ReadSplits, ReadTrades, FlushRatios, Step
<1>2. CASE RefuseDuplicate(s) \/ InsertRefused(s) \/ RefuseUnknown(s)
  BY <1>1, <1>2, CloseKeepsObjects
     DEF RefuseDuplicate, InsertRefused, RefuseUnknown, RefuseSplit,
         RollbackWrites, IsOpen
<1>3. CASE ~(RefuseDuplicate(s) \/ InsertRefused(s) \/ RefuseUnknown(s))
  <2>1. PICK at \in Unloaded \ {"idle", "done"} : \E next : Step(s, at, next)
    BY <1>3 DEF SplitStatement, EnsureNotDuplicated, InsertSplit, FindSplit,
                DeleteSplit, ReadSplits, ReadTrades, FlushRatios, Unloaded
  <2>2. PICK next : Step(s, at, next)
    BY <2>1
  <2>3. \A t \in Sessions : object'[t] = object[t]
    BY DEF holdingVars
  <2> QED
    BY <1>1, <2>2, <2>3, StepKeepsObjects
<1> QED
  BY <1>2, <1>3

-----------------------------------------------------------------------------
(* A commit is a step of the ledger.                                       *)

\* What the commit of a recording or a refresh makes of the tables.
LEMMA RecordingCommits ==
    ASSUME TypeInv, SerialInv, LedgerInv, ObjectsFound, NEW s \in Sessions,
           Commit(s), order[s].kind \notin Adjusting
    PROVE  /\ transactions' = VisibleTransactions(s)
           /\ dividends' = VisibleDividends(s)
           /\ splits' = splits
           /\ holding' \in Rows
           /\ IF loaded[s] = NoHolding
              THEN /\ holding = NoHolding /\ holding' = NoHolding
                   /\ order[s].kind \notin Trading
              ELSE /\ Summary(holding') = Aggregates(transactions', dividends')
                   /\ holding' # NoHolding
                   /\ order[s].kind \notin Trading => holding # NoHolding
<1> DEFINE p == pending[s]
           written == p.columns
           row == [c \in Columns |-> IF c \in written THEN loaded[s][c]
                                                      ELSE holding[c]]
<1>1. /\ IsOpen(s) /\ pc[s] = "commit" /\ Underway(s)
  BY DEF Commit, IsOpen, LedgerInv
<1>2. /\ transactions' = {Rewritten(s, t) : t \in transactions}
                            \cup p.transactions
      /\ dividends' = dividends \cup p.dividends
      /\ splits' = (splits \cup p.splits) \ p.deleted
      /\ holding' = IF written = {} THEN holding ELSE row
  BY DEF Commit, CommitWrites, Rewritten
<1>3. DOMAIN p.ratios = {} /\ p.splits = {} /\ p.deleted = {}
  BY <1>1 DEF Underway, RatiosWritten, Written, SplitWritten, SplitDeleted,
              Adjusting
<1>4. \A t \in transactions : Rewritten(s, t) = t
  BY <1>3 DEF Rewritten
<1>5. /\ transactions' = VisibleTransactions(s)
      /\ dividends' = VisibleDividends(s)
      /\ splits' = splits
  BY <1>2, <1>3, <1>4 DEF VisibleTransactions, VisibleDividends
<1>6. CASE loaded[s] = NoHolding
  <2>1. written = {}
    BY <1>6 DEF TypeInv, HandlerRows
  <2>2. holding = NoHolding /\ order[s].kind \notin Trading
    BY <1>1, <1>6 DEF Underway, HoldingComputed
  <2> QED
    BY <1>2, <1>5, <1>6, <2>1, <2>2 DEF Rows
<1>7. CASE loaded[s] # NoHolding
  <2>1. loaded[s] \in [Columns -> Int]
    BY <1>7 DEF TypeInv, TypeOK, Rows
  <2>2. \A c \in Columns \ written : loaded[s][c] = holding[c]
    BY <1>7 DEF SerialInv, LoadedIsCommitted
  <2>3. written = {} => holding \in [Columns -> Int]
    BY <1>7 DEF TypeInv, TypeOK, HandlerRows, Rows, Columns
  <2>4. holding' = loaded[s]
    <3>1. CASE written = {}
      BY <1>2, <2>1, <2>2, <2>3, <3>1
    <3>2. CASE written # {}
      <4>1. row = loaded[s]
        BY <2>1, <2>2
      <4> QED
        BY <1>2, <3>2, <4>1
    <3> QED
      BY <3>1, <3>2
  <2>5. Summary(loaded[s])
           = Aggregates(VisibleTransactions(s), VisibleDividends(s))
    BY <1>1, <1>7 DEF Underway, HoldingComputed
  <2>6. order[s].kind \notin Trading => holding # NoHolding
    <3> SUFFICES ASSUME order[s].kind \notin Trading, holding = NoHolding
                 PROVE  FALSE
      OBVIOUS
    <3>1. object[s] = NoHolding
      BY <1>1 DEF ObjectsFound
    <3>2. written = {} /\ written = Columns
      BY <1>7, <3>1 DEF TypeInv, HandlerRows
    <3> QED
      BY <3>2 DEF Columns
  <2>7. holding' \in Rows /\ holding' # NoHolding
    BY <1>7, <2>1, <2>4 DEF Rows
  <2>8. Summary(holding') = Aggregates(transactions', dividends')
    BY <1>5, <2>4, <2>5
  <2> QED
    BY <1>5, <1>7, <2>6, <2>7, <2>8
<1> QED
  BY <1>6, <1>7

\* What the commit of a split operation makes of them.
LEMMA AdjustingCommits ==
    ASSUME TypeInv, SerialInv, LedgerInv, ObjectsFound, NEW s \in Sessions,
           Commit(s), order[s].kind \in Adjusting
    PROVE  /\ transactions' = Readjusted(transactions, VisibleSplits(s))
           /\ dividends' = dividends
           /\ splits' = VisibleSplits(s)
           /\ holding' = holding
<1> DEFINE p == pending[s]
           S == VisibleSplits(s)
<1>1. /\ IsOpen(s) /\ pc[s] = "commit" /\ Underway(s)
  BY DEF Commit, IsOpen, LedgerInv
<1>2. /\ transactions' = {Rewritten(s, t) : t \in transactions}
                            \cup p.transactions
      /\ dividends' = dividends \cup p.dividends
      /\ splits' = (splits \cup p.splits) \ p.deleted
      /\ p.columns = {} => holding' = holding
  BY DEF Commit, CommitWrites, Rewritten
<1>3. p.transactions = {} /\ p.dividends = {}
  BY <1>1 DEF Underway, Written, TradeWritten, DividendWritten, Trading,
              Adjusting
<1>4. p.columns = {}
  BY <1>1 DEF ObjectsFound, TypeInv, HandlerRows
<1>5. \A t \in transactions :
         Rewritten(s, t) = [t EXCEPT !.ratio = CumulativeRatio(t.date, S)]
  BY <1>1 DEF Underway, RatiosWritten
<1>6. {Rewritten(s, t) : t \in transactions} = Readjusted(transactions, S)
  BY <1>5 DEF Readjusted
<1>7. splits' = S
  BY <1>2 DEF VisibleSplits
<1> QED
  BY <1>2, <1>3, <1>4, <1>6, <1>7

LEMMA RecordingIsLedgerStep ==
    ASSUME TypeInv, SerialInv, LedgerInv, ObjectsFound, NEW s \in Sessions,
           Commit(s), order[s].kind \notin Adjusting
    PROVE  [Ledger!Next]_Ledger!vars
<1> DEFINE o == order[s]
<1>1. /\ IsOpen(s) /\ pc[s] = "commit" /\ Underway(s)
  BY DEF Commit, IsOpen, LedgerInv
<1>2. /\ transactions' = VisibleTransactions(s)
      /\ dividends' = VisibleDividends(s)
      /\ splits' = splits
      /\ loaded[s] = NoHolding =>
            /\ holding = NoHolding /\ holding' = NoHolding
            /\ o.kind \notin Trading
      /\ loaded[s] # NoHolding =>
            /\ Summary(holding') = Aggregates(transactions', dividends')
            /\ holding' # NoHolding
            /\ o.kind \notin Trading => holding # NoHolding
  BY RecordingCommits
<1>3. Summary(holding) = NoHolding <=> holding = NoHolding
  BY SummaryPresent DEF TypeInv, TypeOK
<1>4. holding' = NoHolding => Summary(holding') = NoHolding
  BY DEF Summary
<1>5. o.kind # "refresh" => s \in Requests /\ o \in Orders
  BY <1>1 DEF Underway, OrderFits, RefreshOrder, Sessions
<1>6. o.kind \in Trading \cup {"dividend", "refresh"}
  BY <1>1 DEF Underway, OrderFits, Kinds, Trading, Adjusting
<1>7. CASE o.kind \in Trading
  <2>1. /\ transactions' = transactions \cup {RecordedTrade(s)}
        /\ dividends' = dividends
    BY <1>1, <1>2, <1>7
       DEF Underway, Written, TradeWritten, DividendWritten, Unwritten,
           VisibleTransactions, VisibleDividends, Trading
  <2>2. Ledger!Record(RecordedTrade(s))
    BY <1>2, <1>7, <2>1, SameAggregates DEF Ledger!Record
  <2>3. CASE o.kind = "buy"
    <3>1. RecordedTrade(s) = Ledger!TradeRow(s, o, 0)
      BY <2>3 DEF RecordedTrade, TradeRow, Ledger!TradeRow
    <3>2. Ledger!Buy(s, o)
      BY <2>2, <2>3, <3>1 DEF Ledger!Buy
    <3> QED
      BY <1>5, <2>3, <3>2 DEF Ledger!Next
  <2>4. CASE o.kind = "sell"
    <3>1. RecordedTrade(s) = Ledger!TradeRow(s, o,
             (o.price - Ledger!AverageCost(transactions)) * o.quantity)
      BY <2>4, SameAggregates DEF RecordedTrade, TradeRow, Ledger!TradeRow
    <3>2. holding # NoHolding /\ HeldQuantity(transactions) >= o.quantity
      BY <1>1, <2>4 DEF Underway, SaleCovered
    <3>3. Ledger!Sell(s, o)
      BY <1>3, <2>2, <2>4, <3>1, <3>2, SameAggregates DEF Ledger!Sell
    <3> QED
      BY <1>5, <2>4, <3>3 DEF Ledger!Next
  <2> QED
    BY <1>7, <2>3, <2>4 DEF Trading
<1>8. CASE o.kind = "dividend"
  <2>1. /\ transactions' = transactions
        /\ dividends' = dividends \cup {[id |-> s, amount |-> o.quantity]}
    BY <1>1, <1>2, <1>8
       DEF Underway, Written, TradeWritten, DividendWritten, Unwritten,
           VisibleTransactions, VisibleDividends, Trading, RecordedDividend
  <2>2. Summary(holding') = IF Summary(holding) = NoHolding
                            THEN NoHolding
                            ELSE Ledger!SummaryOf(transactions, dividends')
    BY <1>2, <1>3, <1>4, <1>8, <2>1, SameAggregates DEF Trading
  <2>3. Ledger!Receive(s, o)
    BY <1>2, <1>8, <2>1, <2>2 DEF Ledger!Receive
  <2> QED
    BY <1>5, <1>8, <2>3 DEF Ledger!Next
<1>9. CASE o.kind = "refresh"
  <2>1. transactions' = transactions /\ dividends' = dividends
    BY <1>1, <1>2, <1>9
       DEF Underway, Written, TradeWritten, DividendWritten, Trading,
           VisibleTransactions, VisibleDividends
  <2>2. CASE loaded[s] = NoHolding
    BY <1>2, <2>1, <2>2 DEF Ledger!vars, Summary
  <2>3. CASE loaded[s] # NoHolding
    <3>1. Ledger!Refresh
      BY <1>2, <1>3, <1>9, <2>1, <2>3, SameAggregates
         DEF Ledger!Refresh, Trading
    <3> QED
      BY <3>1 DEF Ledger!Next
  <2> QED
    BY <2>2, <2>3
<1> QED
  BY <1>6, <1>7, <1>8, <1>9

LEMMA AdjustingIsLedgerStep ==
    ASSUME TypeInv, SerialInv, LedgerInv, ObjectsFound, NEW s \in Sessions,
           Commit(s), order[s].kind \in Adjusting
    PROVE  Ledger!Next
<1> DEFINE o == order[s]
           S == VisibleSplits(s)
<1>1. /\ IsOpen(s) /\ pc[s] = "commit" /\ Underway(s)
  BY DEF Commit, IsOpen, LedgerInv
<1>2. /\ transactions' = Readjusted(transactions, S)
      /\ dividends' = dividends /\ splits' = S /\ holding' = holding
  BY AdjustingCommits
<1>3. Summary(holding') = Summary(holding)
  BY <1>2
<1>4. Ledger!Adjust(S)
  BY <1>2, <1>3, SameRatios DEF Ledger!Adjust
<1>5. s \in Requests /\ o \in Orders
  BY <1>1 DEF Underway, OrderFits, RefreshOrder, Sessions, Adjusting
<1>6. CASE o.kind = "split"
  <2>1. /\ S = splits \cup {[id |-> s, date |-> o.date, ratio |-> o.quantity]}
        /\ \A sp \in splits : sp.date # o.date
    BY <1>1, <1>6
       DEF Underway, Written, SplitWritten, SplitDeleted, RecordedSplit,
           DateTaken, VisibleSplits, Unwritten
  <2>2. Ledger!RegisterSplit(s, o)
    BY <1>4, <1>6, <2>1 DEF Ledger!RegisterSplit
  <2> QED
    BY <1>5, <2>2 DEF Ledger!Next
<1>7. CASE o.kind = "unsplit"
  <2>1. \E sp \in splits : S = splits \ {sp}
    BY <1>1, <1>7
       DEF Underway, Written, SplitWritten, SplitDeleted, VisibleSplits,
           Unwritten
  <2>2. Ledger!DeleteSplit
    BY <1>4, <2>1 DEF Ledger!DeleteSplit
  <2> QED
    BY <2>2 DEF Ledger!Next
<1>8. CASE o.kind = "recalculate"
  <2>1. S = splits
    BY <1>1, <1>8
       DEF Underway, Written, SplitWritten, SplitDeleted, VisibleSplits
  <2>2. Ledger!Recalculate
    BY <1>4, <2>1 DEF Ledger!Recalculate
  <2> QED
    BY <2>2 DEF Ledger!Next
<1> QED
  BY <1>6, <1>7, <1>8 DEF Adjusting


\* The trades stay told apart, and the row keeps the dividends of the table.
LEMMA CommitKeepsLedger ==
    ASSUME TypeInv, SerialInv, LedgerInv, ObjectsFound, NEW s \in Sessions,
           Commit(s)
    PROVE  LedgerInv'
<1>1. /\ IsOpen(s) /\ pc[s] = "commit" /\ Underway(s) /\ Close(s)
  BY DEF Commit, CommitWrites, IsOpen, LedgerInv
<1>2. /\ \A t1, t2 \in transactions : t1.id = t2.id => t1 = t2
      /\ \A t \in transactions :
            IsTrade(t) /\ (t.id \in Requests => pc[t.id] = "done")
      /\ DividendsAgree
  BY DEF LedgerInv, TradesDistinct
<1>3. /\ s \in Requests => pc'[s] = "done"
      /\ \A r \in Requests : pc[r] = "done" => pc'[r] = "done"
  BY <1>1, SessionsAssumption DEF Close, TypeInv, TypeOK, Sessions
<1>4. CASE order[s].kind \in Adjusting
  <2> DEFINE again(t) ==
               [t EXCEPT !.ratio = CumulativeRatio(t.date, VisibleSplits(s))]
  <2>1. transactions' = {again(t) : t \in transactions}
    BY <1>4, AdjustingCommits DEF Readjusted
  <2>2. ASSUME NEW t \in transactions
        PROVE  IsTrade(again(t)) /\ again(t).id = t.id
    BY <1>2 DEF IsTrade
  <2> HIDE DEF again
  <2>3. TradesDistinct'
    BY <1>2, <1>3, <2>1, <2>2 DEF TradesDistinct, IsTrade
  <2>4. DividendsAgree'
    BY <1>2, <1>4, AdjustingCommits DEF DividendsAgree
  <2> QED
    BY <1>1, <2>3, <2>4, CloseKeepsLedger
<1>5. CASE order[s].kind \notin Adjusting
  <2>1. TradesDistinct'
    <3>1. CASE transactions' = transactions
      BY <1>2, <1>3, <3>1 DEF TradesDistinct, IsTrade
    <3>2. CASE transactions' # transactions
      <4>1. /\ transactions' = transactions \cup {RecordedTrade(s)}
            /\ order[s].kind \in Trading
        BY <1>1, <1>5, <3>2, RecordingCommits
           DEF Underway, Written, TradeWritten, VisibleTransactions
      <4>2. s \in Requests
        BY <1>1, <4>1 DEF Underway, OrderFits, RefreshOrder, Sessions, Trading
      <4>3. \A t \in transactions : t.id # s
        BY <1>1, <4>2, RecordedIsDone
      <4>4. IsTrade(RecordedTrade(s)) /\ RecordedTrade(s).id = s
        BY DEF IsTrade, RecordedTrade, TradeRow
      <4> HIDE DEF RecordedTrade
      <4> QED
        BY <1>2, <1>3, <4>1, <4>2, <4>3, <4>4 DEF TradesDistinct, IsTrade
    <3> QED
      BY <3>1, <3>2
  <2>2. DividendsAgree'
    <3>1. CASE loaded[s] = NoHolding
      BY <1>5, <3>1, RecordingCommits DEF DividendsAgree
    <3>2. CASE loaded[s] # NoHolding
      <4>1. /\ Summary(holding') = Aggregates(transactions', dividends')
            /\ holding' # NoHolding
        BY <1>5, <3>2, RecordingCommits
      <4>2. Summary(holding').dividend = TotalDividend(dividends')
        BY <4>1 DEF Aggregates
      <4>3. Summary(holding').dividend = holding'.dividend
        BY <4>1 DEF Summary
      <4> QED
        BY <4>2, <4>3 DEF DividendsAgree
    <3> QED
      BY <3>1, <3>2
  <2> QED
    BY <1>1, <2>1, <2>2, CloseKeepsLedger
<1> QED
  BY <1>4, <1>5

-----------------------------------------------------------------------------

LEMMA HoldingStatementKeepsLedger ==
    ASSUME TypeInv, SerialInv, LedgerInv, NEW s \in Sessions,
           HoldingStatement(s)
    PROVE  LedgerInv'
<1>1. CASE RefuseNoHolding(s) \/ RefuseShort(s) \/ FlushKeyTaken(s)
  BY <1>1, RollbackKeepsLedger
     DEF RefuseNoHolding, RefuseShort, FlushKeyTaken, Refuse, IsOpen
<1> QED
  BY <1>1, SelectHoldingLedger, CheckBuysLedger, CheckSellsLedger,
     RegisterTradeLedger, SumLedger, FlushHandlerLedger,
     RegisterDividendLedger, SelectForDividendLedger, PlSelectLedger,
     PlBuysLedger, PlSellsLedger, PlRealizedLedger, PlDividendLedger,
     PlPriceLedger, PlFlushLedger, Zenon DEF HoldingStatement

LEMMA SplitStatementKeepsLedger ==
    ASSUME TypeInv, SerialInv, LedgerInv, ReadsKept, NEW s \in Sessions,
           SplitStatement(s), UNCHANGED holdingVars
    PROVE  LedgerInv'
<1>1. CASE RefuseDuplicate(s) \/ InsertRefused(s) \/ RefuseUnknown(s)
  BY <1>1, RollbackKeepsLedger
     DEF RefuseDuplicate, InsertRefused, RefuseUnknown, RefuseSplit, IsOpen
<1> QED
  BY <1>1, SplitCheckLedger, SplitWriteLedger, SplitReadLedger,
     FlushRatiosLedger, Zenon DEF SplitStatement

LEMMA ReadsKeptNext == ReadsKept /\ [Next]_vars => ReadsKept'
<1> SUFFICES ASSUME ReadsKept, [Next]_vars PROVE ReadsKept'
  OBVIOUS
<1> USE DEF ReadsKept, splitVars, ForgetSplits
<1>1. ASSUME NEW s \in Sessions, SplitStatement(s) PROVE ReadsKept'
  BY <1>1 DEF SplitStatement, EnsureNotDuplicated, RefuseDuplicate,
              InsertSplit, InsertRefused, FindSplit, RefuseUnknown,
              DeleteSplit, ReadSplits, ReadTrades, FlushRatios, RefuseSplit
<1>2. ASSUME NEW s \in Sessions, Statement(s) \/ Fail(s) PROVE ReadsKept'
  BY <1>1, <1>2 DEF Statement, Commit, Fail
<1>3. CASE (\E r \in Requests : BeginRequest(r)) \/ \E j \in Jobs : BeginJob(j)
  BY <1>3 DEF BeginRequest, BeginJob, Begin
<1> QED
  BY <1>2, <1>3 DEF Next, vars

\* Everything a serial behaviour keeps.
WholeInv == TypeInv /\ SerialInv /\ LedgerInv /\ ObjectsFound /\ ReadsKept

LEMMA WholeInit == Init => WholeInv
  BY TypeInvInit, SerialInit, LedgerInit, ObjectsFoundInit
     DEF WholeInv, ReadsKept, Init, SplitInit

LEMMA LedgerNext ==
    ASSUME ~Overlap, WholeInv, [Next]_vars
    PROVE  LedgerInv' /\ ObjectsFound'
<1> USE DEF WholeInv
<1>1. ASSUME NEW s \in Sessions, NEW o \in Orders \cup {RefreshOrder},
             Begin(s, o), s \in Jobs => o = RefreshOrder
      PROVE  LedgerInv' /\ ObjectsFound'
  <2>1. object[s] = NoHolding
    BY <1>1 DEF Begin, MayBegin, ObjectsFound, Unloaded
  <2>2. /\ \A t \in Sessions \ {s} : pc'[t] = pc[t] /\ ~IsOpen(t)
        /\ UNCHANGED <<object, holding>>
    BY <1>1 DEF Begin, MayBegin, tables, holdingVars, TypeInv, TypeOK
  <2>3. ObjectsFound'
    BY <2>1, <2>2 DEF ObjectsFound, IsOpen
  <2> QED
    BY <1>1, <2>3, BeginKeepsLedger
<1>2. ASSUME NEW r \in Requests, BeginRequest(r)
      PROVE  LedgerInv' /\ ObjectsFound'
  BY <1>1, <1>2, SessionsAssumption DEF BeginRequest, Sessions
<1>3. ASSUME NEW j \in Jobs, BeginJob(j)
      PROVE  LedgerInv' /\ ObjectsFound'
  BY <1>1, <1>3 DEF BeginJob, Sessions
<1>4. ASSUME NEW s \in Sessions, Statement(s)
      PROVE  LedgerInv' /\ ObjectsFound'
  <2>1. CASE HoldingStatement(s)
    BY <2>1, HoldingStatementKeepsLedger, HoldingStatementKeepsObjects
  <2>2. CASE SplitStatement(s) /\ UNCHANGED holdingVars
    BY <2>2, SplitStatementKeepsLedger, SplitStatementKeepsObjects
  <2>3. CASE Commit(s)
    <3>1. IsOpen(s) /\ Close(s) /\ ForgetHolding(s)
      BY <2>3 DEF Commit, CommitWrites, IsOpen
    <3> QED
      BY <2>3, <3>1, CommitKeepsLedger, CloseKeepsObjects
  <2> QED
    BY <1>4, <2>1, <2>2, <2>3 DEF Statement
<1>5. ASSUME NEW s \in Sessions, Fail(s)
      PROVE  LedgerInv' /\ ObjectsFound'
  <2>1. IsOpen(s) /\ RollbackWrites(s) /\ Close(s) /\ ForgetHolding(s)
    BY <1>5 DEF Fail, RollbackWrites
  <2> QED
    BY <2>1, RollbackKeepsLedger, CloseKeepsObjects
<1>6. CASE UNCHANGED vars
  <2>1. ObjectsFound'
    BY <1>6 DEF ObjectsFound, IsOpen, vars, tables, session, holdingVars
  <2>2. TradesDistinct' /\ DividendsAgree'
    BY <1>6 DEF LedgerInv, TradesDistinct, IsTrade, DividendsAgree, vars,
                tables, session
  <2>3. \A s \in Sessions : Underway(s)' = Underway(s)
    BY <1>6
       DEF Underway, OrderFits, Written, TradeWritten, DividendWritten,
           SplitWritten, SplitDeleted, SaleCovered, HoldingComputed,
           SplitsRead, RatiosWritten, Rewritten, RecordedTrade, TradeRow,
           RecordedDividend, RecordedSplit, DateTaken, VisibleTransactions,
           VisibleDividends, VisibleSplits, vars, tables, session,
           holdingVars, splitVars
  <2>4. /\ \A s \in Sessions : IsOpen(s)' => Underway(s)'
        /\ \A s \in Sessions : ~IsOpen(s)' => pending'[s] = NothingPending
    BY <1>6, <2>3 DEF LedgerInv, IsOpen, vars, session
  <2> QED
    BY <2>1, <2>2, <2>4 DEF LedgerInv
<1> QED
  BY <1>2, <1>3, <1>4, <1>5, <1>6 DEF Next

LEMMA WholeNext ==
    ASSUME ~Overlap, WholeInv, [Next]_vars
    PROVE  WholeInv'
<1>1. TypeInv' /\ SerialInv'
  BY TypeInvNext, SerialNext DEF WholeInv
<1>2. LedgerInv' /\ ObjectsFound'
  BY LedgerNext
<1>3. ReadsKept'
  BY ReadsKeptNext DEF WholeInv
<1> QED
  BY <1>1, <1>2, <1>3 DEF WholeInv

-----------------------------------------------------------------------------

LEMMA InitIsLedgerInit == Init => Ledger!Init
<1> SUFFICES ASSUME Init PROVE Ledger!Init
  OBVIOUS
<1>1. /\ transactions \in Openings /\ dividends = {} /\ splits = {}
      /\ holding = IF transactions = {} THEN NoHolding
                                        ELSE OpeningRow(transactions)
  BY DEF Init, DatabaseInit
<1>2. OpeningRow(transactions) # NoHolding
  BY OpeningIsRow, NoHoldingAssumption
<1>3. Summary(OpeningRow(transactions)) = Aggregates(transactions, {})
  <2>1. /\ OpeningRow(transactions).quantity = HeldQuantity(transactions)
        /\ OpeningRow(transactions).cost = HeldCost(transactions)
        /\ OpeningRow(transactions).realized = RealizedPl(transactions)
        /\ OpeningRow(transactions).dividend = 0
    BY DEF OpeningRow, Valued, Columns
  <2> QED
    BY <1>2, <2>1, EmptyTotal DEF Summary, Aggregates
<1>4. Summary(holding) = IF transactions = {} THEN NoHolding
                         ELSE Ledger!SummaryOf(transactions, {})
  BY <1>1, <1>3, SameAggregates DEF Summary
<1> QED
  BY <1>1, <1>4 DEF Ledger!Init

LEMMA StepIsLedgerStep ==
    ASSUME WholeInv, [Next]_vars
    PROVE  [Ledger!Next]_Ledger!vars
<1>1. CASE UNCHANGED tables
  BY <1>1 DEF tables, Ledger!vars, Summary
<1>2. ASSUME NEW s \in Sessions, Commit(s)
      PROVE  [Ledger!Next]_Ledger!vars
  BY <1>2, RecordingIsLedgerStep, AdjustingIsLedgerStep DEF WholeInv
<1>3. ASSUME NEW s \in Sessions, HoldingStatement(s) \/ SplitStatement(s)
      PROVE  UNCHANGED tables
  BY <1>3
     DEF HoldingStatement, SelectHolding, RefuseNoHolding, CheckBuys,
         CheckSells, RefuseShort, RegisterTrade, SumBuys, SumSells,
         SumRealized, FlushHandler, FlushKeyTaken, RegisterDividend,
         SelectForDividend, PlSelect, PlBuys, PlSells, PlRealized,
         PlDividend, PlPrice, PlFlush, ReadBuys, AssignRealized, Flush,
         Refuse, SplitStatement, EnsureNotDuplicated, RefuseDuplicate,
         InsertSplit, InsertRefused, FindSplit, RefuseUnknown, DeleteSplit,
         ReadSplits, ReadTrades, FlushRatios, RefuseSplit, RollbackWrites,
         Step
<1>4. ASSUME NEW s \in Sessions, Fail(s) PROVE UNCHANGED tables
  BY <1>4 DEF Fail, RollbackWrites
<1>5. ASSUME NEW s \in Sessions, NEW o, Begin(s, o) PROVE UNCHANGED tables
  BY <1>5 DEF Begin
<1>6. CASE UNCHANGED vars
  BY <1>1, <1>6 DEF vars
<1> QED
  BY <1>1, <1>2, <1>3, <1>4, <1>5, <1>6
     DEF Next, Statement, BeginRequest, BeginJob, Sessions

\* If requests do not overlap, the position keeps the promises of
\* PositionLedger: every behaviour, with requests refused and failing at any
\* statement, is on the tables one in which each trade, dividend, split
\* operation and refresh happens at once and leaves in the holding row the
\* aggregates of all recorded rows (create_transaction, create_dividend,
\* StockSplitService, update_all_holdings_pl).
THEOREM SerialImplementsLedger == ~Overlap => (Spec => ImplementsLedger)
<1> SUFFICES ASSUME ~Overlap PROVE Spec => Ledger!Spec
  BY DEF ImplementsLedger
<1>1. Init => WholeInv /\ Ledger!Init
  BY WholeInit, InitIsLedgerInit
<1>2. WholeInv /\ [Next]_vars => WholeInv' /\ [Ledger!Next]_Ledger!vars
  BY WholeNext, StepIsLedgerStep
<1> QED
  BY <1>1, <1>2, PTL DEF Spec, Ledger!Spec

\* If requests do not overlap, the profit of the portfolio, with the dividends
\* summed from their own table, is at every commit the profit the holding row
\* shows, with the dividends it has stored (_calculate_portfolio_summary).
THEOREM SerialSummaryMatches == ~Overlap => (Spec => []SummaryMatchesRows)
<1> SUFFICES ASSUME ~Overlap PROVE Spec => []SummaryMatchesRows
  OBVIOUS
<1>1. Init => WholeInv
  BY WholeInit
<1>2. WholeInv /\ [Next]_vars => WholeInv'
  BY WholeNext
<1>3. ASSUME WholeInv PROVE SummaryMatchesRows
  <2>1. TotalDividend(dividends) \in Int
    BY AggregatesAreIntegers
  <2>2. CASE holding = NoHolding
    BY <2>1, <2>2 DEF SummaryMatchesRows, _calculate_portfolio_summary,
                      SumOfRows
  <2>3. CASE holding # NoHolding
    <3>1. holding \in [Columns -> Int]
      BY <1>3, <2>3 DEF WholeInv, TypeInv, TypeOK, Rows
    <3>2. holding = Valued(holding)
      BY <1>3, <2>3 DEF WholeInv, SerialInv, RowAddsUp
    <3>3. /\ holding.value = holding.price * holding.quantity
          /\ holding.pl = holding.price * holding.quantity - holding.cost
                             + holding.realized + holding.dividend
      BY <3>1, <3>2 DEF Valued, Columns
    <3>4. /\ holding.value \in Int /\ holding.cost \in Int
          /\ holding.realized \in Int /\ holding.dividend \in Int
      BY <3>1 DEF Columns
    <3>5. holding.dividend = TotalDividend(dividends)
      BY <1>3, <2>3 DEF WholeInv, LedgerInv, DividendsAgree
    <3>6. holding.pl = holding.value - holding.cost + holding.realized
                          + TotalDividend(dividends)
      BY <3>3, <3>5
    <3> QED
      BY <2>3, <3>6 DEF SummaryMatchesRows, _calculate_portfolio_summary,
                        SumOfRows
  <2> QED
    BY <2>2, <2>3
<1> QED
  BY <1>1, <1>2, <1>3, PTL DEF Spec

=============================================================================
