------------------------ MODULE PositionSystemProofs ------------------------
(***************************************************************************)
(* Theorems about PositionSystem, for every set of sessions, orders,       *)
(* prices and opening trades.                                              *)
(***************************************************************************)
EXTENDS PositionSystem, TLAPS

\* Statements that are executed with a Holding object in hand.
Handling == {"sumRealized", "flush", "plBuys", "plSells", "plRealized",
             "plDividend", "plPrice", "plFlush"}

\* Statements of a session that has not loaded the holding row.
Unloaded == {"idle", "select", "registerDividend", "selectForDividend",
             "checkSplit", "insertSplit", "findSplit", "deleteSplit",
             "readSplits", "readTrades", "flushRatios"}

\* What a session has of the holding row: an object wherever a handler uses
\* one, written columns only of an object it holds, and a row in the database
\* behind an object it has not itself inserted.
HandlerRows ==
    \A s \in Sessions :
       /\ pc[s] \in Handling => object[s] # NoHolding
       /\ pc[s] \in Unloaded =>
             loaded[s] = NoHolding /\ pending[s].columns = {}
       /\ pending[s].columns # {} =>
             object[s] # NoHolding /\ loaded[s] # NoHolding
       /\ loaded[s] # NoHolding =>
             holding # NoHolding \/ pending[s].columns = Columns
       /\ IsOpen(s) => order[s] # NoOrder

TypeInv == TypeOK /\ HandlerRows

-----------------------------------------------------------------------------

LEMMA OrZeroIsInteger == \A x : OrZero(x) \in Int
  BY DEF OrZero

LEMMA AggregatesAreIntegers ==
    ASSUME NEW T
    PROVE  /\ BuyQuantity(T) \in Int /\ BuyCost(T) \in Int
           /\ SellQuantity(T) \in Int /\ RealizedPl(T) \in Int
           /\ TotalDividend(T) \in Int
<1>1. BuyQuantity(T) \in Int
  BY OrZeroIsInteger, Zenon DEF BuyQuantity
<1>2. BuyCost(T) \in Int
  BY OrZeroIsInteger, Zenon DEF BuyCost
<1>3. SellQuantity(T) \in Int
  BY OrZeroIsInteger, Zenon DEF SellQuantity
<1>4. RealizedPl(T) \in Int
  BY OrZeroIsInteger, Zenon DEF RealizedPl
<1>5. TotalDividend(T) \in Int
  BY OrZeroIsInteger, Zenon DEF TotalDividend
<1> QED
  BY <1>1, <1>2, <1>3, <1>4, <1>5

LEMMA AverageIsInteger ==
    ASSUME NEW cost \in Int, NEW quantity \in Int
    PROVE  Average(cost, quantity) \in Int
  BY DEF Average

LEMMA ValuedIsRow ==
    ASSUME NEW row \in [Columns -> Int]
    PROVE  Valued(row) \in [Columns -> Int]
<1>1. /\ row.price \in Int /\ row.quantity \in Int /\ row.cost \in Int
      /\ row.realized \in Int /\ row.dividend \in Int
  BY DEF Columns
<1> DEFINE v == row.price * row.quantity
<1>2. v \in Int
  BY <1>1
<1> DEFINE w == v - row.cost + row.realized + row.dividend
<1> HIDE DEF v
<1>3. w \in Int
  BY <1>1, <1>2
<1> HIDE DEF w
<1>4. [row EXCEPT !.value = v, !.pl = w] \in [Columns -> Int]
  BY <1>2, <1>3 DEF Columns
<1> QED
  BY <1>4 DEF Valued, v, w

LEMMA OpeningIsValued ==
    ASSUME NEW T
    PROVE  \E row \in [Columns -> Int] : OpeningRow(T) = Valued(row)
<1>1. /\ HeldQuantity(T) \in Int /\ AverageCost(T) \in Int
      /\ RealizedPl(T) \in Int
  BY AggregatesAreIntegers, AverageIsInteger DEF HeldQuantity, AverageCost
<1>2. HeldCost(T) \in Int
  BY <1>1 DEF HeldCost
<1> DEFINE row == [c \in Columns |->
                     CASE c = "quantity" -> HeldQuantity(T)
                       [] c = "average"  -> AverageCost(T)
                       [] c = "cost"     -> HeldCost(T)
                       [] c = "realized" -> RealizedPl(T)
                       [] c = "price"    -> OpeningPrice
                       [] OTHER          -> 0]
<1>3. row \in [Columns -> Int]
  BY <1>1, <1>2, PricesAssumption
<1>4. OpeningRow(T) = Valued(row)
  BY DEF OpeningRow
<1> HIDE DEF row
<1> QED
  BY <1>3, <1>4

LEMMA OpeningIsRow ==
    ASSUME NEW T
    PROVE  OpeningRow(T) \in [Columns -> Int]
  BY OpeningIsValued, ValuedIsRow

LEMMA TypeInvInit == Init => TypeInv
<1> SUFFICES ASSUME Init PROVE TypeInv
  OBVIOUS
<1> USE DEF Init, DatabaseInit, HoldingInit
<1>1. holding \in Rows
  BY OpeningIsRow DEF Rows
<1>2. \A s \in Sessions : pending[s].columns = {}
  BY DEF NothingPending
<1>3. TypeOK
  BY <1>1, <1>2 DEF TypeOK, Rows, Places, NoTally
<1>4. HandlerRows
  BY <1>2 DEF HandlerRows, Handling, IsOpen
<1> QED
  BY <1>3, <1>4 DEF TypeInv

-----------------------------------------------------------------------------
(* Every statement keeps TypeInv.                                          *)

\* A statement that changes nothing but a session's tally.
LEMMA ReadBuysKeeps ==
    ASSUME TypeInv, NEW s \in Sessions, NEW at, NEW next \in Places,
           at \notin {"idle", "done"},
           next \in Handling => object[s] # NoHolding,
           next \notin Unloaded,
           ReadBuys(s, at, next)
    PROVE  TypeInv'
<1> DEFINE q == BuyQuantity(VisibleTransactions(s))
           c == BuyCost(VisibleTransactions(s))
<1>1. q \in Int /\ c \in Int
  BY AggregatesAreIntegers
<1> HIDE DEF q, c
<1>2. tally' = [tally EXCEPT ![s].quantity = q, ![s].cost = c]
  BY DEF ReadBuys, q, c
<1>3. tally' \in [Sessions -> [quantity : Int, cost : Int, before : Int]]
  BY <1>1, <1>2 DEF TypeInv, TypeOK
<1> QED
  BY <1>3 DEF TypeInv, TypeOK, HandlerRows, ReadBuys, Step, tables, IsOpen

\* The end of a session, whatever it leaves in the holding row.
LEMMA CloseKeeps ==
    ASSUME TypeInv, NEW s \in Sessions, Close(s),
           ForgetHolding(s) \/ (loaded[s] = NoHolding /\ UNCHANGED holdingVars),
           holding' \in Rows,
           holding # NoHolding => holding' # NoHolding
    PROVE  TypeInv'
<1>1. pending' = [pending EXCEPT ![s] = NothingPending]
  BY DEF Close
<1>2. /\ \A t \in Sessions : /\ DOMAIN pending'[t] = DOMAIN NothingPending
                             /\ pending'[t].columns \subseteq Columns
      /\ pending'[s].columns = {}
      /\ \A t \in Sessions \ {s} : pending'[t] = pending[t]
  BY <1>1 DEF TypeInv, TypeOK, NothingPending
<1>3. /\ pc' \in [Sessions -> Places]
      /\ pc'[s] \in {"idle", "done"}
      /\ \A t \in Sessions \ {s} : pc'[t] = pc[t]
  BY DEF TypeInv, TypeOK, Close, Places
<1>4. /\ object' \in [Sessions -> Rows] /\ loaded' \in [Sessions -> Rows]
      /\ tally' \in [Sessions -> [quantity : Int, cost : Int, before : Int]]
      /\ loaded'[s] = NoHolding
      /\ \A t \in Sessions \ {s} :
            object'[t] = object[t] /\ loaded'[t] = loaded[t]
  <2>1. CASE ForgetHolding(s)
    BY <2>1 DEF TypeInv, TypeOK, ForgetHolding, NoTally, Rows
  <2>2. CASE loaded[s] = NoHolding /\ UNCHANGED holdingVars
    BY <2>2 DEF TypeInv, TypeOK, holdingVars
  <2> QED
    BY <2>1, <2>2
<1>5. TypeOK'
  BY <1>1, <1>2, <1>3, <1>4 DEF TypeInv, TypeOK, Close
<1>6. HandlerRows'
  BY <1>1, <1>2, <1>3, <1>4
     DEF TypeInv, TypeOK, HandlerRows, Close, IsOpen, Handling, Unloaded
<1> QED
  BY <1>5, <1>6 DEF TypeInv

\* A session that rolls back.
LEMMA RollbackKeeps ==
    ASSUME TypeInv, NEW s \in Sessions, RollbackWrites(s),
           ForgetHolding(s) \/ (loaded[s] = NoHolding /\ UNCHANGED holdingVars)
    PROVE  TypeInv'
  BY CloseKeeps DEF TypeInv, TypeOK, RollbackWrites, tables

LEMMA HeldIsInteger ==
    ASSUME TypeInv, NEW s \in Sessions
    PROVE  /\ Held(s) \in Int /\ AverageHeld(s) \in Int
           /\ Held(s) * AverageHeld(s) \in Int
<1>1. tally[s].quantity \in Int /\ tally[s].cost \in Int
  BY DEF TypeInv, TypeOK
<1>2. SellQuantity(VisibleTransactions(s)) \in Int
  BY AggregatesAreIntegers
<1>3. Held(s) \in Int
  BY <1>1, <1>2 DEF Held
<1>4. AverageHeld(s) \in Int
  BY <1>1, AverageIsInteger DEF AverageHeld
<1> QED
  BY <1>3, <1>4

\* A statement that reads the holding row.
LEMMA LoadKeeps ==
    ASSUME TypeInv, NEW s \in Sessions, NEW at, NEW next \in Places,
           Step(s, at, next), at \notin {"idle", "done"},
           next \notin Unloaded,
           next \in Handling => holding # NoHolding,
           pending[s].columns = {},
           NEW row \in Rows, row = NoHolding <=> holding = NoHolding,
           Load(s, row)
    PROVE  TypeInv'
  BY DEF TypeInv, TypeOK, HandlerRows, Step, Load, tables, IsOpen

\* A statement that replaces a session's object by another row.
LEMMA AssignKeeps ==
    ASSUME TypeInv, NEW s \in Sessions, NEW at, NEW next \in Places,
           Step(s, at, next), at \notin {"idle", "done"},
           next \notin Unloaded,
           NEW row \in [Columns -> Int],
           object' = [object EXCEPT ![s] = row],
           UNCHANGED <<pending, loaded, tally>>
    PROVE  TypeInv'
  BY NoHoldingAssumption DEF TypeInv, TypeOK, HandlerRows, Step, tables, IsOpen, Rows

LEMMA AssignHeldKeeps ==
    ASSUME TypeInv, NEW s \in Sessions, NEW at, NEW next \in Places,
           Step(s, at, next), at \notin {"idle", "done"},
           next \notin Unloaded,
           AssignHeld(s),
           UNCHANGED <<pending, loaded, tally>>
    PROVE  TypeInv'
<1> DEFINE o == IF object[s] = NoHolding THEN NewHolding ELSE object[s]
           row == [o EXCEPT !.quantity = Held(s), !.average = AverageHeld(s),
                            !.cost = Held(s) * AverageHeld(s)]
<1>1. o \in [Columns -> Int]
  BY DEF TypeInv, TypeOK, Rows, NewHolding
<1>2. row \in [Columns -> Int]
  BY <1>1, HeldIsInteger DEF Columns
<1>3. object' = [object EXCEPT ![s] = row]
  BY DEF AssignHeld
<1> HIDE DEF row
<1> QED
  BY <1>2, <1>3, AssignKeeps

LEMMA SelectForDividendKeeps ==
    ASSUME TypeInv, NEW s \in Sessions, SelectForDividend(s)
    PROVE  TypeInv'
<1>1. pc[s] = "selectForDividend"
  BY DEF SelectForDividend, Step
<1>2. order[s].quantity \in Int /\ pending[s].columns = {}
  BY <1>1, OrdersAssumption
     DEF TypeInv, TypeOK, HandlerRows, IsOpen, OrderRecords, RefreshOrder,
         Unloaded
<1>3. CASE holding = NoHolding
  <2>1. Step(s, "selectForDividend", "plSelect") /\ Load(s, NoHolding)
    BY <1>3 DEF SelectForDividend
  <2> QED
    BY <1>2, <1>3, <2>1, LoadKeeps DEF Rows, Places, Handling, Unloaded
<1>4. CASE holding # NoHolding
  <2> DEFINE row == [holding EXCEPT !.dividend = @ + order[s].quantity]
  <2>1. row \in [Columns -> Int]
    BY <1>2, <1>4 DEF TypeInv, TypeOK, Rows, Columns
  <2>2. Step(s, "selectForDividend", "flush") /\ Load(s, row)
    BY <1>4 DEF SelectForDividend
  <2> HIDE DEF row
  <2>3. row \in Rows /\ row # NoHolding
    BY <2>1, NoHoldingAssumption DEF Rows
  <2> QED
    BY <1>2, <1>4, <2>2, <2>3, LoadKeeps DEF Places, Unloaded
<1> QED
  BY <1>3, <1>4

LEMMA PlSelectKeeps ==
    ASSUME TypeInv, NEW s \in Sessions, PlSelect(s)
    PROVE  TypeInv'
<1>1. CASE object[s] = NoHolding
  <2>1. pending[s].columns = {} /\ holding \in Rows
    BY <1>1 DEF TypeInv, TypeOK, HandlerRows
  <2>2. Load(s, holding)
    BY <1>1 DEF PlSelect
  <2>3. CASE holding = NoHolding
    <3>1. Step(s, "plSelect", "commit")
      BY <1>1, <2>3 DEF PlSelect
    <3> QED
      BY <2>1, <2>2, <2>3, <3>1, LoadKeeps DEF Places, Handling, Unloaded
  <2>4. CASE holding # NoHolding
    <3>1. Step(s, "plSelect", "plBuys")
      BY <1>1, <2>4 DEF PlSelect
    <3> QED
      BY <2>1, <2>2, <2>4, <3>1, LoadKeeps DEF Places, Unloaded
  <2> QED
    BY <2>3, <2>4
<1>2. CASE object[s] # NoHolding
  BY <1>2 DEF PlSelect, TypeInv, TypeOK, HandlerRows, Step, tables,
              holdingVars, IsOpen, Places, Handling, Unloaded
<1> QED
  BY <1>1, <1>2

LEMMA PlPriceKeeps ==
    ASSUME TypeInv, NEW s \in Sessions, PlPrice(s)
    PROVE  TypeInv'
<1>1. object[s] \in [Columns -> Int]
  BY DEF TypeInv, TypeOK, HandlerRows, PlPrice, Step, Handling, Rows
<1>2. PICK p \in Prices \cup {0} :
         object' = [object EXCEPT ![s] = Valued(Priced(object[s], p))]
  BY DEF PlPrice
<1>3. Priced(object[s], p) \in [Columns -> Int]
  BY <1>1, PricesAssumption DEF Priced, Columns
<1>4. Valued(Priced(object[s], p)) \in [Columns -> Int]
  BY <1>3, ValuedIsRow
<1>6. Step(s, "plPrice", "plFlush") /\ UNCHANGED <<pending, loaded, tally>>
  BY DEF PlPrice
<1> QED
  BY <1>2, <1>4, <1>6, AssignKeeps DEF Places, Unloaded

LEMMA CheckSellsKeeps ==
    ASSUME TypeInv, NEW s \in Sessions, CheckSells(s)
    PROVE  TypeInv'
<1>1. AverageHeld(s) \in Int
  BY HeldIsInteger
<1>2. tally' = [tally EXCEPT ![s].before = AverageHeld(s)]
  BY DEF CheckSells
<1>3. tally' \in [Sessions -> [quantity : Int, cost : Int, before : Int]]
  BY <1>1, <1>2 DEF TypeInv, TypeOK
<1> QED
  BY <1>3 DEF CheckSells, TypeInv, TypeOK, HandlerRows, Step, tables,
              IsOpen, Places, Handling, Unloaded

LEMMA FlushKeeps ==
    ASSUME TypeInv, NEW s \in Sessions, NEW at \in Handling, NEW next \in Places,
           next \notin Unloaded, Flush(s, at, next)
    PROVE  TypeInv'
  BY DEF Flush, TypeInv, TypeOK, HandlerRows, Step, tables, IsOpen, Handling,
         Unloaded, DirtyColumns, Rows

\* A flush writes columns of the holding row only.
LEMMA FlushWrites ==
    ASSUME TypeInv, NEW s \in Sessions, NEW at, NEW next, Flush(s, at, next)
    PROVE  /\ pending'[s].transactions = pending[s].transactions
           /\ pending'[s].dividends = pending[s].dividends
           /\ pending'[s].splits = pending[s].splits
           /\ pending'[s].deleted = pending[s].deleted
           /\ pending'[s].ratios = pending[s].ratios
           /\ \A t \in Sessions \ {s} : pending'[t] = pending[t]
           /\ loaded'[s] = object[s] /\ object'[s] = object[s]
  BY DEF Flush, TypeInv, TypeOK, NothingPending

\* The remaining statements of create_transaction and create_dividend.
LEMMA RegisterKeeps ==
    ASSUME TypeInv, NEW s \in Sessions,
           RegisterTrade(s) \/ RegisterDividend(s)
    PROVE  TypeInv'
<1>1. CASE RegisterTrade(s)
  BY <1>1 DEF RegisterTrade, TypeInv, TypeOK, HandlerRows, Step, tables,
              holdingVars, IsOpen, Places, Handling, Unloaded, NothingPending
<1>2. CASE RegisterDividend(s)
  BY <1>2 DEF RegisterDividend, TypeInv, TypeOK, HandlerRows, Step, tables,
              holdingVars, IsOpen, Places, Handling, Unloaded, NothingPending
<1> QED
  BY <1>1, <1>2

LEMMA SelectHoldingKeeps ==
    ASSUME TypeInv, NEW s \in Sessions, SelectHolding(s)
    PROVE  TypeInv'
<1> DEFINE next == IF Asked(s) = "sell" THEN "checkBuys" ELSE "register"
<1>1. Step(s, "select", next) /\ Load(s, holding)
  BY DEF SelectHolding
<1>2. pending[s].columns = {} /\ holding \in Rows
  BY <1>1 DEF Step, TypeInv, TypeOK, HandlerRows, Unloaded
<1>3. next \in Places /\ next \notin Unloaded /\ next \notin Handling
  BY DEF Places, Unloaded, Handling
<1> HIDE DEF next
<1> QED
  BY <1>1, <1>2, <1>3, LoadKeeps

LEMMA AssignRealizedKeeps ==
    ASSUME TypeInv, NEW s \in Sessions, NEW at \in Handling, NEW next \in Places,
           next \notin Unloaded, AssignRealized(s, at, next)
    PROVE  TypeInv'
<1> DEFINE r == RealizedPl(VisibleTransactions(s))
<1>1. r \in Int
  BY AggregatesAreIntegers
<1>2. object[s] \in [Columns -> Int]
  BY DEF AssignRealized, Step, TypeInv, TypeOK, HandlerRows, Rows
<1> HIDE DEF r
<1>3. [object[s] EXCEPT !.realized = r] \in [Columns -> Int]
  BY <1>1, <1>2 DEF Columns
<1>4. object' = [object EXCEPT ![s] = [object[s] EXCEPT !.realized = r]]
  BY DEF AssignRealized, r
<1>5. Step(s, at, next) /\ UNCHANGED <<pending, loaded, tally>>
  BY DEF AssignRealized
<1>6. at \notin {"idle", "done"}
  BY DEF Handling
<1> QED
  BY <1>3, <1>4, <1>5, <1>6, AssignKeeps

LEMMA PlDividendKeeps ==
    ASSUME TypeInv, NEW s \in Sessions, PlDividend(s)
    PROVE  TypeInv'
<1> DEFINE d == TotalDividend(VisibleDividends(s))
<1>1. d \in Int
  BY AggregatesAreIntegers
<1>2. object[s] \in [Columns -> Int]
  BY DEF PlDividend, Step, TypeInv, TypeOK, HandlerRows, Rows, Handling
<1> HIDE DEF d
<1>3. [object[s] EXCEPT !.dividend = d] \in [Columns -> Int]
  BY <1>1, <1>2 DEF Columns
<1>4. object' = [object EXCEPT ![s] = [object[s] EXCEPT !.dividend = d]]
  BY DEF PlDividend, d
<1>5. /\ Step(s, "plDividend", "plPrice")
      /\ UNCHANGED <<pending, loaded, tally>>
  BY DEF PlDividend
<1> QED
  BY <1>3, <1>4, <1>5, AssignKeeps DEF Places, Unloaded

LEMMA HoldingStatementKeeps ==
    ASSUME TypeInv, NEW s \in Sessions, HoldingStatement(s)
    PROVE  TypeInv'
<1> USE DEF Places, Handling, Unloaded
<1>1. CASE SelectHolding(s)
  BY <1>1, SelectHoldingKeeps
<1>2. CASE RefuseNoHolding(s) \/ RefuseShort(s) \/ FlushKeyTaken(s)
  BY <1>2, RollbackKeeps DEF RefuseNoHolding, RefuseShort, FlushKeyTaken, Refuse
<1>3. CASE CheckBuys(s)
  BY <1>3, ReadBuysKeeps DEF CheckBuys
<1>4. CASE CheckSells(s)
  BY <1>4, CheckSellsKeeps
<1>5. CASE RegisterTrade(s) \/ RegisterDividend(s)
  BY <1>5, RegisterKeeps
<1>6. CASE SumBuys(s)
  BY <1>6, ReadBuysKeeps DEF SumBuys
<1>7. CASE SumSells(s)
  <2> DEFINE next == IF Asked(s) = "sell" THEN "sumRealized" ELSE "flush"
  <2>1. next \in Places /\ next \notin Unloaded
    OBVIOUS
  <2>2. /\ Step(s, "sumSells", next) /\ AssignHeld(s)
        /\ UNCHANGED <<pending, loaded, tally>>
    BY <1>7 DEF SumSells
  <2> HIDE DEF next
  <2> QED
    BY <2>1, <2>2, AssignHeldKeeps
<1>8. CASE SumRealized(s)
  BY <1>8, AssignRealizedKeeps DEF SumRealized
<1>9. CASE FlushHandler(s)
  BY <1>9, FlushKeeps DEF FlushHandler
<1>10. CASE SelectForDividend(s)
  BY <1>10, SelectForDividendKeeps
<1>11. CASE PlSelect(s)
  BY <1>11, PlSelectKeeps
<1>12. CASE PlBuys(s)
  <2>1. object[s] # NoHolding
    BY <1>12 DEF PlBuys, ReadBuys, Step, TypeInv, HandlerRows
  <2> QED
    BY <1>12, <2>1, ReadBuysKeeps DEF PlBuys
<1>13. CASE PlSells(s)
  BY <1>13, AssignHeldKeeps DEF PlSells
<1>14. CASE PlRealized(s)
  BY <1>14, AssignRealizedKeeps DEF PlRealized
<1>15. CASE PlDividend(s)
  BY <1>15, PlDividendKeeps
<1>16. CASE PlPrice(s)
  BY <1>16, PlPriceKeeps
<1>17. CASE PlFlush(s)
  BY <1>17, FlushKeeps DEF PlFlush
<1> QED
  BY <1>1, <1>2, <1>3, <1>4, <1>5, <1>6, <1>7, <1>8, <1>9, <1>10, <1>11,
     <1>12, <1>13, <1>14, <1>15, <1>16, <1>17 DEF HoldingStatement

\* A statement that writes neither the object nor a column of the holding row.
LEMMA WriteKeeps ==
    ASSUME TypeInv, NEW s \in Sessions, NEW at, NEW next \in Places,
           Step(s, at, next), at \notin {"idle", "done"},
           next \notin Handling,
           next \in Unloaded =>
              loaded[s] = NoHolding /\ pending[s].columns = {},
           DOMAIN pending' = Sessions,
           DOMAIN pending'[s] = DOMAIN pending[s],
           pending'[s].columns = pending[s].columns,
           \A t \in Sessions \ {s} : pending'[t] = pending[t],
           UNCHANGED holdingVars
    PROVE  TypeInv'
<1>1. TypeOK'
  BY DEF TypeInv, TypeOK, Step, tables, holdingVars
<1>2. HandlerRows'
  BY DEF TypeInv, TypeOK, HandlerRows, Step, tables, holdingVars, IsOpen
<1> QED
  BY <1>1, <1>2 DEF TypeInv

\* StockSplitService writes no column of the holding row.
LEMMA SplitStatementKeeps ==
    ASSUME TypeInv, NEW s \in Sessions, SplitStatement(s),
           UNCHANGED holdingVars
    PROVE  TypeInv'
<1> USE DEF Places, Handling, Unloaded
<1>1. loaded[s] = NoHolding /\ pending[s].columns = {}
  BY DEF TypeInv, HandlerRows, SplitStatement, EnsureNotDuplicated,
         RefuseDuplicate, InsertSplit, InsertRefused, FindSplit,
         RefuseUnknown, DeleteSplit, ReadSplits, ReadTrades, FlushRatios, Step
<1>2. /\ DOMAIN pending[s] = DOMAIN NothingPending
      /\ DOMAIN pending = Sessions
  BY DEF TypeInv, TypeOK
<1>3. CASE RefuseDuplicate(s) \/ InsertRefused(s) \/ RefuseUnknown(s)
  BY <1>1, <1>3, RollbackKeeps
     DEF RefuseDuplicate, InsertRefused, RefuseUnknown, RefuseSplit
<1>4. CASE EnsureNotDuplicated(s)
  BY <1>1, <1>2, <1>4, WriteKeeps DEF EnsureNotDuplicated
<1>5. CASE FindSplit(s)
  BY <1>1, <1>2, <1>5, WriteKeeps DEF FindSplit
<1>6. CASE ReadSplits(s)
  BY <1>1, <1>2, <1>6, WriteKeeps DEF ReadSplits
<1>7. CASE ReadTrades(s)
  BY <1>1, <1>2, <1>7, WriteKeeps DEF ReadTrades
<1>8. CASE InsertSplit(s)
  <2>1. /\ DOMAIN pending' = Sessions
        /\ DOMAIN pending'[s] = DOMAIN pending[s]
        /\ pending'[s].columns = pending[s].columns
        /\ \A t \in Sessions \ {s} : pending'[t] = pending[t]
    BY <1>2, <1>8 DEF InsertSplit, NothingPending
  <2> QED
    BY <1>1, <1>8, <2>1, WriteKeeps DEF InsertSplit
<1>9. CASE DeleteSplit(s)
  <2>1. /\ DOMAIN pending' = Sessions
        /\ DOMAIN pending'[s] = DOMAIN pending[s]
        /\ pending'[s].columns = pending[s].columns
        /\ \A t \in Sessions \ {s} : pending'[t] = pending[t]
    BY <1>2, <1>9 DEF DeleteSplit, NothingPending
  <2> QED
    BY <1>1, <1>9, <2>1, WriteKeeps DEF DeleteSplit
<1>10. CASE FlushRatios(s)
  <2>1. PICK ratios : pending' = [pending EXCEPT ![s].ratios = ratios]
    BY <1>10 DEF FlushRatios
  <2>2. /\ DOMAIN pending' = Sessions
        /\ DOMAIN pending'[s] = DOMAIN pending[s]
        /\ pending'[s].columns = pending[s].columns
        /\ \A t \in Sessions \ {s} : pending'[t] = pending[t]
    BY <1>2, <2>1 DEF NothingPending
  <2>3. Step(s, "flushRatios", "commit")
    BY <1>10 DEF FlushRatios
  <2> QED
    BY <1>1, <2>2, <2>3, WriteKeeps
<1> QED
  BY <1>3, <1>4, <1>5, <1>6, <1>7, <1>8, <1>9, <1>10 DEF SplitStatement

LEMMA BeginKeeps ==
    ASSUME TypeInv, NEW s \in Sessions, NEW o \in Orders \cup {RefreshOrder},
           Begin(s, o)
    PROVE  TypeInv'
<1>1. o.kind \in Kinds
  BY OrdersAssumption DEF RefreshOrder, OrderRecords, Kinds
<1>2. Entry(o.kind) \in Places /\ Entry(o.kind) \notin Handling
  BY <1>1 DEF Entry, Kinds, Places, Handling
<1>3. pc[s] = "idle" /\ loaded[s] = NoHolding /\ pending[s].columns = {}
  BY DEF Begin, MayBegin, TypeInv, HandlerRows, Unloaded
<1>4. o # NoOrder
  BY OrdersAssumption DEF RefreshOrder, OrderRecords, Kinds
<1>5. TypeOK'
  BY <1>2 DEF Begin, TypeInv, TypeOK, tables, holdingVars
<1>6. HandlerRows'
  BY <1>2, <1>3, <1>4
     DEF Begin, TypeInv, TypeOK, HandlerRows, tables, holdingVars, IsOpen
<1> QED
  BY <1>5, <1>6 DEF TypeInv

LEMMA CommitKeeps ==
    ASSUME TypeInv, NEW s \in Sessions, Commit(s)
    PROVE  TypeInv'
<1> DEFINE written == pending[s].columns
           row == [c \in Columns |-> IF c \in written THEN loaded[s][c]
                                                      ELSE holding[c]]
<1>1. /\ Close(s) /\ ForgetHolding(s)
      /\ holding' = IF written = {} THEN holding ELSE row
  BY DEF Commit, CommitWrites
<1>2. ASSUME written # {} PROVE row \in [Columns -> Int]
  <2>1. loaded[s] \in [Columns -> Int]
    BY <1>2 DEF TypeInv, TypeOK, HandlerRows, Rows
  <2>2. ASSUME NEW c \in Columns \ written PROVE holding[c] \in Int
    <3>1. holding # NoHolding
      BY <1>2 DEF TypeInv, HandlerRows
    <3> QED
      BY <3>1 DEF TypeInv, TypeOK, Rows
  <2> QED
    BY <2>1, <2>2
<1> HIDE DEF written, row
<1>3. holding' \in Rows /\ (holding # NoHolding => holding' # NoHolding)
  BY <1>1, <1>2, NoHoldingAssumption DEF TypeInv, TypeOK, Rows
<1> QED
  BY <1>1, <1>3, CloseKeeps

LEMMA TypeInvNext ==
    ASSUME TypeInv, [Next]_vars
    PROVE  TypeInv'
<1>1. ASSUME NEW r \in Requests, BeginRequest(r) PROVE TypeInv'
  BY <1>1, BeginKeeps DEF BeginRequest, Sessions
<1>2. ASSUME NEW j \in Jobs, BeginJob(j) PROVE TypeInv'
  BY <1>2, BeginKeeps DEF BeginJob, Sessions
<1>3. ASSUME NEW s \in Sessions, Statement(s) PROVE TypeInv'
  BY <1>3, HoldingStatementKeeps, SplitStatementKeeps, CommitKeeps
     DEF Statement
<1>4. ASSUME NEW s \in Sessions, Fail(s) PROVE TypeInv'
  BY <1>4, RollbackKeeps DEF Fail
<1>5. CASE UNCHANGED vars
  BY <1>5 DEF TypeInv, TypeOK, HandlerRows, IsOpen, vars, tables, session,
              holdingVars
<1> QED
  BY <1>1, <1>2, <1>3, <1>4, <1>5 DEF Next

\* In every state, whatever the sessions, orders and prices: each session is
\* at a statement of its handler, the committed row and the ORM objects are
\* rows with all their columns or absent, and a handler that assigns to
\* `holding` (transaction_service.py, holding_service.py) has one.
THEOREM TypeCorrect == Spec => []TypeOK
<1>1. Init => TypeInv
  BY TypeInvInit
<1>2. TypeInv /\ [Next]_vars => TypeInv'
  BY TypeInvNext
<1>3. TypeInv => TypeOK
  BY DEF TypeInv
<1> QED
  BY <1>1, <1>2, <1>3, PTL DEF Spec

-----------------------------------------------------------------------------
(* No interleaving of registrations and deletions leaves a position with   *)
(* two splits of one date.                                                 *)

\* A split about to be committed has a date of its own: no committed split
\* has it, and no other open session is about to commit it.
PendingDatesFree ==
    \A s \in Sessions : \A sp \in pending[s].splits :
       /\ \A other \in splits : other.date # sp.date
       /\ \A t \in Sessions : \A other \in pending[t].splits :
             other.date = sp.date => t = s /\ other = sp

DatesInv == SplitDatesUnique /\ PendingDatesFree

-----------------------------------------------------------------------------

\* A step that commits no split and writes none.
LEMMA NoNewSplitKeeps ==
    ASSUME DatesInv, UNCHANGED splits,
           \A t \in Sessions : pending'[t].splits \subseteq pending[t].splits
    PROVE  DatesInv'
  BY DEF DatesInv, SplitDatesUnique, PendingDatesFree

\* The end of a session takes its splits out of the pending ones.
LEMMA ClosePending ==
    ASSUME TypeInv, NEW s \in Sessions, Close(s)
    PROVE  /\ pending'[s].splits = {}
           /\ \A t \in Sessions \ {s} : pending'[t] = pending[t]
  BY DEF Close, NothingPending, TypeInv, TypeOK

LEMMA RollbackKeepsDates ==
    ASSUME TypeInv, DatesInv, NEW s \in Sessions, RollbackWrites(s)
    PROVE  DatesInv'
  BY ClosePending, NoNewSplitKeeps DEF RollbackWrites, tables

LEMMA HoldingStatementKeepsDates ==
    ASSUME TypeInv, DatesInv, NEW s \in Sessions, HoldingStatement(s)
    PROVE  DatesInv'
<1>1. CASE RefuseNoHolding(s) \/ RefuseShort(s) \/ FlushKeyTaken(s)
  BY <1>1, RollbackKeepsDates
     DEF RefuseNoHolding, RefuseShort, FlushKeyTaken, Refuse
<1>2. CASE RegisterTrade(s) \/ RegisterDividend(s)
  <2>1. UNCHANGED splits
    BY <1>2 DEF RegisterTrade, RegisterDividend, Step, tables
  <2>2. \/ \E T : pending' = [pending EXCEPT ![s].transactions = T]
        \/ \E D : pending' = [pending EXCEPT ![s].dividends = D]
    BY <1>2 DEF RegisterTrade, RegisterDividend
  <2>3. \A t \in Sessions : pending'[t].splits = pending[t].splits
    BY <2>2 DEF TypeInv, TypeOK, NothingPending
  <2> QED
    BY <2>1, <2>3, NoNewSplitKeeps
<1>3. CASE FlushHandler(s) \/ PlFlush(s)
  <2>1. PICK at \in {"flush", "plFlush"} : \E next : Flush(s, at, next)
    BY <1>3 DEF FlushHandler, PlFlush
  <2>2. PICK next : Flush(s, at, next)
    BY <2>1
  <2>3. \A t \in Sessions : pending'[t].splits = pending[t].splits
    BY <2>2, FlushWrites
  <2>4. UNCHANGED splits
    BY <2>2 DEF Flush, Step, tables
  <2> QED
    BY <2>3, <2>4, NoNewSplitKeeps
<1>4. CASE UNCHANGED <<splits, pending>>
  BY <1>4, NoNewSplitKeeps
<1> QED
  BY <1>1, <1>2, <1>3, <1>4
     DEF HoldingStatement, Step, tables, SelectHolding, CheckBuys, CheckSells,
         SumBuys, SumSells, SumRealized, SelectForDividend, PlSelect, PlBuys,
         PlSells, PlRealized, PlDividend, PlPrice, Load, ReadBuys,
         AssignRealized

LEMMA SplitStatementKeepsDates ==
    ASSUME TypeInv, DatesInv, NEW s \in Sessions, SplitStatement(s)
    PROVE  DatesInv'
<1>1. CASE RefuseDuplicate(s) \/ InsertRefused(s) \/ RefuseUnknown(s)
  BY <1>1, RollbackKeepsDates
     DEF RefuseDuplicate, InsertRefused, RefuseUnknown, RefuseSplit
<1>2. CASE InsertSplit(s)
  <2> DEFINE new == [id |-> s, date |-> order[s].date,
                     ratio |-> order[s].quantity]
  <2>1. /\ UNCHANGED splits
        /\ pending'[s].splits = {new}
        /\ \A t \in Sessions \ {s} : pending'[t].splits = pending[t].splits
    BY <1>2 DEF InsertSplit, Step, tables, TypeInv, TypeOK, NothingPending
  <2>2. \A other \in splits : other.date # new.date
    BY <1>2 DEF InsertSplit, DateTaken
  <2>3. \A t \in Sessions \ {s} : \A other \in pending[t].splits :
           other.date # new.date
    BY <1>2 DEF InsertSplit, SplitDateLocked
  <2> HIDE DEF new
  <2> QED
    BY <2>1, <2>2, <2>3 DEF DatesInv, SplitDatesUnique, PendingDatesFree
<1>3. CASE DeleteSplit(s)
  <2>1. /\ UNCHANGED splits
        /\ \A t \in Sessions : pending'[t].splits = pending[t].splits
    BY <1>3 DEF DeleteSplit, Step, tables, TypeInv, TypeOK, NothingPending
  <2> QED
    BY <2>1, NoNewSplitKeeps
<1>4. CASE FlushRatios(s)
  <2>1. PICK ratios : pending' = [pending EXCEPT ![s].ratios = ratios]
    BY <1>4 DEF FlushRatios
  <2>2. UNCHANGED splits
    BY <1>4 DEF FlushRatios, Step, tables
  <2>3. \A t \in Sessions : pending'[t].splits = pending[t].splits
    BY <2>1 DEF TypeInv, TypeOK, NothingPending
  <2> QED
    BY <2>2, <2>3, NoNewSplitKeeps
<1>5. CASE UNCHANGED <<splits, pending>>
  BY <1>5, NoNewSplitKeeps
<1> QED
  BY <1>1, <1>2, <1>3, <1>4, <1>5
     DEF SplitStatement, EnsureNotDuplicated, FindSplit, ReadSplits,
         ReadTrades, Step, tables

\* The splits a session commits have dates nobody else has.
LEMMA CommitKeepsDates ==
    ASSUME TypeInv, DatesInv, NEW s \in Sessions, Commit(s)
    PROVE  DatesInv'
<1>1. splits' \subseteq splits \cup pending[s].splits
  BY DEF Commit, CommitWrites
<1>2. /\ pending'[s].splits = {}
      /\ \A t \in Sessions \ {s} : pending'[t] = pending[t]
  BY ClosePending DEF Commit, CommitWrites
<1>3. SplitDatesUnique'
  BY <1>1 DEF DatesInv, SplitDatesUnique, PendingDatesFree
<1>4. PendingDatesFree'
  BY <1>1, <1>2 DEF DatesInv, PendingDatesFree
<1> QED
  BY <1>3, <1>4 DEF DatesInv

LEMMA DatesInvNext ==
    ASSUME TypeInv, DatesInv, [Next]_vars
    PROVE  DatesInv'
<1>1. ASSUME NEW s \in Sessions, NEW o, Begin(s, o) PROVE DatesInv'
  BY <1>1, NoNewSplitKeeps DEF Begin, tables
<1>2. ASSUME NEW s \in Sessions, Statement(s) PROVE DatesInv'
  BY <1>2, HoldingStatementKeepsDates, SplitStatementKeepsDates,
     CommitKeepsDates DEF Statement
<1>3. ASSUME NEW s \in Sessions, Fail(s) PROVE DatesInv'
  BY <1>3, RollbackKeepsDates DEF Fail
<1>4. CASE UNCHANGED vars
  BY <1>4, NoNewSplitKeeps DEF vars, tables, session
<1> QED
  BY <1>1, <1>2, <1>3, <1>4 DEF Next, BeginRequest, BeginJob, Sessions

\* A position has one split per date however the checks and inserts of its
\* registrations interleave: the check in _ensure_not_duplicated can pass in
\* two sessions at once, the unique key uq_user_symbol_split_date cannot.
THEOREM OneSplitPerDate == Spec => []SplitDatesUnique
<1>1. Init => TypeInv
  BY TypeInvInit
<1>2. Init => DatesInv
  BY DEF Init, DatabaseInit, DatesInv, SplitDatesUnique, PendingDatesFree,
         NothingPending
<1>3. TypeInv /\ [Next]_vars => TypeInv'
  BY TypeInvNext
<1>4. TypeInv /\ DatesInv /\ [Next]_vars => DatesInv'
  BY DatesInvNext
<1>5. DatesInv => SplitDatesUnique
  BY DEF DatesInv
<1> QED
  BY <1>1, <1>2, <1>3, <1>4, <1>5, PTL DEF Spec

=============================================================================
