-------------------------- MODULE HoldingRequests --------------------------
(***************************************************************************)
(* The requests that keep the holding row up to date, one action per       *)
(* statement they await: create_transaction (buy and sell),                *)
(* create_dividend, update_single_holding_pl at the end of both, and the   *)
(* scheduled update_all_holdings_pl as it treats one holding.              *)
(*                                                                         *)
(* The ORM loads the holding row once per session.  `object` is the object *)
(* in the session's identity map, `loaded` the values it had when it was   *)
(* last loaded or flushed: a flush writes the columns whose value differs  *)
(* between the two, and a later SELECT of the same row changes neither.    *)
(***************************************************************************)
EXTENDS PositionDatabase

CONSTANT Prices   \* what a price lookup may return; 0 is a failed lookup

VARIABLES
    object,   \* object[s]: the Holding object of session s, or NoHolding
    loaded,   \* loaded[s]: its values in the database as s knows them
    tally     \* tally[s]: results of s's earlier statements it still needs

holdingVars == <<object, loaded, tally>>

NoTally == [quantity |-> 0, cost |-> 0, before |-> 0]

HoldingInit ==
    /\ object = [s \in Sessions |-> NoHolding]
    /\ loaded = [s \in Sessions |-> NoHolding]
    /\ tally = [s \in Sessions |-> NoTally]

ForgetHolding(s) ==
    /\ object' = [object EXCEPT ![s] = NoHolding]
    /\ loaded' = [loaded EXCEPT ![s] = NoHolding]
    /\ tally' = [tally EXCEPT ![s] = NoTally]

Refuse(s) == RollbackWrites(s) /\ ForgetHolding(s)

Asked(s) == order[s].kind

-----------------------------------------------------------------------------
(* Statements the requests share.                                          *)

Load(s, row) ==
    /\ object' = [object EXCEPT ![s] = row]
    /\ loaded' = [loaded EXCEPT ![s] = holding]
    /\ UNCHANGED <<pending, tally>>

\* The first query of calculate_holding_from_transactions: the buys.
ReadBuys(s, at, next) ==
    /\ Step(s, at, next)
    /\ tally' = [tally EXCEPT
                   ![s].quantity = BuyQuantity(VisibleTransactions(s)),
                   ![s].cost = BuyCost(VisibleTransactions(s))]
    /\ UNCHANGED <<pending, object, loaded>>

\* The second one, the sells, and what the function returns.
Held(s) == tally[s].quantity - SellQuantity(VisibleTransactions(s))
AverageHeld(s) == Average(tally[s].cost, tally[s].quantity)

\* A slip: the columns the constructor is not given stay unset.
HoldingWithoutDefaults == [c \in {"quantity", "average", "cost"} |-> 0]

\* Attributes of a Holding object the handler has just constructed.
NewHolding == [c \in Columns |-> 0]

AssignHeld(s) ==
    LET o == IF object[s] = NoHolding THEN NewHolding ELSE object[s]
    IN  object' = [object EXCEPT
                     ![s] = [o EXCEPT !.quantity = Held(s),
                                      !.average = AverageHeld(s),
                                      !.cost = Held(s) * AverageHeld(s)]]

AssignRealized(s, at, next) ==
    /\ Step(s, at, next)
    /\ object' = [object EXCEPT
                    ![s].realized = RealizedPl(VisibleTransactions(s))]
    /\ UNCHANGED <<pending, loaded, tally>>

\* session.flush(): INSERT a new row, UPDATE the changed columns of a loaded
\* one, or send nothing.  Either statement waits for the row's lock.
DirtyColumns(s) ==
    IF loaded[s] = NoHolding
    THEN Columns
    ELSE {c \in Columns : object[s][c] # loaded[s][c]}

KeyTaken(s) == loaded[s] = NoHolding /\ holding # NoHolding

Flush(s, at, next) ==
    /\ Step(s, at, next)
    /\ DirtyColumns(s) # {} => ~HoldingLocked(s)
    /\ ~KeyTaken(s)
    /\ loaded' = [loaded EXCEPT ![s] = object[s]]
    /\ pending' = [pending EXCEPT ![s].columns = @ \cup DirtyColumns(s)]
    /\ UNCHANGED <<object, tally>>

-----------------------------------------------------------------------------
(* create_transaction                                                      *)

SelectHolding(s) ==
    /\ Step(s, "select", IF Asked(s) = "sell" THEN "checkBuys" ELSE "register")
    /\ Asked(s) = "sell" => holding # NoHolding
    /\ Load(s, holding)

\* A sale of what is not held: 400, and the session rolls back.
RefuseNoHolding(s) ==
    /\ pc[s] = "select"
    /\ Asked(s) = "sell"
    /\ holding = NoHolding
    /\ Refuse(s)

CheckBuys(s) == ReadBuys(s, "checkBuys", "checkSells")

\* A slip: the sale is registered whatever is held.
CheckNothing(s) ==
    /\ Step(s, "checkSells", "register")
    /\ tally' = [tally EXCEPT ![s].before = AverageHeld(s)]
    /\ UNCHANGED <<pending, object, loaded>>

CheckSells(s) ==
    /\ Step(s, "checkSells", "register")
    /\ Held(s) >= order[s].quantity
    /\ tally' = [tally EXCEPT ![s].before = AverageHeld(s)]
    /\ UNCHANGED <<pending, object, loaded>>

\* A sale of more than is held: 400, and the session rolls back.
RefuseShort(s) ==
    /\ pc[s] = "checkSells"
    /\ Held(s) < order[s].quantity
    /\ Refuse(s)

\* INSERT of the trade; the realized P/L of a sale is set on the same
\* uncommitted row before anything reads it.
RegisterTrade(s) ==
    LET o == order[s]
        realized == IF o.kind = "sell"
                    THEN (o.price - tally[s].before) * o.quantity
                    ELSE 0
    IN  /\ Step(s, "register", "sumBuys")
        /\ pending' = [pending EXCEPT
                         ![s].transactions = {TradeRow(s, o, realized)}]
        /\ UNCHANGED holdingVars

SumBuys(s) == ReadBuys(s, "sumBuys", "sumSells")

SumSells(s) ==
    /\ Step(s, "sumSells", IF Asked(s) = "sell" THEN "sumRealized" ELSE "flush")
    /\ AssignHeld(s)
    /\ UNCHANGED <<pending, loaded, tally>>

SumRealized(s) == AssignRealized(s, "sumRealized", "flush")

\* A slip: the request ends without update_single_holding_pl.
FlushWithoutPl(s) == Flush(s, "flush", "commit")

\* A slip: the row is flushed, and so locked, only after its last aggregate.
FlushDeferred(s) ==
    /\ Step(s, "flush", "plSelect")
    /\ UNCHANGED <<pending, holdingVars>>

FlushHandler(s) == Flush(s, "flush", "plSelect")

\* Two first buys: the second INSERT of the same key fails once the first
\* is committed, and its request rolls back with an error.
FlushKeyTaken(s) ==
    /\ pc[s] = "flush"
    /\ KeyTaken(s)
    /\ Refuse(s)

-----------------------------------------------------------------------------
(* create_dividend                                                         *)

RegisterDividend(s) ==
    /\ Step(s, "registerDividend", "selectForDividend")
    /\ pending' = [pending EXCEPT
                     ![s].dividends = {[id |-> s, amount |-> order[s].quantity]}]
    /\ UNCHANGED holdingVars

SelectForDividend(s) ==
    IF holding = NoHolding
    THEN Step(s, "selectForDividend", "plSelect") /\ Load(s, NoHolding)
    ELSE /\ Step(s, "selectForDividend", "flush")
         /\ Load(s, [holding EXCEPT !.dividend = @ + order[s].quantity])

-----------------------------------------------------------------------------
(* update_single_holding_pl and calculate_holding_pl                       *)

\* A row already in the identity map is not read again.
PlSelect(s) ==
    IF object[s] = NoHolding
    THEN /\ Step(s, "plSelect",
                 IF holding = NoHolding THEN "commit" ELSE "plBuys")
         /\ Load(s, holding)
    ELSE /\ Step(s, "plSelect", "plBuys")
         /\ UNCHANGED <<pending, holdingVars>>

PlBuys(s) == ReadBuys(s, "plBuys", "plSells")

PlSells(s) ==
    /\ Step(s, "plSells", "plRealized")
    /\ AssignHeld(s)
    /\ UNCHANGED <<pending, loaded, tally>>

PlRealized(s) == AssignRealized(s, "plRealized", "plDividend")

\* A slip: the total is left to what create_dividend adds to it.
PlDividendKept(s) ==
    /\ Step(s, "plDividend", "plPrice")
    /\ UNCHANGED <<pending, holdingVars>>

PlDividend(s) ==
    /\ Step(s, "plDividend", "plPrice")
    /\ object' = [object EXCEPT
                    ![s].dividend = TotalDividend(VisibleDividends(s))]
    /\ UNCHANGED <<pending, loaded, tally>>

\* The price a lookup found replaces the row's; a failed one leaves it.
Priced(row, p) == IF p > 0 THEN [row EXCEPT !.price = p] ELSE row

\* The price lookup (skipped when nothing is held) and the values computed
\* from it.
PlPrice(s) ==
    /\ Step(s, "plPrice", "plFlush")
    /\ \E p \in IF object[s].quantity > 0 THEN Prices ELSE {0} :
          object' = [object EXCEPT ![s] = Valued(Priced(object[s], p))]
    /\ UNCHANGED <<pending, loaded, tally>>

PlFlush(s) == Flush(s, "plFlush", "commit")

HoldingStatement(s) ==
    \/ SelectHolding(s)
    \/ RefuseNoHolding(s)
    \/ CheckBuys(s)
    \/ CheckSells(s)
    \/ RefuseShort(s)
    \/ RegisterTrade(s)
    \/ SumBuys(s)
    \/ SumSells(s)
    \/ SumRealized(s)
    \/ FlushHandler(s)
    \/ FlushKeyTaken(s)
    \/ RegisterDividend(s)
    \/ SelectForDividend(s)
    \/ PlSelect(s)
    \/ PlBuys(s)
    \/ PlSells(s)
    \/ PlRealized(s)
    \/ PlDividend(s)
    \/ PlPrice(s)
    \/ PlFlush(s)

=============================================================================
