--------------------------- MODULE PositionSystem ---------------------------
(***************************************************************************)
(* One position under all the requests that reach it: trades, dividends,   *)
(* splits and the scheduled refresh, their statements interleaved in every *)
(* way READ COMMITTED and the row locks allow.  With Overlap = FALSE a     *)
(* request arrives only when no other is open, which is how one person at  *)
(* one browser uses the application.                                       *)
(***************************************************************************)
EXTENDS HoldingRequests, SplitRequests

CONSTANT Fallible   \* sessions that may fail between two statements

ASSUME SessionsAssumption == Requests \cap Jobs = {}

OrderRecords == [kind : Kinds, date : Nat, quantity : Nat, price : Nat]

ASSUME OrdersAssumption ==
    /\ Orders \subseteq OrderRecords
    /\ NoOrder \notin OrderRecords

ASSUME PricesAssumption ==
    /\ Prices \subseteq Nat /\ Prices # {}
    /\ OpeningPrice \in Nat

\* NoHolding is neither a row nor what the ledger keeps of one.
ASSUME NoHoldingAssumption ==
    /\ NoHolding \notin [Columns -> Int]
    /\ NoHolding \notin [{"quantity", "cost", "realized", "dividend"} -> Int]

\* A row of `transactions`: its columns and no others.
IsTrade(t) ==
    t = [id |-> t.id, kind |-> t.kind, date |-> t.date,
         quantity |-> t.quantity, price |-> t.price, ratio |-> t.ratio,
         realized |-> t.realized]

\* The trades a position starts with are rows with keys of their own.
ASSUME OpeningsAssumption ==
    \A T \in Openings :
       /\ \A t1, t2 \in T : t1.id = t2.id => t1 = t2
       /\ \A t \in T : IsTrade(t) /\ t.id \notin Requests

vars == <<tables, session, holdingVars, splitVars>>

Init == DatabaseInit /\ HoldingInit /\ SplitInit

-----------------------------------------------------------------------------

\* The first statement of a request of each kind.
Entry(kind) ==
    CASE kind \in {"buy", "sell"} -> "select"
      [] kind = "dividend"        -> "registerDividend"
      [] kind = "split"           -> "checkSplit"
      [] kind = "unsplit"         -> "findSplit"
      [] kind = "recalculate"     -> "readSplits"
      [] kind = "refresh"         -> "plSelect"

Begin(s, o) ==
    /\ MayBegin(s)
    /\ pc' = [pc EXCEPT ![s] = Entry(o.kind)]
    /\ order' = [order EXCEPT ![s] = o]
    /\ UNCHANGED <<tables, pending, holdingVars, splitVars>>

BeginRequest(r) == \E o \in Orders : Begin(r, o)

RefreshOrder == [kind |-> "refresh", date |-> 0, quantity |-> 0, price |-> 0]

BeginJob(j) == Begin(j, RefreshOrder)

\* session_scope commits when the handler returns...
Commit(s) ==
    /\ pc[s] = "commit"
    /\ CommitWrites(s, loaded[s])
    /\ ForgetHolding(s)
    /\ ForgetSplits(s)

\* ... and rolls back when it raises, or the process dies, at any statement.
Fail(s) ==
    /\ s \in Fallible
    /\ IsOpen(s)
    /\ RollbackWrites(s)
    /\ ForgetHolding(s)
    /\ ForgetSplits(s)

Statement(s) ==
    \/ HoldingStatement(s) /\ UNCHANGED splitVars
    \/ SplitStatement(s) /\ UNCHANGED holdingVars
    \/ Commit(s)

Next ==
    \/ \E r \in Requests : BeginRequest(r)
    \/ \E j \in Jobs : BeginJob(j)
    \/ \E s \in Sessions : Statement(s) \/ Fail(s)

Spec == Init /\ [][Next]_vars

\* A request that has arrived is executed, lock queues are served in order,
\* and the scheduler starts its job again; no request has to arrive.
Fairness ==
    /\ \A s \in Sessions : SF_vars(Statement(s))
    /\ \A j \in Jobs : WF_vars(BeginJob(j))

FairSpec == Spec /\ Fairness

-----------------------------------------------------------------------------
(* Types                                                                   *)

Places ==
    {"idle", "select", "checkBuys", "checkSells", "register", "sumBuys",
     "sumSells", "sumRealized", "flush", "registerDividend",
     "selectForDividend", "plSelect", "plBuys", "plSells", "plRealized",
     "plDividend", "plPrice", "plFlush", "checkSplit", "insertSplit",
     "findSplit", "deleteSplit", "readSplits", "readTrades", "flushRatios",
     "commit", "done"}

Rows == [Columns -> Int] \cup {NoHolding}

\* Every session is at a statement of the handlers, the holding row is absent
\* or has all its columns, and a session's ORM object is such a row as well.
TypeOK ==
    /\ holding \in Rows
    /\ pc \in [Sessions -> Places]
    /\ order \in [Sessions -> Orders \cup {NoOrder, RefreshOrder}]
    /\ object \in [Sessions -> Rows]
    /\ loaded \in [Sessions -> Rows]
    /\ tally \in [Sessions -> [quantity : Int, cost : Int, before : Int]]
    /\ DOMAIN pending = Sessions
    /\ \A s \in Sessions : /\ DOMAIN pending[s] = DOMAIN NothingPending
                           /\ pending[s].columns \subseteq Columns

-----------------------------------------------------------------------------
(* Safety                                                                  *)

Summary(row) ==
    IF row = NoHolding
    THEN NoHolding
    ELSE [quantity |-> row.quantity, cost |-> row.cost,
          realized |-> row.realized, dividend |-> row.dividend]

Ledger == INSTANCE PositionLedger WITH summary <- Summary(holding)

\* The committed rows change only as the ledger allows, whatever statements
\* the requests are made of (create_transaction, create_dividend,
\* StockSplitService, update_all_holdings_pl).
ImplementsLedger == Ledger!Spec

\* market_value and total_pl are those of the row's own quantity and price
\* (models.py, the comments on Holding's columns).
RowAddsUp == holding # NoHolding => holding = Valued(holding)

\* A sale is committed only if the position covers it (create_transaction
\* refuses a sale of more than is held).
SellsCovered ==
    [][Sells(transactions') \ Sells(transactions) # {}
          => HeldQuantity(transactions') >= 0]_vars

\* One split per date, however the checks and inserts of two registrations
\* interleave (_ensure_not_duplicated and uq_user_symbol_split_date).
SplitDatesUnique ==
    \A sp1, sp2 \in splits : sp1.date = sp2.date => sp1 = sp2

Current ==
    holding # NoHolding =>
        Summary(holding) = Ledger!SummaryOf(transactions, dividends)

\* Whatever the overlapping requests left in the holding row, a later refresh
\* puts the aggregates of the recorded trades and dividends back, and they
\* stay (update_all_holdings_pl recomputes every column).
EventuallyCurrent == <>[](Current /\ RowAddsUp)

=============================================================================
