-------------------------- MODULE PositionDatabase --------------------------
(***************************************************************************)
(* The PostgreSQL side of one position: its committed rows, the database   *)
(* sessions open on it and what each of them has written and not yet       *)
(* committed.  A request is one session and one transaction (get_db);      *)
(* statements run at READ COMMITTED, so each statement of a session sees   *)
(* the rows committed so far and the session's own writes, and a write     *)
(* waits for the row lock of another open session's write.                 *)
(*                                                                         *)
(* A request comes once; a job (the scheduled refresh) runs again and      *)
(* again.  The modules that extend this one add the statements each kind   *)
(* of request executes.                                                    *)
(***************************************************************************)
EXTENDS PositionArithmetic

CONSTANTS
    Requests,      \* HTTP requests, each sent at most once
    Jobs,          \* sessions of the scheduled refresh
    Orders,        \* what a request may ask for: [kind, date, quantity, price]
    Openings,      \* the sets of trades the position may start with
    OpeningPrice,  \* the price of the holding row those trades left behind
    NoHolding,     \* there is no row in `holdings`
    NoOrder,       \* the order of a session that is not open
    Overlap        \* may a request arrive while another session is open?

Sessions == Requests \cup Jobs

Kinds == {"buy", "sell", "dividend", "split", "unsplit", "recalculate",
          "refresh"}

\* The columns of the holding row.
Columns == {"quantity", "average", "cost", "realized", "dividend", "price",
            "value", "pl"}

VARIABLES
    transactions,  \* committed rows of `transactions`
    dividends,     \* committed rows of `dividend`
    splits,        \* committed rows of `stock_splits`
    holding,       \* committed row of `holdings`, or NoHolding
    pc,            \* pc[s]: the statement session s executes next
    order,         \* order[s]: what session s was asked for
    pending        \* pending[s]: the uncommitted writes of session s

tables  == <<transactions, dividends, splits, holding>>
session == <<pc, order, pending>>

\* `columns` are the columns of the holding row the session has written,
\* `ratios` the adjusted columns of the trades it has written, by trade id.
NothingPending ==
    [transactions |-> {}, dividends |-> {}, splits |-> {}, deleted |-> {},
     columns |-> {}, ratios |-> [i \in {} |-> 1]]

TradeRow(id, o, realized) ==
    [id |-> id, kind |-> o.kind, date |-> o.date, quantity |-> o.quantity,
     price |-> o.price, ratio |-> 1, realized |-> realized]

\* market_value and total_pl of a row, from its other columns.
Valued(row) ==
    LET value == row.price * row.quantity
    IN  [row EXCEPT !.value = value,
                    !.pl = value - row.cost + row.realized + row.dividend]

\* The row create_transaction leaves for a set of trades.
OpeningRow(T) ==
    Valued([c \in Columns |->
              CASE c = "quantity" -> HeldQuantity(T)
                [] c = "average"  -> AverageCost(T)
                [] c = "cost"     -> HeldCost(T)
                [] c = "realized" -> RealizedPl(T)
                [] c = "price"    -> OpeningPrice
                [] OTHER          -> 0])

DatabaseInit ==
    /\ transactions \in Openings
    /\ dividends = {}
    /\ splits = {}
    /\ holding = IF transactions = {} THEN NoHolding
                                      ELSE OpeningRow(transactions)
    /\ pc = [s \in Sessions |-> "idle"]
    /\ order = [s \in Sessions |-> NoOrder]
    /\ pending = [s \in Sessions |-> NothingPending]

-----------------------------------------------------------------------------

IsOpen(s) == pc[s] \notin {"idle", "done"}

MayBegin(s) ==
    /\ pc[s] = "idle"
    /\ Overlap \/ \A t \in Sessions : ~IsOpen(t)

\* What the statements of s see of a table another session may write too.
VisibleTransactions(s) == transactions \cup pending[s].transactions
VisibleDividends(s)    == dividends \cup pending[s].dividends
VisibleSplits(s)       == (splits \cup pending[s].splits) \ pending[s].deleted

\* Row locks, each held from the write to the end of the writing session.
HoldingLocked(s) == \E t \in Sessions \ {s} : pending[t].columns # {}
TradeLocked(s, id) ==
    \E t \in Sessions \ {s} : id \in DOMAIN pending[t].ratios
SplitDateLocked(s, date) ==
    \E t \in Sessions \ {s} :
       \E sp \in pending[t].splits \cup pending[t].deleted : sp.date = date
SplitRowLocked(s, sp) == \E t \in Sessions \ {s} : sp \in pending[t].deleted

\* The session ends: its request is over, or its job waits for the next run.
Close(s) ==
    /\ pc' = [pc EXCEPT ![s] = IF s \in Jobs THEN "idle" ELSE "done"]
    /\ order' = [order EXCEPT ![s] = NoOrder]
    /\ pending' = [pending EXCEPT ![s] = NothingPending]

\* COMMIT: the writes of s become the committed rows.  Of the holding row
\* only the written columns change; `row` holds their values.
CommitWrites(s, row) ==
    LET p == pending[s]
        Adjusted(t) == IF t.id \in DOMAIN p.ratios
                       THEN [t EXCEPT !.ratio = p.ratios[t.id]]
                       ELSE t
    IN  /\ transactions' = {Adjusted(t) : t \in transactions}
                               \cup p.transactions
        /\ dividends' = dividends \cup p.dividends
        /\ splits' = (splits \cup p.splits) \ p.deleted
        /\ holding' = IF p.columns = {}
                      THEN holding
                      ELSE [c \in Columns |-> IF c \in p.columns
                                              THEN row[c]
                                              ELSE holding[c]]
        /\ Close(s)

\* ROLLBACK, by an error or an HTTPException: nothing of s remains.
RollbackWrites(s) ==
    /\ Close(s)
    /\ UNCHANGED tables

\* Session s goes on from statement `at` to statement `next`.
Step(s, at, next) ==
    /\ pc[s] = at
    /\ pc' = [pc EXCEPT ![s] = next]
    /\ UNCHANGED <<tables, order>>

=============================================================================
