---------------------------- MODULE StockMaster ----------------------------
(***************************************************************************)
(* The stocks table and the database sessions that add to it: StockService *)
(* and the loops of the two confirm routes, statement by statement.        *)
(*                                                                         *)
(* A session holds ORM objects not yet flushed (pending), rows flushed and *)
(* not committed (inserted, trades), and what its handler has counted; the *)
(* loop catches the error of a row and goes on in the same session.  The   *)
(* routes for one stock lock nothing before their last statement and are   *)
(* one step.                                                               *)
(***************************************************************************)
EXTENDS CsvFiles

CONSTANTS
    Sessions,       \* the sessions of the confirm routes
    Malformed,      \* symbols of no known form
    Unknown         \* symbols no external service knows

VARIABLES
    stocks,         \* [Symbols -> {"none", "unnamed", "named"}], committed
    recorded,       \* committed trades and dividends
    session

masterVars == <<stocks, recorded, session>>

Closed ==
    [pc |-> "closed", rows |-> <<>>, import |-> 0, pending |-> <<>>,
     inserted |-> {}, trades |-> {}, created |-> {}, failed |-> {},
     broken |-> FALSE]

Working(s, label) == session[s].pc = label
Row(s)    == Head(session[s].rows)
Others(s) == Sessions \ {s}

StockOf(name, symbol) == [symbol |-> symbol, named |-> name]

\* What a SELECT of session s finds: committed stocks and its own flushed ones.
FindsStock(s, symbol) ==
    \/ stocks[symbol] # "none"
    \/ \E stock \in session[s].inserted : stock.symbol = symbol

VisibleRecords(s) == recorded \cup session[s].trades

Quantities(records) ==
    MapThenFoldSet(LAMBDA q, sum : q + sum, 0,
                   LAMBDA r : r.row.quantity, LAMBDA S : CHOOSE x \in S : TRUE,
                   records)

HeldOf(s, symbol) ==
    LET of(kind) == {r \in VisibleRecords(s) :
                        r.row.symbol = symbol /\ r.row.kind = kind}
    IN  Quantities(of("buy")) - Quantities(of("sell"))

-----------------------------------------------------------------------------
(* Flushing the pending stocks *)

PendingSymbols(s) == {stock.symbol : stock \in ToSet(session[s].pending)}

\* The INSERT of a symbol another session has inserted waits for its end.
FlushWaits(s) ==
    \E t \in Others(s) : \E stock \in session[t].inserted :
        stock.symbol \in PendingSymbols(s)

\* Two pending objects of one symbol, or a symbol committed meanwhile.
FlushFails(s) ==
    \/ Cardinality(PendingSymbols(s)) # Len(session[s].pending)
    \/ \E symbol \in PendingSymbols(s) : FindsStock(s, symbol)

Flushed(s) ==
    [session[s] EXCEPT !.inserted = @ \cup ToSet(session[s].pending),
                       !.pending = <<>>]

\* A slip: the error of a row rolls the session back, and the loop goes on.
RolledBack(s) ==
    [session[s] EXCEPT !.pending = <<>>, !.inserted = {}, !.trades = {}]

\* A failed statement rolls the transaction back; the session refuses every
\* further statement.
Broken(s) ==
    [session[s] EXCEPT !.pending = <<>>, !.inserted = {}, !.trades = {},
                       !.broken = TRUE]

-----------------------------------------------------------------------------
(* The loop over the rows *)

NextRow(after) ==
    [after EXCEPT !.rows = Tail(@),
                  !.pc = IF Len(after.rows) = 1 THEN "reply" ELSE "select"]

\* The exception of a row is caught and counted.
FailRow(s, after) ==
    session' = [session EXCEPT ![s] =
                   [NextRow(after) EXCEPT !.failed = @ \cup {Row(s)}]]

\* get_or_create_stock and create_stock both look the stock up; of the two
\* SELECTs only the later one matters.
SelectStock(s) ==
    /\ Working(s, "select")
    /\ IF session[s].broken THEN FailRow(s, session[s])
       ELSE session' = [session EXCEPT ![s].pc =
                IF FindsStock(s, Row(s).symbol) THEN "record" ELSE "create"]
    /\ UNCHANGED <<stocks, recorded>>

InvalidSymbol(s) ==
    /\ Working(s, "create")
    /\ Row(s).symbol \in Malformed
    /\ FailRow(s, session[s])
    /\ UNCHANGED <<stocks, recorded>>

\* _create_and_persist adds the object first and asks the services then: an
\* object whose stock was not found stays pending.  A service may be down.
CreateStock(s) ==
    /\ Working(s, "create")
    /\ Row(s).symbol \notin Malformed
    /\ LET symbol == Row(s).symbol
           added(name) == [session[s] EXCEPT
                              !.pending = Append(@, StockOf(name, symbol))]
       IN  \/ /\ symbol \notin Unknown
              /\ session' = [session EXCEPT ![s] =
                                [added(TRUE) EXCEPT !.pc = "flush"]]
           \/ FailRow(s, added(FALSE))
    /\ UNCHANGED <<stocks, recorded>>

FlushStock(s) ==
    /\ Working(s, "flush")
    /\ ~FlushWaits(s)
    /\ IF FlushFails(s) THEN FailRow(s, Broken(s))
       ELSE session' = [session EXCEPT ![s] =
                           [Flushed(s) EXCEPT !.pc = "record"]]
    /\ UNCHANGED <<stocks, recorded>>

\* A sale of more than is held is refused before anything is flushed.
RefuseSale(s) ==
    /\ Working(s, "record")
    /\ Row(s).kind = "sell"
    /\ HeldOf(s, Row(s).symbol) < Row(s).quantity
    /\ FailRow(s, session[s])
    /\ UNCHANGED <<stocks, recorded>>

RowOf(s) == [row |-> Row(s), session |-> s, import |-> session[s].import]

\* The INSERT of the trade flushes what is pending with it and needs the stock,
\* which another request may have deleted since it was selected.
RecordRow(s) ==
    /\ Working(s, "record")
    /\ Row(s).kind = "sell" => HeldOf(s, Row(s).symbol) >= Row(s).quantity
    /\ ~FlushWaits(s)
    /\ IF FlushFails(s) \/ ~FindsStock(s, Row(s).symbol)
       THEN FailRow(s, Broken(s))
       ELSE session' = [session EXCEPT ![s] =
                [NextRow(Flushed(s)) EXCEPT !.trades = @ \cup {RowOf(s)},
                                            !.created = @ \cup {Row(s)}]]
    /\ UNCHANGED <<stocks, recorded>>

\* Any other error of the database while a row is recorded: a deadlock, a price
\* upsert that failed and was swallowed, a lost connection.
DatabaseError(s) ==
    /\ Working(s, "record") \/ Working(s, "flush")
    /\ FailRow(s, Broken(s))
    /\ UNCHANGED <<stocks, recorded>>

\* The answer is sent before the session commits.
Reply(s) ==
    /\ Working(s, "reply")
    /\ session' = [session EXCEPT ![s].pc = "commit"]
    /\ UNCHANGED <<stocks, recorded>>

CommittedStocks(inserted) ==
    [symbol \in Symbols |->
        IF StockOf(TRUE, symbol) \in inserted THEN "named"
        ELSE IF StockOf(FALSE, symbol) \in inserted THEN "unnamed"
        ELSE stocks[symbol]]

\* A slip: session_scope without its except branch.
CommitWithoutRollback(s) ==
    /\ Working(s, "commit")
    /\ ~FlushWaits(s) /\ ~session[s].broken /\ ~FlushFails(s)
    /\ session' = [session EXCEPT ![s] = Closed]
    /\ stocks' = CommittedStocks(Flushed(s).inserted)
    /\ recorded' = recorded \cup session[s].trades

\* The commit flushes what is still pending; a broken session only closes.
Commit(s) ==
    /\ Working(s, "commit")
    /\ ~FlushWaits(s)
    /\ session' = [session EXCEPT ![s] = Closed]
    /\ IF session[s].broken \/ FlushFails(s)
       THEN UNCHANGED <<stocks, recorded>>
       ELSE /\ stocks' = CommittedStocks(Flushed(s).inserted)
            /\ recorded' = recorded \cup session[s].trades

\* An error of the commit: nothing is recorded, and the answer has been sent.
CommitError(s) ==
    /\ Working(s, "commit")
    /\ session' = [session EXCEPT ![s] = Closed]
    /\ UNCHANGED <<stocks, recorded>>

\* Each of two sessions waits for the other, and PostgreSQL ends the wait of
\* one with an error.
WaitsFor(s, t) ==
    /\ session[s].pc \in {"flush", "record", "commit"}
    /\ \E stock \in session[t].inserted : stock.symbol \in PendingSymbols(s)

BreakDeadlock(s) ==
    /\ \E t \in Others(s) : WaitsFor(s, t) /\ WaitsFor(t, s)
    /\ DatabaseError(s) \/ CommitError(s)

-----------------------------------------------------------------------------
(* Requests for one stock *)

\* POST /stocks: an error rolls the request back; the INSERT waits for that of
\* an import.
RegisterStock(symbol) ==
    /\ stocks[symbol] = "none"
    /\ symbol \notin Malformed \cup Unknown
    /\ \A s \in Sessions : \A stock \in session[s].inserted :
        stock.symbol # symbol
    /\ stocks' = [stocks EXCEPT ![symbol] = "named"]
    /\ UNCHANGED <<recorded, session>>

\* PUT /stocks/{symbol}: the services are asked again.
RefreshStock(symbol) ==
    /\ stocks[symbol] # "none"
    /\ symbol \notin Malformed \cup Unknown
    /\ stocks' = [stocks EXCEPT ![symbol] = "named"]
    /\ UNCHANGED <<recorded, session>>

References(symbol, records) == {r \in records : r.row.symbol = symbol}

\* A slip: the references are counted instead of enforced.
DeleteCounted(symbol) ==
    /\ stocks[symbol] # "none"
    /\ References(symbol, recorded) = {}
    /\ stocks' = [stocks EXCEPT ![symbol] = "none"]
    /\ UNCHANGED <<recorded, session>>

\* DELETE /stocks/{symbol}: the flush is refused by the ORM for a row it finds
\* that refers to the stock and by the foreign keys for one it does not see, and
\* waits for the sessions that have inserted such a row.  Rows of price_history
\* refuse it as well; they are left out.
DeleteStock(symbol) ==
    /\ stocks[symbol] # "none"
    /\ References(symbol, recorded) = {}
    /\ \A s \in Sessions : References(symbol, session[s].trades) = {}
    /\ stocks' = [stocks EXCEPT ![symbol] = "none"]
    /\ UNCHANGED <<recorded, session>>
=============================================================================
