--------------------------- MODULE SplitRequests ---------------------------
(***************************************************************************)
(* StockSplitService: registering and deleting a split and the manual      *)
(* recalculation.  Each ends in recalculate_adjusted_values, which reads   *)
(* the splits, then the trades, and writes back the adjusted columns that  *)
(* changed.  None of them touches the holding row.                         *)
(***************************************************************************)
EXTENDS PositionDatabase

VARIABLES
    readSplits,   \* readSplits[s]: the splits session s has read
    readTrades    \* readTrades[s]: the trades session s has read

splitVars == <<readSplits, readTrades>>

SplitInit ==
    /\ readSplits = [s \in Sessions |-> {}]
    /\ readTrades = [s \in Sessions |-> {}]

ForgetSplits(s) ==
    /\ readSplits' = [readSplits EXCEPT ![s] = {}]
    /\ readTrades' = [readTrades EXCEPT ![s] = {}]

RefuseSplit(s) == RollbackWrites(s) /\ ForgetSplits(s)

DateTaken(s) == \E sp \in splits : sp.date = order[s].date

-----------------------------------------------------------------------------

\* _ensure_not_duplicated; a registered date is refused with 409.
EnsureNotDuplicated(s) ==
    /\ Step(s, "checkSplit", "insertSplit")
    /\ ~DateTaken(s)
    /\ UNCHANGED <<pending, splitVars>>

RefuseDuplicate(s) ==
    /\ pc[s] = "checkSplit"
    /\ DateTaken(s)
    /\ RefuseSplit(s)

\* A slip: a table without uq_user_symbol_split_date.
InsertWithoutKey(s) ==
    /\ Step(s, "insertSplit", "readSplits")
    /\ pending' = [pending EXCEPT
                     ![s].splits = {[id |-> s, date |-> order[s].date,
                                     ratio |-> order[s].quantity]}]
    /\ UNCHANGED splitVars

\* The unique key makes the INSERT wait for a session that has inserted or
\* deleted a split of the same date and is still open.
InsertSplit(s) ==
    /\ Step(s, "insertSplit", "readSplits")
    /\ ~SplitDateLocked(s, order[s].date)
    /\ ~DateTaken(s)
    /\ pending' = [pending EXCEPT
                     ![s].splits = {[id |-> s, date |-> order[s].date,
                                     ratio |-> order[s].quantity]}]
    /\ UNCHANGED splitVars

\* uq_user_symbol_split_date refuses a date committed after the check.
InsertRefused(s) ==
    /\ pc[s] = "insertSplit"
    /\ ~SplitDateLocked(s, order[s].date)
    /\ DateTaken(s)
    /\ RefuseSplit(s)

\* delete_stock_split finds the split; an unknown id is refused with 404.
FindSplit(s) ==
    /\ Step(s, "findSplit", "deleteSplit")
    /\ \E sp \in splits : readSplits' = [readSplits EXCEPT ![s] = {sp}]
    /\ UNCHANGED <<pending, readTrades>>

RefuseUnknown(s) ==
    /\ pc[s] = "findSplit"
    /\ splits = {}
    /\ RefuseSplit(s)

\* DELETE waits for another session that deletes the same row.
DeleteSplit(s) ==
    /\ Step(s, "deleteSplit", "readSplits")
    /\ \A sp \in readSplits[s] : ~SplitRowLocked(s, sp)
    /\ pending' = [pending EXCEPT ![s].deleted = readSplits[s]]
    /\ UNCHANGED splitVars

-----------------------------------------------------------------------------
(* recalculate_adjusted_values                                             *)

ReadSplits(s) ==
    /\ Step(s, "readSplits", "readTrades")
    /\ readSplits' = [readSplits EXCEPT ![s] = VisibleSplits(s)]
    /\ UNCHANGED <<pending, readTrades>>

ReadTrades(s) ==
    /\ Step(s, "readTrades", "flushRatios")
    /\ readTrades' = [readTrades EXCEPT ![s] = VisibleTransactions(s)]
    /\ UNCHANGED <<pending, readSplits>>

\* The flush updates the rows whose adjusted columns the loop has changed;
\* each UPDATE waits for the row's lock and then overwrites what it finds.
FlushRatios(s) ==
    LET new(t) == CumulativeRatio(t.date, readSplits[s])
        dirty  == {t \in readTrades[s] : t.ratio # new(t)}
        ids    == {t.id : t \in dirty}
    IN  /\ Step(s, "flushRatios", "commit")
        /\ \A id \in ids : ~TradeLocked(s, id)
        /\ pending' = [pending EXCEPT
                         ![s].ratios =
                            [id \in ids |->
                               new(CHOOSE t \in dirty : t.id = id)]]
        /\ UNCHANGED splitVars

SplitStatement(s) ==
    \/ EnsureNotDuplicated(s)
    \/ RefuseDuplicate(s)
    \/ InsertSplit(s)
    \/ InsertRefused(s)
    \/ FindSplit(s)
    \/ RefuseUnknown(s)
    \/ DeleteSplit(s)
    \/ ReadSplits(s)
    \/ ReadTrades(s)
    \/ FlushRatios(s)

=============================================================================
