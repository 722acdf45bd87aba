----------------------------- MODULE PriceBars -----------------------------
(***************************************************************************)
(* The store of daily prices, services/price_history_repo.py, and what its *)
(* readers take from it, as operators on the set of rows of one symbol.  A *)
(* row is its date and the basis of its prices: the number of stock splits *)
(* its provider had adjusted for when it was fetched.  Prices of different *)
(* bases cannot be compared.  A day stands for a day of trading.           *)
(***************************************************************************)
EXTENDS Integers, FiniteSets, FiniteSetsExt

CONSTANTS
    KeepDays,       \* 21: older rows are pruned
    FetchDays,      \* 14: fetched by the daily job
    WeekDays,       \* 14: read by the weekly ranking
    ReadDays,       \* 7: read, and fetched as a fallback, to value a holding
    Compared        \* 6: the weekly change is against the row that far back

ASSUME DaysAssumption ==
    /\ {ReadDays, WeekDays, FetchDays, KeepDays} \subseteq Nat
    /\ Compared \in Nat \ {0}
    /\ ReadDays <= WeekDays /\ WeekDays <= FetchDays /\ FetchDays <= KeepDays

NoPrice == [date |-> 0, basis |-> -1]

Bars(from, to, basis) == {[date |-> d, basis |-> basis] : d \in from..to}

get_recent_prices(rows, today, days) == {r \in rows : r.date >= today - days}

NewestBar(rows) ==
    IF rows = {} THEN NoPrice
    ELSE CHOOSE r \in rows : \A other \in rows : other.date <= r.date

\* ON CONFLICT (symbol, date) DO UPDATE.  InsertMissing is DO NOTHING, InsertAll
\* a table without its primary key.
InsertAll(rows, new) == rows \union new
InsertMissing(rows, new) ==
    rows \union {n \in new : \A r \in rows : r.date # n.date}
upsert_prices(rows, new) ==
    new \union {r \in rows : \A n \in new : n.date # r.date}

PruneUnread(rows, today) == {r \in rows : r.date >= today - ReadDays}
prune_old_prices(rows, today) == {r \in rows : r.date >= today - KeepDays}

\* The newest row and the row Compared places from the end, prices[-6].
weekly_prices(rows, today) ==
    LET recent == get_recent_prices(rows, today, WeekDays)
        behind(r) == Cardinality({other \in recent : other.date > r.date})
    IN  IF Cardinality(recent) < Compared THEN {}
        ELSE {r \in recent : behind(r) \in {0, Compared - 1}}

=============================================================================
