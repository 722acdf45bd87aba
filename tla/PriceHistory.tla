---------------------------- MODULE PriceHistory ----------------------------
(***************************************************************************)
(* The daily job jobs/recalc_holdings.py and the fallback of               *)
(* services/stock_price_fetcher.py, which write the shared price_history.  *)
(* The job refreshes the symbols each user holds and values the holdings,  *)
(* all in the transaction of that user; a trade fetches prices of its own  *)
(* when the store has none that are recent.  The providers are external.   *)
(***************************************************************************)
EXTENDS JobRunner, PriceBars

CONSTANTS
    Symbols,
    KindOf,         \* symbol -> "jp", "us", "fund", or "other"
    Held,           \* symbols each user holds at first
    Trades,         \* user and symbol of the trades
    SplitSymbols,   \* symbols that may be split, each at most once
    FirstDay, LastDay

ASSUME HoldingsAssumption ==
    /\ FirstDay \in Nat /\ LastDay \in Nat /\ FirstDay <= LastDay
    /\ KindOf \in [Symbols -> {"jp", "us", "fund", "other"}]
    /\ Held \in [Users -> SUBSET Symbols]

VARIABLES
    today,
    newest,         \* the last day the providers have a bar of
    basis,          \* splits the providers adjust the bars of a symbol for
    prices,         \* committed rows of price_history
    held,           \* holdings with a quantity above 0
    session,        \* the job's transaction for one user
    request,        \* the transaction of a trade
    ran,            \* the job of the day has been started
    synced,         \* history: day of the last refresh, with no fallback since
    report          \* history: what the current attempt has valued

vars == <<job, today, newest, basis, prices, held, session, request, ran,
          synced, report>>

storeVars == <<prices, synced>>
dayVars == <<today, newest, basis, ran>>

NoSession == [pc |-> "idle"]
NoFetch == [s \in Symbols |-> {}]
Unsynced == -1

Init ==
    /\ job = NoJob
    /\ today = FirstDay /\ newest = FirstDay
    /\ basis = [s \in Symbols |-> 0]
    /\ held = Held
    /\ prices = [s \in Symbols |->
            IF KindOf[s] # "fund" /\ \E u \in Users : s \in Held[u]
            THEN Bars(FirstDay - FetchDays, FirstDay, 0) ELSE {}]
    /\ synced = [s \in Symbols |-> IF prices[s] = {} THEN Unsynced ELSE FirstDay]
    /\ session = NoSession /\ request = NoSession
    /\ ran = TRUE
    /\ report = {}

-----------------------------------------------------------------------------
(* The days, the providers and the runs of the job.                        *)

\* Runs and requests are over before midnight, and so is the publication of bars
\* before the run of a day.
NextDay ==
    /\ today < LastDay
    /\ JobOver /\ request = NoSession
    /\ today' = today + 1 /\ ran' = FALSE
    /\ \E split \in SUBSET {s \in SplitSymbols : basis[s] = 0} :
        basis' = [s \in Symbols |-> IF s \in split THEN 1 ELSE basis[s]]
    /\ newest' \in newest..today'
    /\ UNCHANGED <<job, prices, held, session, request, synced, report>>

Schedule ==
    /\ ~ran /\ StartJob(Users)
    /\ ran' = TRUE /\ report' = {}
    /\ UNCHANGED <<today, newest, basis, prices, held, session, request, synced>>

\* _list_active_symbols opens the action of a user.
TakeTarget ==
    /\ TakeUser
    /\ session' = [pc |-> "refresh", user |-> job'.user, listed |-> held[job'.user],
                   todo |-> held[job'.user], fetched |-> NoFetch, pruned |-> {},
                   failed |-> {}, valued |-> {}]
    /\ UNCHANGED <<dayVars, storeVars, held, request, report>>

Exit ==
    /\ ExitJob
    /\ UNCHANGED <<dayVars, storeVars, held, session, request, report>>

Kill ==
    /\ KillJob
    /\ session' = NoSession
    /\ UNCHANGED <<dayVars, storeVars, held, request, report>>

Retry ==
    /\ RetryJob(Users)
    /\ report' = IF JobOver' THEN report ELSE {}
    /\ UNCHANGED <<dayVars, storeVars, held, session, request>>

-----------------------------------------------------------------------------
(* _action of recalc_holdings.py, for one user.                            *)

\* What a transaction with these writes sees, and leaves when it commits.
Written(s, fetched, pruned) ==
    LET rows == upsert_prices(prices[s], fetched[s])
    IN  IF s \in pruned THEN prune_old_prices(rows, today) ELSE rows

\* refresh_price_history and prune_old_prices have returned.  An empty answer is
\* a failure, except for a fund, which has no bars.
RefreshSymbol(s) ==
    /\ session.pc = "refresh" /\ s \in session.todo
    /\ \E bars \in {{}, Bars(today - FetchDays, newest, basis[s])} :
        /\ KindOf[s] = "fund" => bars = {}
        /\ session' = [session EXCEPT
                !.todo = @ \ {s}, !.fetched[s] = bars, !.pruned = @ \union {s},
                !.failed = IF bars = {} /\ KindOf[s] # "fund" THEN @ \union {s}
                           ELSE @]
    /\ UNCHANGED <<job, dayVars, storeVars, held, request, report>>

\* The provider raised, and the job goes on with the next symbol; or a statement
\* did, and no later one of the transaction can succeed.
RefreshFails(s) ==
    /\ session.pc = "refresh" /\ s \in session.todo
    /\ \E pc \in {"refresh", "broken"} :
        /\ KindOf[s] = "fund" => pc = "broken"
        /\ session' = [session EXCEPT !.pc = pc, !.todo = @ \ {s},
                                      !.failed = @ \union {s}]
    /\ UNCHANGED <<job, dayVars, storeVars, held, request, report>>

\* get_current_price: a fund's price is the provider's of the moment, a foreign
\* price needs the rate of the yen, and a stock's is its newest recent bar.  The
\* others, such as a domestic ETF, have none, though some have bars.
get_current_price(s, rows, answered) ==
    IF KindOf[s] = "other" \/ (KindOf[s] # "jp" /\ ~answered) THEN NoPrice
    ELSE IF KindOf[s] = "fund" THEN [date |-> today, basis |-> 0]
    ELSE NewestBar(get_recent_prices(rows, today, ReadDays))

\* Without a price it is 0.
price_fetch_failed(price) == price = NoPrice

\* update_all_holdings_pl.  Rates and funds are asked for symbol by symbol.
ValueHoldings ==
    /\ session.pc = "refresh" /\ session.todo = {}
    /\ \E answered \in [held[session.user] -> BOOLEAN] :
        LET price(s) ==
                get_current_price(s, Written(s, session.fetched, session.pruned),
                                  answered[s])
            valued == {[user |-> session.user, symbol |-> s, price |-> price(s),
                        unfetched |-> /\ s \in session.listed /\ KindOf[s] # "fund"
                                      /\ session.fetched[s] = {}] :
                            s \in held[session.user]}
        IN  /\ \A s \in held[session.user] :
                KindOf[s] \in {"jp", "other"} => answered[s]
            /\ session' = [session EXCEPT !.pc = "commit", !.valued = valued,
                    !.failed = @ \union
                        {v.symbol : v \in {x \in valued : price_fetch_failed(x.price)}}]
    /\ UNCHANGED <<job, dayVars, storeVars, held, request, report>>

CommitUser ==
    /\ session.pc = "commit"
    /\ prices' = [s \in Symbols |-> Written(s, session.fetched, session.pruned)]
    /\ synced' = [s \in Symbols |->
            IF session.fetched[s] # {} THEN today ELSE synced[s]]
    /\ report' = report \union session.valued
    /\ UserDone(TRUE, session.failed)
    /\ session' = NoSession
    /\ UNCHANGED <<dayVars, held, request>>

\* An exception, one of a broken transaction included, and the rollback.
RaiseUser ==
    /\ session.pc \in {"refresh", "broken", "commit"}
    /\ UserDone(FALSE, {})
    /\ session' = NoSession
    /\ UNCHANGED <<dayVars, storeVars, held, request, report>>

-----------------------------------------------------------------------------
(* Trades and dividends, as far as the prices go.                          *)

\* A sale of all there is looks up no price.  A purchase, the sale of a part and
\* a dividend of what is held do.
Trade(u, s) ==
    /\ <<u, s>> \in Trades
    /\ request = NoSession
    /\ \/ /\ s \in held[u]
          /\ held' = [held EXCEPT ![u] = @ \ {s}]
          /\ UNCHANGED request
       \/ /\ request' = [pc |-> "lookup", user |-> u, symbol |-> s,
                          fetched |-> NoFetch]
          /\ UNCHANGED held
    /\ UNCHANGED <<job, dayVars, storeVars, session, report>>

\* fetch_japan_stock_prices and fetch_us_stock_prices with their fallback: it is
\* tried only without a recent row, and keeps an exception to itself.
LookUp ==
    /\ request.pc = "lookup"
    /\ LET s == request.symbol
           recent == get_recent_prices(prices[s], today, ReadDays)
       IN  \E bars \in {{}, Bars(today - ReadDays, newest, basis[s])} :
            /\ bars # {} => KindOf[s] \in {"jp", "us"} /\ recent = {}
            /\ request' = [request EXCEPT !.pc = "commit", !.fetched[s] = bars]
    /\ UNCHANGED <<job, dayVars, storeVars, held, session, report>>

CommitTrade ==
    /\ request.pc = "commit"
    /\ held' = [held EXCEPT ![request.user] = @ \union {request.symbol}]
    /\ prices' = [s \in Symbols |-> Written(s, request.fetched, {})]
    /\ synced' = [s \in Symbols |->
            IF request.fetched[s] # {} THEN Unsynced ELSE synced[s]]
    /\ request' = NoSession
    /\ UNCHANGED <<job, dayVars, session, report>>

RaiseTrade ==
    /\ request # NoSession
    /\ request' = NoSession
    /\ UNCHANGED <<job, dayVars, storeVars, held, session, report>>

-----------------------------------------------------------------------------

Next ==
    \/ NextDay \/ Schedule \/ TakeTarget \/ Exit \/ Kill \/ Retry
    \/ \E s \in Symbols : RefreshSymbol(s) \/ RefreshFails(s)
    \/ ValueHoldings \/ CommitUser \/ RaiseUser
    \/ \E u \in Users, s \in Symbols : Trade(u, s)
    \/ LookUp \/ CommitTrade \/ RaiseTrade

Spec == Init /\ [][Next]_vars

-----------------------------------------------------------------------------
(* Properties *)

TypeOK ==
    /\ newest \in FirstDay..today /\ today \in FirstDay..LastDay
    /\ job.left \subseteq job.targets /\ job.targets \subseteq Users
    /\ (job.pc = "user") <=> (session.pc # "idle")
    /\ \A s \in Symbols :
        /\ KindOf[s] = "fund" => prices[s] = {}
        /\ \A r \in prices[s] : r.date <= newest /\ r.basis \in 0..basis[s]
        /\ Cardinality({r.date : r \in prices[s]}) = Cardinality(prices[s])

\* After a refresh, and until a fallback writes, the two prices of the weekly
\* ranking are adjusted for the same splits, on every later day, whether later
\* refreshes succeed or not, and whatever other transactions read before it
\* (weekly_performance_service.py:32-35, recalc_holdings.py:21-23).
SameBasis ==
    \A s \in Symbols :
        synced[s] # Unsynced =>
            \A a, b \in weekly_prices(prices[s], today) : a.basis = b.basis

\* When the daily job exits with code 0, no user has failed, and every holding it
\* has valued got a price, and got it from bars that were fetched in this attempt
\* unless it was bought after the symbols had been listed: a provider or a rate
\* that is missing for one symbol of one user shows in the code, though the
\* transactions of all users have committed (_runner.py:97-103).
SucceededIsPriced ==
    job.pc = "succeeded" =>
        /\ job.failures = 0
        /\ \A v \in report : v.price # NoPrice /\ ~v.unfetched

\* No transaction takes away a bar that a reader of the same day may still use:
\* the weekly ranking reads further back than the fallback fetches, and no
\* further than the job keeps (price_history_repo.py:75-81).
ReadableBarsStay ==
    [][\A s \in Symbols :
        {r.date : r \in get_recent_prices(prices[s], today, WeekDays)}
            \subseteq {r.date : r \in prices'[s]}]_vars

=============================================================================
