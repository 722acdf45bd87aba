# InvestLogix: a TLA+ model

InvestLogix keeps a person's stock trades, dividends and stock splits and
shows, per stock, what is held and what it earned. The API
(`src/src/api/stock`, FastAPI, SQLAlchemy's async ORM, PostgreSQL) does the
bookkeeping; a web application (`src/src/web`) and an MCP server show it;
scheduled jobs refresh prices and profit and loss and send a weekly report.

Five groups of modules model it: the **position** (one user, one symbol: all
requests that write it, the scheduled refresh, the sessions and row locks they
share), the **import** of a broker's files with the stock master, the **access**
of requests to rows (token check, cached keys, row-level security), the two
**jobs** (weekly report, daily prices) with their runner and retries, and the
price **charts**. Section 2
says which module stands for which code, 3 what is checked, 4 what is proved, 5
what is planned and 6 what is left out.

## 1. Inventory

| component | state | operations | interacts through | modules |
|---|---|---|---|---|
| Position ledger (`transaction_service`, `dividend_service`, `holding_service`) | rows of `transactions`, `dividend`, `holdings` | create_transaction (buy, sell), create_dividend, update_single_holding_pl, update_all_holdings_pl | the holding row, which all of them write | HoldingRequests, PositionSystem |
| Stock splits (`stock_split_service`) | rows of `stock_splits`; adjusted_quantity and adjusted_price of trades | register, delete, recalculate | the trades, whose adjusted columns the ledger sums | SplitRequests |
| Sessions and transactions (`database.py`) | one connection and one ORM session per request | session_scope: begin, commit, roll back; set_rls_user_id | every statement of every handler | PositionDatabase, StockMaster, AccessGate |
| Portfolio aggregation (`portfolio_service`) | none | summary, history | sums holding rows and dividends | PortfolioSummary |
| CSV import (`csv_import_service`, `dividend_csv_import_service`, import page) | none between preview and confirm but the page | preview (duplicates, unknown symbols), confirm (many rows, one transaction) | the ledger's create functions, stock master | CsvFiles, CsvImport |
| Stock master (`stock_service`) | rows of `stocks` | get_or_create, register, refresh, delete | import and ledger (foreign keys) | StockMaster |
| Timed cache (`utils/cache.py`) | entries (value, time stamp) per process | cached call | exchange rates, signing keys | TimedCache |
| Authentication, row-level security, users (`auth`, `cloudflare_access`, `user_context`, `user_service`, MCP middleware) | the session variable `app.current_user_id`; rows of `users` | verify token, resolve user, bind connection, register user | sessions, cache | AccessGate |
| Scheduled jobs (`jobs/`, Cloud Run) | failures counted in a run | recalc_holdings, update_and_notify, each for all users in turn; retry | the same rows as the requests | JobRunner |
| Weekly report (`portfolio_service`, `weekly_performance_service`, `change_reason_service`, `notification_service`) | rows of `portfolio_history` | summarise, record history, commit, rank, explain, notify | jobs, the route of the same name | WeeklyReport, WeeklyRanking |
| Price history (`price_history_repo`, `stock_price_fetcher`) | rows of `price_history` | upsert, prune, recent prices | daily job, trades, weekly performance | PriceBars, PriceHistory |
| Price charts (`price_history_service`, its route) | none | chart of days, weeks or months | the providers | PriceCharts |
| External clients, routes and schemas, utilities, web application, migrations, infrastructure | none that the properties need | reads, calls, rendering | — | — |

What is hard in it:

- **Interleaving.** No handler locks the position before it reads. Each awaits
  five to fifteen statements, at READ COMMITTED, and other requests and the
  refresh run between any two of them. Writes are protected by row locks only.
- **Stale state.** SQLAlchemy loads a row once per session and writes back only
  the columns whose value differs from the one loaded. A handler that computes
  the value it loaded writes nothing, though the committed value has changed.
- **Atomicity and failure.** A request inserts and flushes several times before
  it is refused or fails; `session_scope` has to take all of it back. The weekly
  job commits in the middle.
- **Legal sequences with surprising results.** A backdated trade after a split,
  a split under sales already made, a dividend before the first purchase, the
  same file confirmed twice.
- **Retries and time.** Jobs are retried as a whole; caches expire; price
  windows of 7, 14 and 21 days meet at their borders.

What makes each component correct:

- *Position ledger*: the holding row equals the aggregates of the recorded rows;
  a sale never exceeds what is held; value and P/L agree with the row's own
  price; whatever goes wrong is repaired by the next refresh.
- *Stock splits*: one split per date; every trade carries the ratio of exactly
  the splits after it.
- *Sessions*: a request's effects appear together or not at all.
- *Portfolio*: the profit shown is that of the rows it is summed from.
- *CSV import*: a row is imported once; a confirmation is all or nothing; what
  the page shows as registered is registered.
- *Stock master*: a referenced stock is never deleted.
- *Timed cache*: an answer is never older than the time to live, however calls
  overlap.
- *Access*: nobody is identified without a valid token; a withdrawn key dies, a
  new one is accepted, within the time to live; a request sees the rows of its
  own user.
- *Jobs*: a failure for one user keeps nothing from another and shows in the
  exit code; a run ends.
- *Weekly report*: what is reported is saved and compared with an earlier week.
- *Price history*: no reader loses a bar it may still read, and no change is
  computed between prices adjusted for different splits.
- *Price charts*: as many points as were asked for, without holes, each whole;
  weeks that start where the source says they do.

## 2. Modules

Position:

```
PositionArithmetic          the sums, averages and ratios
   |            \
PositionLedger   PositionDatabase         abstract ledger | tables, sessions, locks
   .                |           \
   .        HoldingRequests   SplitRequests      the handlers, statement by statement
   .                 \          /
   ....refined by.. PositionSystem          begin, commit, fail; fairness; properties
                      |         \
          PortfolioSummary   PositionSystemProofs
             |       \          |
        MCPosition    \    SerialProofs
                       \     /
                  SerialLedgerProofs
```

The rest:

```
CsvFiles -- StockMaster -- CsvImport -- MCImport
                                \-- CsvImportProofs
TimedCache -- AccessGate -- MCAccess
                   \-- AccessGateProofs
JobRunner, WeeklyRanking -- WeeklyReport -- MCWeekly
                                 \-- WeeklyReportProofs
JobRunner, PriceBars -- PriceHistory -- MCPrices
                             \-- PriceHistoryProofs
PriceCharts -- MCCharts
     \-- PriceChartsProofs
```

### The position

**PositionArithmetic** holds the aggregate queries as operators over sets of
rows: `BuyQuantity`, `BuyCost`, `SellQuantity` and `Average` are
`calculate_holding_from_transactions`, `RealizedPl` is
`calculate_realized_pl_from_transactions`, `TotalDividend` is
`calculate_total_dividend_after_tax` and `CumulativeRatio` the inner loop of
`recalculate_adjusted_values`. A trade's
`adjusted_quantity` and `adjusted_price` are written together or not at all and
always from one ratio, so the model keeps the ratio.

**PositionDatabase** is PostgreSQL and `session_scope`: the committed rows, and
per session a program counter, its order and its pending writes.
`VisibleTransactions` and its like are what one statement sees at READ COMMITTED
(what is committed at that moment, and the session's own writes).
`HoldingLocked`, `TradeLocked`, `SplitDateLocked` and `SplitRowLocked` are the
locks a write takes and holds until its session ends; the split-date one is the
unique key `uq_user_symbol_split_date`, on which a second INSERT waits.
`CommitWrites` and `RollbackWrites` end a session.

**HoldingRequests** has one action per awaited statement of
`create_transaction`, `create_dividend`, `update_single_holding_pl` and the work
of `update_all_holdings_pl` on one holding. `object` is the ORM object of a
session and `loaded` the values SQLAlchemy believes are in the row; `Flush`
writes their difference. Refusals (`RefuseNoHolding`, `RefuseShort`) and a
second INSERT of one primary key (`FlushKeyTaken`) roll back.

**SplitRequests** does the same for `StockSplitService`.

**PositionSystem** puts them together: requests begin with an order, execute
their statements, commit, are refused or fail at any statement; jobs begin
again and again. `Overlap` says whether a request may begin while another is
open: `FALSE` is one person with one browser tab and the job at another hour;
`TRUE` is every interleaving the database permits.

**PositionLedger** is what the position promises, without sessions, statements
or locks: each recording, split operation and refresh is one step, and a
recording leaves exactly the aggregates of the recorded rows in the holding.
`PositionSystem` is checked to implement it by `Ledger == INSTANCE
PositionLedger WITH summary <- Summary(holding)`: every commit maps to one of
its steps and every other statement to a stutter. The ledger keeps two oddities
of the code because they are what the code promises everywhere: a split
operation leaves the holding row to the next recording or refresh, and a
dividend without a holding row changes no holding.

Program counter and code:

| `pc` | statement |
|---|---|
| select, checkBuys, checkSells, register, sumBuys, sumSells, sumRealized, flush | `create_transaction`: the holding; the two aggregates of the sale check; the INSERT; the two aggregates and the realized P/L after it; the flush |
| registerDividend, selectForDividend, flush | `create_dividend` |
| plSelect, plBuys, plSells, plRealized, plDividend, plPrice, plFlush | `update_single_holding_pl` and `calculate_holding_pl`; the refresh begins at plSelect |
| checkSplit, insertSplit / findSplit, deleteSplit / readSplits, readTrades, flushRatios | `create_stock_split` / `delete_stock_split` / `recalculate_adjusted_values` |
| commit | the end of `session_scope` |

**PortfolioSummary** is `_calculate_portfolio_summary`: sums of stored columns,
but the dividends from their own table.

### Import and stocks

**CsvFiles** is what the importers take out of a file, as operators. A file is a
function from line numbers to rows with the columns of the export, so that the
export of a period is a restriction of the whole history; a row says which deal
it is, whether foreign, in which currency. `parse_csv_content` drops and skips rows
as the code does, computes symbol, account, quantity (fund units by the 10,000)
and price; `apply_usdjpy_rates` gives dollar trades their yen price from the rate
of the day or of up to seven days before. `TransactionKey` and `DividendKey` are
the duplicate keys and `PreviewOrders` the sorting, which puts sales before
purchases of the same day; rows that tie come out of a Python set, in any order.

**StockMaster** is the session of a confirmation, statement by statement, and the
three one-statement routes for stocks. A session has objects that are added but
not flushed (`pending`), rows flushed but not committed (`inserted`, `trades`),
and what the loop has counted (`created`, `failed`). `CreateStock` adds the
object before it asks the services, so that an unknown stock stays pending;
`Broken` is a session whose flush has failed: it refuses each further statement
and its commit does nothing. `Reply` precedes `Commit`: the dependency that
commits is closed after the answer is sent.

| `pc` | statement |
|---|---|
| select, create, flush | `get_or_create_stock`: the SELECT; `_create_and_persist` up to its flush; the INSERT |
| record | `create_transaction` or `create_dividend` of the row, flushing what is pending |
| reply, commit | the answer; the end of `session_scope` |

**CsvImport** adds the page with its two tabs (`TransactionImport.tsx`: upload,
preview, confirming, complete) and the routes: `Preview` chooses the period of
the export and the rates the service knows, `Confirm` opens the session with the
previewed rows, `Answer` is what the page then shows. What a trade does to its
holding row is in HoldingRequests; here a trade is a row and its stock.

### Access

**TimedCache** is `timed_cache` around a coroutine: `Lookup` is the wrapper up to
its await (with the time stamp taken before), `ServiceReads`, `CallFails` and
`Store` the wrapped call. Any number of callers may be between them.

**AccessGate** is a request from its token to its rows: `Arrive`
(`get_access_identity` and `authenticate_access_request` up to the await of the
keys), the cache, `Verify` (`jwt.decode` and the refusals), `Resolve`
(`create_user_context`: the user of the address, and `set_rls_user_id`), then the
handler: `Read`; `CommitReport` and `Summarise` for update-and-notify;
`CheckAccount` and `InsertUser` for the registration of a user. The Access team's
service, which publishes and retires keys, is external. `validate_auth_settings`
restricts the configurations a process starts with. `Rows(user, connection)` is
the row-level-security policy of migration `c1d2e3f4a5b6`: a query that names a
user returns rows only on a connection set to that user.

### Jobs

**JobRunner** is `jobs/_runner.py` as Cloud Run runs it: the users are fetched,
served in any order, each in a session of its own; failures are counted; the exit
code tells Cloud Run to start again, at most `MaxRetries` times. The process may
be killed at any point.

**WeeklyReport** is `update_and_notify` for the job and, at the same time, for
the route: `Update` (revalue, insert the history row, read the row of last
week, rank), `Commit` (the commit in the middle), `GenerateReasons`, `Notify`,
`Summary`; `Raise` where a statement may raise. Days pass between; a week has
`Week` days and a row is last week's if it is `Lookback` days old. Slack may
refuse, or deliver and lose the answer. **WeeklyRanking** has the two rankings
(slices of one stably sorted list) and the parsing and trimming of the language
model's answer, a text being a sequence of markers, ends of sentence and other
characters.

**PriceBars** is the store of one symbol's daily bars as operators: upsert,
retention, recent prices, and the two prices of the weekly change. A bar is its
date and its *basis*: how many stock splits the provider had adjusted for when it
was fetched. **PriceHistory** is the daily job (`RefreshSymbol` / `RefreshFails`
per symbol, `ValueHoldings`, `CommitUser`, `RaiseUser`) and trades, whose price
lookup falls back on fetching bars of its own (`LookUp`, `CommitTrade`): every
purchase, sale of a part and dividend, of what is held or not, but not the sale of
all there is. Both write the shared table in their own transactions; providers may
be late, silent or failing. A symbol's kind is what `get_current_price` branches
on: domestic (`jp`), foreign (`us`), `fund`, or `other`, such as a domestic ETF, of
which bars may be stored and no price is ever taken.

### Charts

**PriceCharts** is `get_price_history` on a calendar of trading days.
`_calculate_start_date` goes back in calendar days; `Points` groups the provider's
bars by `Period` (a day, a week as `resample("W-MON")` makes them, from Tuesday to
Monday, or a month) and drops periods without bars; `NewestPoints` is
`data[-limit:]`. Days are numbered from a Monday. The provider is external: it has
the bars of trading days only, up to a day that lags behind by at most `MaxLag`;
the hour for which foreign prices are cached is part of that lag. A point is its
period and the set of its bars. An unknown symbol, a fund and a failing provider
are answered with an error instead of a chart.

## 3. Properties and runs

| run | sessions | result |
|---|---|---|
| `position_serial` | four requests of any kind and a job, one at a time, each may fail anywhere; prices 12, 24 and a failed lookup; with and without an opening position | holds: `TypeOK`, `RowAddsUp`, `SummaryMatchesRows`, `ImplementsLedger` |
| `position_purchases` | three overlapping purchases and dividends of an existing holding, each may fail | holds: `ImplementsLedger` |
| `position_repair` | two overlapping requests (trades, dividend, split, deletion) and the recurring job, with fairness; one request may fail; the price has moved | holds: `SplitDatesUnique`, `EventuallyCurrent` |
| `position_oversell` | two overlapping sales of 3 from a position of 4 | violated: `SellsCovered` |
| `position_torn` | two overlapping requests and the job | violated: `RowAddsUp` |
| `import_tabs` | both tabs: two imports of trades with overlapping periods and one of dividends, rates known or not yet, failing services and database, lock waits, stock routes | holds: `TypeOK`, `ImportedOnce`, `RecordsHaveStock`, `AllOrNothing`, `SessionsEnd` |
| `import_lost` | one file: a good trade and two of a stock no service knows | violated: `CreatedAreRecorded` |
| `access_requests` | two callers, one of whom asks twice, tokens of two keys that rotate, three users, five configurations | holds: `TypeOK`, `AnswersFresh`, `WithdrawnKeysExpire`, `RefusedKeysAreNew`, `OwnRowsShown` |
| `access_summary` | the same | violated: `SummaryShowsOwnRows` |
| `weekly_job` | two users, a run with its retry, failures and kills anywhere, one call of the route | holds: `TypeOK`, `ReportedIsSaved`, `NeverAgainstItself`, `UnreachedAreCounted`, `RankingsAgree`, `SectionsFit`, `RunEnds` |
| `prices_daily` | two users with a common holding, three symbols (domestic, foreign, fund), two daily runs with retries, one split, trades | holds: `TypeOK`, `SameBasis`, `SucceededIsPriced`, `ReadableBarsStay` |
| `charts` | eight weeks of days, three calendars, a provider up to five days late, all intervals, limits 1 to 8 (months 1 to 3, the cap biting at 3) | holds: `TypeOK`, `ChartPeriodsWhole` |

The position:

- `ImplementsLedger`: the committed rows change only by steps of the ledger.
  It says at once that no recording is lost from the aggregates, that no sale
  exceeds what is held, that a failure or refusal leaves nothing behind, and
  that nothing but a split operation touches the ratios. Served one at a time
  (`position_serial`) it holds for all requests, also when splits are registered
  under earlier sales and the held quantity turns negative.
- `position_purchases` shows when it survives overlap. A purchase of an existing
  holding always changes `quantity`, so its first flush takes the row lock; the
  aggregates of `update_single_holding_pl` are read after it, with every earlier
  purchase committed. A dividend likewise changes `total_dividend`. The mutant
  that flushes once, at the end, loses purchases. The argument needs that
  quantity, cost and dividends only grow and that the holding exists: with sales
  or from no holding, overlapping requests do lose updates, which is why those
  orders are not in this run and `EventuallyCurrent` is stated instead. Nor is
  `RowAddsUp` claimed there: `total_pl` may coincide with the stale value and so
  not be written.
- `RowAddsUp`: `market_value` and `total_pl` are those of the row's own price,
  quantity, cost, realized P/L and dividends, as the comments of `models.py`
  define them. It holds serially; `position_torn` shows a refresh overlapping a
  recording commit a row that satisfies neither.
- `SplitDatesUnique`: one split per date under every interleaving. The check
  before the insert does not give that; the unique key does (the mutant drops
  the key).
- `EventuallyCurrent`: once requests stop arriving, the recurring refresh makes
  the holding row equal to the aggregates of the recorded rows, whatever the
  interleavings left, and it stays so. This is the property that bounds the
  damage of every lost update above. Requests are bounded in number by the
  instance, so "stop arriving" is not an extra assumption there.
- `SellsCovered` fails: `routes/transactions.py` says that a sale of more than is
  held is refused, but two overlapping sales both pass the check; see the findings
  in `PROJECT.json`.
- `SummaryMatchesRows`: the profit of the portfolio, which takes dividends from
  their table, is the one the rows show, which have stored theirs: no amount is
  counted twice or by neither.

Import:

- `ImportedOnce`: files whose periods overlap register nothing twice, also when
  earlier confirmations were lost or failed in part and when the exchange rate
  of a dollar trade became known in between (the mutant whose key uses the yen
  price fails). Each preview is confirmed once; see section 6.
- `AllOrNothing`: what a commit adds is exactly what the loop counted as created.
  The loop catches the errors of rows and goes on; only the state of the broken
  session keeps half a file from being committed.
- `RecordsHaveStock`: no deletion of a stock slips between the statements of an
  import that uses it.
- `SessionsEnd`: two imports of the same new stocks in different order wait for
  each other; the database breaks the tie and both end.
- `CreatedAreRecorded` fails: the unflushed object of an unknown stock makes the
  commit fail after the page was told of its success.

Access:

- `AnswersFresh`: an answer of the cache was read less than the time to live
  before the call began. It rests on the stamp taken before the await: the mutant
  that stamps an entry when the answer arrives serves the answer of a slow
  service for longer.
- `WithdrawnKeysExpire`, `RefusedKeysAreNew`: what that means for the keys: a
  retired key is accepted, and a new one refused, for less than the time to
  live. The first also says that in production nobody is identified without a
  token for this application.
- `OwnRowsShown`: a reading request shows the rows of the one user registered
  with its address, and of nobody else, while others register.
- `SummaryShowsOwnRows` fails: after the commit in the middle the summary is read
  on a new connection on which no user was set.

Jobs:

- `ReportedIsSaved`: what Slack has got is committed, whatever happens next.
- `NeverAgainstItself`: the retry finds the row its first attempt committed and
  must not report the change against that; among the rows that are old enough
  the newest is taken, and a report shows no change only if there is none.
- `UnreachedAreCounted`: an attempt that ends by itself has counted every user
  its report did not reach: exit code 0 means all were delivered.
- `RankingsAgree`, `SectionsFit`: best and worst lists of short lists and ties;
  sections of answers with doubled, swapped or empty markers.
- `RunEnds`: liveness of a run, through kills and its retry.
- `SameBasis`: after a refresh and until a fallback writes, both prices of a
  weekly change have one adjustment, also days later, after failed refreshes.
- `SucceededIsPriced`: exit code 0 of the daily job means that every holding was
  valued with a price fetched in that attempt, though the transactions of users
  with missing prices commit. A security of kind `other` fails every run of its
  user; the instance has none, the theorem of section 4 has all kinds.
- `ReadableBarsStay`: no transaction removes a bar that a reader of that day may
  still use.

Charts:

- `ChartPeriodsWhole`: whatever a chart shows, each newer period of the
  provider's history is shown too, with all its bars: only the oldest point can
  be cut and only points older than it can be missing. This holds on every day,
  with weekends and holidays, however late the provider is, and whether the cap
  bites or not. And the chart is all that was asked for, the oldest point whole,
  if the points due are of the `limit` days, weeks or months that end with
  yesterday's and the cap does not bite. The mutant that starts a day later cuts
  a week.

Every property of a passing run is known to fail for a plausible slip of the
code: `mutants` in `PROJECT.json` names the operator that slips, which stands
before the one it would replace.

### What the source says and the code does not do

The violated runs above are findings in `PROJECT.json`. Three more statements of
the source are not what its code does; the model has the code, and no run of their
own is spent on them.

- `models.py:117` says of `split_date` that trades before it are adjusted
  ("この日より前の取引が調整対象"). `create_transaction` adjusts nothing, so a trade
  recorded after a split was registered but dated before it keeps its quantity
  until a split is registered or deleted or the recalculation is asked for.
  `PositionLedger` records a trade in the same way.
- The docstring of `_calculate_start_date` (`price_history_service.py:29`) promises
  a first day "十分な余裕を持たせる" (with ample margin). There is none, even with
  yesterday's bar published, which is why `ChartPeriodsWhole` has its premises:
  - *weekly*: `limit * 7` days before today lie in the week that is `limit` weeks
    older. When the week of today has no bar yet, that week is the oldest one due
    and loses what lies before today's day of the week: on a Wednesday morning
    after a closed Tuesday the oldest point misses its Tuesday;
  - *daily*: `int(limit * 1.5)` calendar days are too few for `limit` trading days
    for small limits after a weekend (limit 3 on a Wednesday morning shows 2), and
    around holidays: in Tokyo the default of 80 shows 79 on the morning of 7 May
    2024 (120 days back is 8 January; 87 weekdays less 7 holidays, less today);
  - *monthly*: the cap of 1825 days is five years less one or two leap days, so
    60 months start after the first of their oldest month when the current one
    has no bar yet. Without the cap the months are whole.
- `price_history_service.py:53` says that weeks start on Monday ("月曜始まり"), and
  `tests/api/test_price_history.py:177` takes Monday to Friday for one week.
  `resample("W-MON")` makes weeks that *end* with Monday, so that a Monday is
  counted to the week before. The test asserts no number of points.

### Bounds, and why they are enough

- *One position.* No handler of a trade, dividend or split reads another
  position's rows; positions interact through the order of row locks only.
- *Four requests serially, two or three overlapping, one job.* A lost update
  needs two writers and a reader; the serial run needs the longest story (buy
  or opening, split, sale, deletion or refresh). Jobs are not bounded: a job
  returns to idle and runs again.
- *Dates 1 to 3.* Splits on days 2 and 3, trades on days 1 and 3: before, at and
  after a split, and between two.
- *Quantities, prices, ratios.* Chosen so that averages change (12 and 24), a
  position can be sold out, partly sold and not covered, and ratios 2 and 3
  tell apart which splits were applied. Money is integer: the code divides
  floats where `Average` rounds down. The properties compare two evaluations of
  the same expression, or a row with itself, and so do not depend on rounding.
  Ratios are natural numbers, so consolidations (ratio below 1) are not run.
- *Prices.* Any positive price of the set, or 0 for a failed lookup, which leaves
  the row's price. `position_repair` has the one price 24, different from the
  opening price, so that the refresh has something to do; a lookup that failed
  for ever would be one that never refreshes `price`, which no property demands.
- *Symmetry* of requests is used in the runs without liveness only.
- *Import.* The two periods overlap in one day, which has a purchase and a sale
  in dollars; one file holds each kind of row the parsers treat differently. Two
  imports of trades are what a duplicate needs; the import of dividends competes
  for the stocks. The database fails on the session of the trades only: what it
  does to the other is by locks, which are modelled.
- *Access.* Two callers overlap in every way a cache entry can be replaced; the
  third request shows the entry used later. The time to live is 2 and time runs
  to 3, so that an entry expires. Five configurations, of which the check at the
  start refuses two. About four million distinct states.
- *Weekly.* Seven days are three and "last week" is two days back; the run may
  last into the next day. One retry, as in `cloud_run_jobs.tf`. Rankings of two
  out of one and four; blocks of four characters. The past has a row of the job
  and a newer one of the route, which is too young.
- *Prices.* Windows of 21, 14, 14 and 7 days are 4, 3, 3 and 1, the sixth bar
  back is the third. Two runs of the job, the split between them: a bar of the
  first is still readable after the second.
- *Charts.* Weeks have their seven days and months their length (9 February to 4
  April 2022, with the bars since November). Three calendars: weekdays, Tokyo's
  holidays, and one with a closed Tuesday and a week closed as a whole. The limits
  are cut to 8 points and 3 months and the cap to 88 days, which is to three
  months what 1825 is to 60: less than `limit * 31`, and than the months at times.
- *Deadlock* is not checked: when each request is done, the days are over and
  the jobs are idle the system has nothing to do (in runs without jobs it stops).
  One position cannot deadlock on itself, each request of it takes one holding
  lock, or locks of its trades after the split date's.

### Fairness

`FairSpec` assumes strong fairness of each session's statements and weak
fairness of the start of a job. A statement is disabled only while another
session holds its lock; PostgreSQL serves the waiters of a lock in order, so a
statement that is enabled again and again is executed: strong fairness. The
scheduler starts the job at its times (`recalc_holdings` is a Cloud Run job on
a schedule): weak fairness. No request has to arrive, and failing is not fair.
In `position_repair` the job itself does not fail: a job that fails every time
never repairs anything, and no code promises it would.

`CsvImport!FairSpec` assumes weak fairness of each session's statements and of
the answer: the server works, external services answer or time out, and a wait
for a lock that another session holds ends with that session. A cycle of two
waits is ended by PostgreSQL, which `BreakDeadlock` is part of the statements
for. Nobody has to upload or confirm.

`WeeklyReport!FairSpec` assumes weak fairness of the job's own steps: the process
serves the next user, each external call has a time limit, and Cloud Run starts
the retry. A kill, an exception or a call of the route is never assumed.

## 4. Theorems

`tlapm` checks all of them to the last leaf. Every invariant that a passing run
checks is the conclusion of one of these theorems, and so are two of its action
properties and the refinement of the ledger (when requests do not overlap).

### The position

For every set of sessions, orders, prices and opening trades:

- `TypeCorrect` (PositionSystemProofs): `Spec => []TypeOK`. The types alone are
  not inductive: an assignment to an attribute of `object[s]` needs a row to
  assign to. `TypeInv` adds `HandlerRows`: at which statements a session has an
  object, that it has written columns only of a row it has loaded, and that a
  row it believes to exist is there or is its own uncommitted INSERT. The last
  part is what makes `CommitWrites`, which merges columns, produce a whole row.
- `OneSplitPerDate` (PositionSystemProofs): `Spec => []SplitDatesUnique`, with
  overlap. `PendingDatesFree` strengthens it: the date of an uncommitted split is
  free among the committed ones and among the other uncommitted ones. An insert
  establishes it because of the unique key; deletions only shrink the sets.
- `SerialRowAddsUp` (SerialProofs): `~Overlap => (Spec => []RowAddsUp)`.
  `SerialInv` needs `OneAtATime`, `LoadedIsCommitted` (columns a session has not
  written are those of the committed row, so a commit of some columns makes the
  row it computed) and `ValuedBeforeCommit` (the last flush of each request
  follows `calculate_holding_pl`). The first and the second fail with overlap,
  and so does the property.
- `SerialImplementsLedger` (SerialLedgerProofs):
  `~Overlap => (Spec => ImplementsLedger)`. Initial states map to initial states
  of the ledger (`InitIsLedgerInit`), a commit to one of its steps
  (`RecordingIsLedgerStep`, `AdjustingIsLedgerStep`) and everything else to a
  stutter (`StepIsLedgerStep`). What the violated run of sales asks
  is thereby given where it can be: without overlap no sale is
  recorded that the trades before it do not cover, and a split operation leaves
  every trade with its ratio. What a commit needs to know is collected by
  `LedgerInv`, which says of every open session, per statement, what it has done
  so far: its order is one that passes this statement (`OrderFits`), it has
  written the rows of its order and no others (`Written`), a sale past its check
  is covered and its average is that of the trades before it (`SaleCovered`),
  the aggregates already assigned to the object are those of all rows it sees
  (`HoldingComputed`), what it has read of splits and trades is what is there
  (`SplitsRead`) and the ratios it is about to commit are right for each trade
  (`RatiosWritten`). The invariant is much longer than the property because the
  code computes one record in up to fourteen statements. `SaleCovered` and
  `HoldingComputed` compare what was read earlier with what is committed now:
  overlap breaks them, and the property with them.
- `SerialSummaryMatches` (SerialLedgerProofs):
  `~Overlap => (Spec => []SummaryMatchesRows)`, from `DividendsAgree`: the
  dividends a holding row has stored are those of their table. It rests on one
  fact about sums that is not obvious to the provers, `EmptyTotal`: the sum over
  no dividends is 0, unfolded from the definition of the fold.

Assumptions: requests and jobs are different sessions
(`SessionsAssumption`); orders are records of the four fields and `NoOrder` is
not one (`OrdersAssumption`); prices are natural numbers (`PricesAssumption`);
`NoHolding` is neither a row nor the part of one the ledger keeps
(`NoHoldingAssumption`); opening trades are rows with keys of their own, which no
request has (`OpeningsAssumption`: the primary key of `transactions`).

### Import (CsvImportProofs)

For every set of tabs and symbols, every content of the files, every table of
rates, any number of imports and whatever fails:

- `ImportsOnce`: `[]ImportedOnce`. `IInv` follows the rows of a request from the
  preview on: the rows still to come, those of the open transaction, those
  counted and those committed have pairwise different keys (`KeysApart`), and
  the rows of a shown preview differ from everything its tab has registered
  (`TabInv`), because a tab previews only when its request has ended. Behind it
  stands `SameExecutionSameKey`: one line of the file gives the same key in
  every export and with every rate, since the key takes the dollar price of a
  dollar trade; and `PreviewIsNew`, what the filter of the preview leaves over.
- `ImportsAreWhole`: `AllOrNothing`. `Counted` says that the open transaction
  holds what the loop has counted as created until an error has broken the
  session, and `AtRow` that a broken session executes no statement.
- `RecordsKeepStock`: `[]RecordsHaveStock`. `TradesHaveStock` gives every row of
  an open transaction a stock, committed or inserted by the same transaction,
  through which a deletion of that stock has to wait or fail.
- `TypesHold`: `[]TypeOK`.

Assumptions: the two name tables give symbols, `NoSymbol` is none, symbols have
an order (`NameAssumption`); the tabs are the page's two, each with its session,
and import a finite number of times (`PageAssumption`); a file has finitely many
numbered lines, and the custody column of a trade is one the export uses
(`FileAssumption`).

### Access (AccessGateProofs)

For every set of callers, keys, tokens, users and configurations, and any time to
live:

- `GateRunsCache`: every behaviour of the gate is one of TimedCache (a
  refinement by identity of the variables), so what holds of the cache alone
  holds of the key set.
- `GateAnswersFresh`: `[]AnswersFresh`. `CacheInv` adds the types and that an
  entry's stamp is not later than the reading of its value, and the start of a
  call not later than its reading; the subtraction of the time to live does the
  rest.
- `GateTypeCorrect`: `[]TypeOK`, from `CacheInv`, the types of users and
  requests (`GateTypes`) and `StagesPrepared`: a handler runs only for a user
  that is registered, whose row is therefore a row.
- `WithdrawnExpire` and `RefusedAreNew`: from `KeyInv`, which says of the entry
  and of every call in flight that its key set is the published one of the
  moment it was read (`KeysKnown`), that a waiting request asked for the keys
  when its call began (`KeysAwaited`), and hence, with `AnswersFresh`, what an
  identified request may know of its key (`AcceptedKey`) and a refused one not
  (`RefusedKey`).
- `OwnRows`: `[]OwnRowsShown`, from `OwnInv`: addresses are unique among the
  registered users (`EmailsUnique`: the unique column) and a request past its
  resolution has its own user on its connection (`OwnRequest`).

Assumptions: the values of the cache are sets of keys, tokens are signed by keys
and expire at a natural number (`TokensAssumption`); the initial users have
unique addresses (`UsersAssumption`); arrivals are requests
(`RequestsAssumption`); the time to live is positive (`SecondsAssumption`).

### Weekly report (WeeklyReportProofs)

For every finite set of users, number of retries, calendar and past, all lists
of holdings and all answers of the language model:

- `Invariance`: `Spec => []IInv`, on which the first four rest. It relates the
  job and the route (`work`), the history and the messages: rows have numbers of
  their own and dates not in the future (`HistoryOK`); a worker past its commit
  works on a committed row, and the row it compares with is the newest of those
  old enough (`WorkOK`); the job and the route never hold the same new row
  (`RowsApart`); a run ends on the day of its start or the next (`ClockOK`);
  every user the attempt has finished was told or counted (`JobOK`).
- `ReportsAreSaved`: `[]ReportedIsSaved`.
- `ComparesWithEarlier`: `[]NeverAgainstItself`. A row of the same run is at most
  one day old and the look-back is at least two. That the newest row exists is
  `NewestExists`, from the finite history and `FiniteBounds` (a finite set of
  numbers that is not empty has a greatest and a least element, by well-founded
  induction on its subsets).
- `NobodyUncounted`: `[]UnreachedAreCounted`.
- `TypesHold`: `[]TypeOK`.
- `RankingsAreExtreme`: `[]RankingsAgree` for every list with ties, of any
  length. The sorted list is defined by the place of each element; `PlaceOrder`
  shows that no two share a place, `ByRateSorts` that all places are taken and
  the list falls in its rates, `Performers` what its two slices then are.
- `SectionsAreWhole`: `[]SectionsFit` for every text and block length.
  `TrimmedFits` is the trimming at the last end of a sentence, `FindFirst` the
  search for a marker, `SectionFits` and `ParsedSectionsFit` the parsing.

Assumptions: finitely many users and a number of retries (`RunnerAssumption`);
the look-back is at least two days and less than a week, and the first week lies
in the time modelled (`CalendarAssumption`: 6 and 7 in the code); the past is
finite and has rows of users of the first week (`PastAssumption`); lists and
texts are sequences (`ListsAssumption`, `AnswersAssumption`); rankings and
blocks are not empty (`RankingAssumption`).

### Prices (PriceHistoryProofs)

For every set of users, symbols and holdings:

- `ReadableStay`: `ReadableBarsStay` for every choice of the windows with
  `ReadDays <= WeekDays <= FetchDays <= KeepDays`. An upsert replaces a bar by
  one of the same date, and what pruning takes is older than any reader looks.
- `OneBasis`: `[]SameBasis`. `BasisInv` adds that what an
  open transaction of the job has fetched is the whole window up to the newest
  bar, of today's basis (`FetchedToday`, true because a day ends only when no
  transaction is open), that no bar is ahead of the providers (`NoneAhead`), and
  that since the last refresh all bars from `FetchDays` before it on have one
  basis (`SyncedAlike`). The ranking of that day or a later one reads no
  further back.
- `NothingHidden`: `[]SucceededIsPriced`. `NotesInv` adds that what a user's
  session has noted as missing reaches the failures of the attempt
  (`SessionNotes`, `JobNotes`), also when its transaction raises instead of
  committing.
- `TypesHold`: `[]TypeOK`. `StoreInv` adds that a symbol has at most one bar per
  date, committed or about to be written, and that no bar is from a day the
  provider has not published; with `DatesAsManyAsRows` the unique key of the
  table follows from the upserts alone.

Assumptions: the windows in the order above (`DaysAssumption`); the first day is
not after the last, symbols have a kind and users hold symbols
(`HoldingsAssumption`); `RunnerAssumption`.

### Charts (PriceChartsProofs)

For every calendar of trading days, every length of the months, every limit, cap
and lag:

- `ChartsAreWhole`: `[]ChartPeriodsWhole`. `NewerPart` compares the points of
  the bars from some day on with those of all bars: periods follow each other
  (`PeriodGrows`), so of what is newer than a point that is shown every bar is
  there, and if every bar of the newest points is there they are equal.
  `WindowReaches` shows that the days gone back reach the periods due: three
  halves of a day for each day, seven for each week, and 31 for each month, which
  `MonthsPass` turns into as many months by induction on their number.
- `TypesHold`: `[]TypeOK`. That a chart has no more points than its limit is
  `AtMostLimit`: all but the oldest shown are newer than it, and fewer than
  `limit` are.

Assumptions: the days are natural numbers, the trading days of a calendar are
among them, the limits and the cap are natural numbers (`CalendarAssumption`);
months do not go back and none is longer than 31 days (`MonthsAssumption`).

### Only model-checked

- The liveness properties (`EventuallyCurrent`, `SessionsEnd`, `RunEnds`): they
  need fairness and ENABLED, which the provers do not have.
- `ImplementsLedger` with overlapping purchases and dividends
  (`position_purchases`). Its argument is that each recording makes the sums
  grow, so that no flush finds the column unchanged. That a sum over a set grows
  with an element needs induction over the set, which the provers cannot do
  here. In the proofs the aggregates are opaque but for two facts: they are
  integers (`OrZero`, the code's `or 0`) and the sum over no rows is 0. The
  serial refinement does not need more.
- The violations of section 3: a counterexample is not a theorem. Their premises
  are where the theorems stop: overlap (`position_torn`, `position_oversell`),
  the commit in the middle (`access_summary`), an answer before the commit
  (`import_lost`).

## 5. Plan

Done: the position, the import, the access, the job and the chart modules, their
runs, and the theorems above. Left, in this order:

1. *Proof*: the safety half of `EventuallyCurrent`: from any typed state in which
   no session is open, whatever overlap left in the row, a refresh that runs alone
   commits the aggregates.
2. *Model*: a run of overlapping split operations.
3. *Model*: accounts in the position, whose sales are checked over all accounts.

## 6. Not modelled

- `update_holding_note`, the list endpoints and the monthly and yearly sums: they
  read, or write a column nothing else uses.
- Deleting or editing trades and dividends: the API has no such operation.
- Several currencies in the position: the conversion happens in the price lookup
  and, for a trade, before the request; a price there is in yen.
- Encodings, header detection and number formats of the files: a row is typed.
- The same preview confirmed in two windows, or sent again after a lost answer:
  the code keeps nothing that would stop it; a tab of the model confirms once.
- Rows of `price_history` as references of a stock; what a trade of an import
  does to its holding row, which HoldingRequests has.
- Signature mathematics: a token is signed by its key. The claims checked are the
  audience, the expiry and the address.
- Values of the bars and of the points of a chart (open, high, low, close,
  volume), layout of messages, prompts.
- Concurrent use of one session by the gathered price lookups
  (`weekly_performance_service.py:109`): whether the driver raises is a matter of
  the library; `Raise` has the outcome.
- Validation of request bodies: orders are valid ones.
- HTTP clients, what the MCP tools select, the web application but for the import
  page, migrations, infrastructure: no state the properties depend on. Their
  entries in `PROJECT.json` give the reason of each.
