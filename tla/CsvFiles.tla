------------------------------ MODULE CsvFiles ------------------------------
(***************************************************************************)
(* What the importers read out of a broker's file: csv_import_service.py,  *)
(* dividend_csv_import_service.py and csv_utils.py.  A file is a function  *)
(* from its line numbers to rows in the columns of the export; parsing     *)
(* gives the records of some of the lines and the number of skipped rows.  *)
(* Texts are model values:                                                 *)
(* FundSymbolOf and TickerOf say what the name column of a row gives, and  *)
(* rates, amounts and unit prices are integers.                            *)
(***************************************************************************)
EXTENDS Integers, Sequences, FiniteSets, SequencesExt

CONSTANTS
    Symbols,        \* symbols a row may denote
    Names,          \* values of the name column
    FundSymbolOf,   \* names of funds in FUND_SYMBOL_MAP -> Symbols
    TickerOf,       \* names that end in a ticker -> Symbols
    SymbolRank,     \* the order of the symbol strings
    NoSymbol, NoPrice

ASSUME NameAssumption ==
    /\ DOMAIN FundSymbolOf \subseteq Names /\ DOMAIN TickerOf \subseteq Names
    /\ NoSymbol \notin Symbols
    /\ \A name \in DOMAIN FundSymbolOf : FundSymbolOf[name] \in Symbols
    /\ \A name \in DOMAIN TickerOf : TickerOf[name] \in Symbols
    /\ \A symbol \in Symbols : SymbolRank[symbol] \in Nat

\* Units in which the export counts shares of a fund, and the days a missing
\* exchange rate is looked for in the past.
Lot      == 10000
RateDays == 7

BuyDeals  == {"spot buy", "fund buy", "buy"}
SellDeals == {"spot sell", "fund redemption", "fund units redemption", "sell"}
FundDeals == {"fund buy", "fund redemption", "fund units redemption"}

FromName(table, name) == IF name \in DOMAIN table THEN table[name] ELSE NoSymbol

-----------------------------------------------------------------------------
(* Trades *)

SymbolOf(row) ==
    IF row.foreign THEN FromName(TickerOf, row.name)
    ELSE IF row.code = NoSymbol THEN FromName(FundSymbolOf, row.name)
    ELSE row.code

QuantityOf(row) ==
    IF row.deal \in FundDeals THEN row.quantity \div Lot ELSE row.quantity

\* A foreign trade settled in yen gets its price from the settled amount; one
\* settled in dollars has none until the day's rate is known.
PriceOf(row) ==
    CASE ~row.foreign           -> row.unit
      [] row.currency = "JPY"   -> row.amount \div QuantityOf(row)
      [] OTHER                  -> NoPrice

KindOf(row) == IF row.deal \in BuyDeals THEN "buy" ELSE "sell"

AccountTypes ==
    {"NISA growth", "NISA tsumitate", "junior NISA", "old NISA", "specific"}

\* A slip: the names of the export kept.
AccountAsExported(row) == row.custody

AccountOf(row) == IF row.custody = "NISA" THEN "NISA growth" ELSE row.custody

ParsedTransaction(row) ==
    [symbol |-> SymbolOf(row), kind |-> KindOf(row), day |-> row.day,
     account |-> AccountOf(row), quantity |-> QuantityOf(row),
     price |-> PriceOf(row),
     usd |-> IF row.foreign THEN row.unit ELSE NoPrice,
     currency |-> row.currency]

\* Foreign rows without a quantity are left out before the prices are computed
\* and reported nowhere; rows of another kind, or without a symbol, are skipped
\* with a message.
Kept(row)    == ~(row.foreign /\ QuantityOf(row) = 0)
Skipped(row) ==
    row.deal \notin BuyDeals \cup SellDeals \/ SymbolOf(row) = NoSymbol

parse_csv_content(file) ==
    LET kept == {i \in DOMAIN file : Kept(file[i])}
        good == {i \in kept : ~Skipped(file[i])}
    IN  [rows    |-> [i \in good |-> ParsedTransaction(file[i])],
         skipped |-> Cardinality(kept \ good)]

RateOnOrBefore(day, rates) ==
    LET known == {d \in DOMAIN rates : d <= day /\ d >= day - RateDays}
    IN  IF known = {} THEN NoPrice
        ELSE rates[CHOOSE d \in known : \A e \in known : e <= d]

Convertible(tx, rates) ==
    \/ tx.price # NoPrice
    \/ /\ tx.currency = "USD" /\ tx.usd # NoPrice
       /\ RateOnOrBefore(tx.day, rates) # NoPrice

InYen(tx, rates) ==
    IF tx.price # NoPrice THEN tx
    ELSE [tx EXCEPT !.price = tx.usd * RateOnOrBefore(tx.day, rates)]

apply_usdjpy_rates(parsed, rates) ==
    LET lines == DOMAIN parsed.rows
        good  == {i \in lines : Convertible(parsed.rows[i], rates)}
    IN  [rows    |-> [i \in good |-> InYen(parsed.rows[i], rates)],
         skipped |-> parsed.skipped + Cardinality(lines \ good)]

\* A slip: trades compared by their yen price.
YenKey(tx) ==
    <<tx.symbol, tx.kind, tx.day, tx.account, tx.quantity, tx.price>>

\* The identity of a trade: the yen price of a foreign trade depends on the
\* rates of the day of the import and takes no part in it.
TransactionKey(tx) ==
    <<tx.symbol, tx.kind, tx.day, tx.account, tx.quantity,
      IF tx.usd # NoPrice THEN tx.usd ELSE tx.price>>

-----------------------------------------------------------------------------
(* Dividends *)

DividendSymbolOf(row) ==
    IF row.fund THEN FromName(FundSymbolOf, row.name)
    ELSE FromName(TickerOf, row.name)

ParsedDividend(row) ==
    [symbol |-> DividendSymbolOf(row), kind |-> "dividend", day |-> row.day,
     quantity |-> IF row.fund THEN row.quantity \div Lot ELSE row.quantity,
     amount |-> row.amount]

parse_dividend_csv_content(file) ==
    LET kept == {i \in DOMAIN file : ~file[i].mrf}
        good == {i \in kept : DividendSymbolOf(file[i]) # NoSymbol}
    IN  [rows    |-> [i \in good |-> ParsedDividend(file[i])],
         skipped |-> Cardinality(kept \ good)]

DividendKey(dividend) ==
    <<dividend.symbol, dividend.day, dividend.quantity, dividend.amount>>

-----------------------------------------------------------------------------
(* What is new *)

Key(record) ==
    IF record.kind = "dividend" THEN DividendKey(record)
    ELSE TransactionKey(record)

\* Two rows of a file with one key are one element of the set, the first.
NewRecords(parsed, existing) ==
    {parsed[i] : i \in {i \in DOMAIN parsed :
        /\ \A j \in DOMAIN parsed : j < i => Key(parsed[j]) # Key(parsed[i])
        /\ \A record \in existing : Key(record) # Key(parsed[i])}}

\* Trades are sorted by day, symbol, account and kind, dividends by day and
\* symbol.  The word for a sale sorts before that for a purchase, and so does a
\* sale before the purchase of the same day.
SortKey(record) ==
    <<record.day, SymbolRank[record.symbol]>> \o
    IF record.kind = "dividend" THEN <<>>
    ELSE <<IF record.account = "NISA growth" THEN 0 ELSE 1,
           IF record.kind = "sell" THEN 0 ELSE 1>>

Before(a, b) ==
    \E i \in DOMAIN SortKey(a) :
        /\ SortKey(a)[i] < SortKey(b)[i]
        /\ \A j \in 1..(i - 1) : SortKey(a)[j] = SortKey(b)[j]

\* Rows that tie keep the order in which the set gave them: any.
PreviewOrders(records) ==
    {order \in SetToSeqs(records) :
        \A i, j \in DOMAIN order : Before(order[i], order[j]) => i < j}

detect_new(parsed, existing) == PreviewOrders(NewRecords(parsed, existing))
=============================================================================
