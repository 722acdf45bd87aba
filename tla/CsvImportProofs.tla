--------------------------- MODULE CsvImportProofs ---------------------------
(***************************************************************************)
(* What CsvImport promises, for every file, every rate table and any       *)
(* number of imports: the types, that no trade or dividend is registered   *)
(* twice or without its stock, and that a confirmation registers all it    *)
(* counted or nothing.                                                     *)
(***************************************************************************)
EXTENDS CsvImport, FiniteSetTheorems, SequenceTheorems, TLAPS

\* Every record a file of tab t can give.
Records(t) ==
    UNION {ToSet(ParsedFile(t, Export(t, period), rates).rows) :
               period \in Periods, rates \in RateTables}

Kinds(t) == IF t = "trades" THEN {"buy", "sell"} ELSE {"dividend"}

TransactionFields ==
    {"symbol", "kind", "day", "account", "quantity", "price", "usd", "currency"}

RowTyped(t, row) ==
    /\ row.symbol \in Symbols
    /\ row.kind \in Kinds(t)
    /\ t = "trades" => /\ row.account \in AccountTypes
                       /\ DOMAIN row = TransactionFields

\* A row of a file that is read has a symbol the project knows, and the yen
\* price set later leaves the other columns alone.
LEMMA SymbolsAreKnown ==
    ASSUME NEW table, DOMAIN table \subseteq Names,
           \A name \in DOMAIN table : table[name] \in Symbols, NEW name
    PROVE  FromName(table, name) \in Symbols \cup {NoSymbol}
BY DEF FromName

LEMMA TransactionsTyped ==
    ASSUME NEW row, row.custody \in AccountTypes \cup {"NISA"},
           row.code \in Symbols \cup {NoSymbol}, ~Skipped(row)
    PROVE  RowTyped("trades", ParsedTransaction(row))
<1> DEFINE tx == ParsedTransaction(row)
<1>1. SymbolOf(row) \in Symbols
  <2>1. FromName(TickerOf, row.name) \in Symbols \cup {NoSymbol}
    BY NameAssumption, SymbolsAreKnown
  <2>2. FromName(FundSymbolOf, row.name) \in Symbols \cup {NoSymbol}
    BY NameAssumption, SymbolsAreKnown
  <2>3. QED BY <2>1, <2>2 DEF SymbolOf, Skipped
<1>2. AccountOf(row) \in AccountTypes
  BY DEF AccountOf, AccountTypes
<1>3. KindOf(row) \in {"buy", "sell"}
  BY DEF KindOf
<1>4. /\ tx.symbol = SymbolOf(row) /\ tx.kind = KindOf(row)
      /\ tx.account = AccountOf(row) /\ DOMAIN tx = TransactionFields
  BY DEF ParsedTransaction, TransactionFields
<1> HIDE DEF tx
<1>5. QED BY <1>1, <1>2, <1>3, <1>4 DEF RowTyped, Kinds, tx

LEMMA InYenTyped ==
    ASSUME NEW tx, RowTyped("trades", tx), NEW rates
    PROVE  RowTyped("trades", InYen(tx, rates))
<1>1. CASE tx.price # NoPrice BY <1>1 DEF InYen
<1>2. CASE tx.price = NoPrice
  <2> DEFINE price == tx.usd * RateOnOrBefore(tx.day, rates)
             new   == [tx EXCEPT !.price = price]
  <2>1. DOMAIN tx = TransactionFields BY DEF RowTyped
  <2> HIDE DEF price
  <2>2. /\ new.symbol = tx.symbol /\ new.kind = tx.kind
        /\ new.account = tx.account /\ DOMAIN new = DOMAIN tx
    BY <2>1 DEF TransactionFields
  <2>3. InYen(tx, rates) = new BY <1>2 DEF InYen, price
  <2> HIDE DEF new
  <2>4. QED BY <2>2, <2>3 DEF RowTyped
<1>3. QED BY <1>1, <1>2

\* A file of either tab gives typed records, on some of its own lines.
LEMMA FilesTyped ==
    ASSUME NEW t \in Tabs, NEW period \in Periods, NEW rates \in RateTables
    PROVE  LET rows == ParsedFile(t, Export(t, period), rates).rows
           IN  /\ DOMAIN rows \subseteq DOMAIN History[t]
               /\ \A i \in DOMAIN rows : RowTyped(t, rows[i])
<1> DEFINE file == Export(t, period)
           rows == ParsedFile(t, file, rates).rows
<1>1. /\ DOMAIN file \subseteq DOMAIN History[t]
      /\ \A i \in DOMAIN file : file[i] = History[t][i]
  BY DEF Export, Restrict
<1> HIDE DEF file
<1>2. CASE t = "trades"
  <2> DEFINE parsed == parse_csv_content(file)
             good   == {i \in DOMAIN file : Kept(file[i]) /\ ~Skipped(file[i])}
  <2>1. parsed.rows = [i \in good |-> ParsedTransaction(file[i])]
    BY DEF parse_csv_content
  <2>2. \A i \in good : RowTyped("trades", parsed.rows[i])
    BY <1>1, <1>2, <2>1, FileAssumption, TransactionsTyped
  <2> DEFINE conv == {i \in DOMAIN parsed.rows :
                          Convertible(parsed.rows[i], rates)}
  <2> HIDE DEF parsed
  <2>3. rows = [i \in conv |-> InYen(parsed.rows[i], rates)]
    BY <1>2 DEF ParsedFile, apply_usdjpy_rates, parsed
  <2>4. DOMAIN parsed.rows = good BY <2>1
  <2> HIDE DEF rows
  <2>5. \A i \in conv : RowTyped("trades", rows[i])
    BY <2>2, <2>3, <2>4, InYenTyped
  <2>6. DOMAIN rows = conv BY <2>3
  <2>7. QED BY <1>1, <1>2, <2>4, <2>5, <2>6 DEF rows, file
<1>3. CASE t = "dividends"
  <2> DEFINE good == {i \in DOMAIN file :
                         ~file[i].mrf /\ DividendSymbolOf(file[i]) # NoSymbol}
  <2>1. rows = [i \in good |-> ParsedDividend(file[i])]
    BY <1>3 DEF ParsedFile, parse_dividend_csv_content
  <2>2. ASSUME NEW row, DividendSymbolOf(row) # NoSymbol
        PROVE  RowTyped("dividends", ParsedDividend(row))
    <3>1. DividendSymbolOf(row) \in Symbols
      BY <2>2, NameAssumption, SymbolsAreKnown DEF DividendSymbolOf
    <3>2. QED BY <3>1 DEF ParsedDividend, RowTyped, Kinds
  <2> HIDE DEF rows
  <2>3. QED BY <1>1, <1>3, <2>1, <2>2 DEF rows, file
<1>4. QED BY <1>2, <1>3, PageAssumption

LEMMA RecordsTyped ==
    ASSUME NEW t \in Tabs, NEW row \in Records(t)
    PROVE  RowTyped(t, row)
BY FilesTyped DEF Records, ToSet

\* Two records of one execution have one key: the converse is not needed.
LEMMA SameExecutionSameKey ==
    ASSUME NEW s \in Tabs, NEW t \in Tabs,
           NEW a \in Records(s), NEW b \in Records(t), SameExecution(a, b)
    PROVE  s = t /\ Key(a) = Key(b)
<1>1. RowTyped(s, a) /\ RowTyped(t, b) BY RecordsTyped
<1>2. CASE a = b
  BY <1>1, <1>2, PageAssumption DEF RowTyped, Kinds
<1>3. CASE a # b
  <2>1. /\ a.kind = b.kind /\ a.kind # "dividend" /\ a.usd # NoPrice
        /\ [a EXCEPT !.price = 0] = [b EXCEPT !.price = 0]
    BY <1>3 DEF SameExecution
  <2>2. s = "trades" /\ t = "trades"
    BY <1>1, <2>1, PageAssumption DEF RowTyped, Kinds
  <2>3. DOMAIN a = TransactionFields /\ DOMAIN b = TransactionFields
    BY <1>1, <2>2 DEF RowTyped
  <2>4. /\ a.symbol = b.symbol /\ a.day = b.day /\ a.account = b.account
        /\ a.quantity = b.quantity /\ a.usd = b.usd
    BY <2>1, <2>3 DEF TransactionFields
  <2>5. QED BY <2>1, <2>2, <2>4 DEF Key, TransactionKey
<1>4. QED BY <1>2, <1>3

Opposed(rows, records) ==
    \A i \in DOMAIN rows : \A r \in records : Key(rows[i]) # Key(r)

Distinct(rows) ==
    \A i, j \in DOMAIN rows : Key(rows[i]) = Key(rows[j]) => i = j

\* What the page shows: records of the file, no two of one key and none of a key
\* that is registered.
LEMMA PreviewIsNew ==
    ASSUME NEW t \in Tabs, NEW period \in Periods, NEW rates \in RateTables,
           NEW existing,
           NEW order \in
               detect_new(ParsedFile(t, Export(t, period), rates).rows, existing)
    PROVE  /\ order \in Seq(Records(t))
           /\ Distinct(order) /\ Opposed(order, existing)
<1> DEFINE rows == ParsedFile(t, Export(t, period), rates).rows
           new  == NewRecords(rows, existing)
           n    == Cardinality(new)
<1>1. DOMAIN rows \subseteq DOMAIN History[t] BY FilesTyped
<1>2. DOMAIN rows \subseteq Nat /\ IsFiniteSet(DOMAIN rows)
  BY <1>1, FileAssumption, FS_Subset
<1>3. \A i \in DOMAIN rows : rows[i] \in Records(t)
  <2>1. ToSet(rows) \subseteq Records(t) BY DEF Records
  <2> HIDE DEF rows
  <2>2. QED BY <2>1 DEF ToSet
<1>4. order \in [1..n -> new] /\ \A i, j \in 1..n : i # j => order[i] # order[j]
  BY DEF detect_new, PreviewOrders, SetToSeqs
<1> HIDE DEF rows
<1> DEFINE firsts ==
      {i \in DOMAIN rows :
          /\ \A j \in DOMAIN rows : j < i => Key(rows[j]) # Key(rows[i])
          /\ \A record \in existing : Key(record) # Key(rows[i])}
<1>5. new = {rows[i] : i \in firsts}
  BY DEF NewRecords
<1>6. n \in Nat
  <2>1. IsFiniteSet(firsts) BY <1>2, FS_Subset
  <2> DEFINE row == [i \in firsts |-> rows[i]]
  <2>2. row \in Surjection(firsts, new) BY <1>5 DEF Surjection
  <2>3. IsFiniteSet(new) BY <2>1, <2>2, FS_Surjection
  <2>4. QED BY <2>3, FS_CardinalityType
<1>7. ASSUME NEW a \in new, NEW b \in new, Key(a) = Key(b)
      PROVE  a = b
  <2>1. PICK i \in firsts : a = rows[i] BY <1>5
  <2>2. PICK j \in firsts : b = rows[j] BY <1>5
  <2>3. ~(i < j) /\ ~(j < i) BY <1>7, <2>1, <2>2
  <2>4. i \in Nat /\ j \in Nat BY <1>2
  <2>5. QED BY <2>1, <2>2, <2>3, <2>4
<1>8. \A a \in new : \A r \in existing : Key(a) # Key(r)
  BY <1>5
<1>9. new \subseteq Records(t) BY <1>3, <1>5
<1> HIDE DEF new, n
<1>10. order \in Seq(Records(t))
  BY <1>4, <1>6, <1>9, SeqDef
<1>11. QED
  BY <1>4, <1>7, <1>8, <1>10 DEF Distinct, Opposed

-----------------------------------------------------------------------------
(* The inductive invariant *)

Stock         == [symbol : Symbols, named : BOOLEAN]
Registered(s) == [row : Records(s), session : {s}, import : 1..MaxImports[s]]

SessionFields ==
    {"pc", "rows", "import", "pending", "inserted", "trades", "created",
     "failed", "broken"}

\* The state of the request of tab s: its rows are records of a file of s.
SessionTyped(s, x) ==
    /\ DOMAIN x = SessionFields
    /\ x.pc \in {"closed", "select", "create", "flush", "record", "reply",
                 "commit"}
    /\ x.rows \in Seq(Records(s)) /\ x.pending \in Seq(Stock)
    /\ x.inserted \subseteq Stock /\ x.trades \subseteq Registered(s)
    /\ x.created \subseteq Records(s) /\ x.failed \subseteq Records(s)
    /\ x.broken \in BOOLEAN

\* At a row there is a row, of an import that was counted; after an error that
\* broke the transaction no statement runs.
AtRow(s, x) ==
    /\ x.broken => x.pc \in {"select", "reply", "commit"}
    /\ x.pc \in {"select", "create", "flush", "record"} => x.rows # <<>>
    /\ x.pc = "closed" => x = Closed
    /\ x.pc # "closed" => x.import \in 1..MaxImports[s]

Of(s, rec) == {r \in rec : r.session = s}
RowsOf(records) == {r.row : r \in records}

\* The rows still to come, those of the open transaction and those registered
\* before have different keys.
KeysApart(s, x, rec) ==
    /\ Distinct(x.rows)
    /\ Opposed(x.rows, RowsOf(Of(s, rec)))
    /\ Opposed(x.rows, x.created \cup x.failed)
    /\ \A a \in x.trades : \A b \in Of(s, rec) : Key(a.row) # Key(b.row)
    /\ \A a, b \in x.trades : Key(a.row) = Key(b.row) => a = b

\* The open transaction holds what was counted as created, until an error rolls
\* it back.
Counted(x) ==
    /\ x.created \cap x.failed = {}
    /\ RowsOf(x.trades) \subseteq x.created
    /\ ~x.broken => x.created \subseteq RowsOf(x.trades)

\* A row of the open transaction has its stock, committed or of its own.
TradesHaveStock(x, st) ==
    \A r \in x.trades :
        \/ st[r.row.symbol] # "none"
        \/ \E stock \in x.inserted : stock.symbol = r.row.symbol

WorkInv(s, x, st, rec) ==
    /\ SessionTyped(s, x)
    /\ KeysApart(s, x, rec) /\ Counted(x) /\ TradesHaveStock(x, st)

SessionInv(s, x, st, rec) == WorkInv(s, x, st, rec) /\ AtRow(s, x)

TabFields == {"step", "preview", "imports", "created", "failed"}

\* A preview shows new records until they are confirmed: the request of the tab
\* has ended before, and no other request registers records of the tab.
TabInv(t, p, x, rec) ==
    /\ DOMAIN p = TabFields
    /\ p.step \in {"upload", "preview", "confirming", "complete"}
    /\ p.preview \in Seq(Records(t)) /\ p.imports \in 0..MaxImports[t]
    /\ p.step = "preview" =>
        /\ p.imports # 0 /\ x.pc = "closed"
        /\ Distinct(p.preview) /\ Opposed(p.preview, RowsOf(Of(t, rec)))

RecordedInv(st, rec) ==
    /\ st \in [Symbols -> {"none", "unnamed", "named"}]
    /\ \A r \in rec : \E s \in Tabs : r \in Registered(s)
    /\ \A r \in rec : st[r.row.symbol] # "none"
    /\ \A a, b \in rec :
        a.session = b.session /\ Key(a.row) = Key(b.row) => a = b

IInv ==
    /\ session = [s \in Sessions |-> session[s]]
    /\ tab = [t \in Tabs |-> tab[t]]
    /\ RecordedInv(stocks, recorded)
    /\ \A s \in Sessions : SessionInv(s, session[s], stocks, recorded)
    /\ \A t \in Tabs : TabInv(t, tab[t], session[t], recorded)

-----------------------------------------------------------------------------
(* One row of the loop *)

LEMMA TailOf ==
    ASSUME NEW R, NEW rows \in Seq(R), rows # <<>>
    PROVE  /\ 1 \in DOMAIN rows /\ Head(rows) = rows[1] /\ Head(rows) \in R
           /\ Tail(rows) \in Seq(R)
           /\ Len(rows) # 1 => Tail(rows) # <<>>
           /\ \A i \in DOMAIN Tail(rows) :
                /\ i + 1 \in DOMAIN rows /\ i + 1 # 1
                /\ i \in Int /\ Tail(rows)[i] = rows[i + 1]
<1>1. Len(rows) \in Nat /\ DOMAIN rows = 1..Len(rows) /\ Len(rows) # 0
  BY LenProperties, EmptySeq
<1>2. /\ Tail(rows) \in Seq(R) /\ Head(rows) \in R
      /\ Len(Tail(rows)) = Len(rows) - 1
      /\ \A i \in 1..Len(Tail(rows)) : Tail(rows)[i] = rows[i + 1]
  BY HeadTailProperties
<1>3. DOMAIN Tail(rows) = 1..Len(Tail(rows)) BY <1>2, LenProperties
<1>4. Len(rows) # 1 => Tail(rows) # <<>>
  <2>1. Len(rows) # 1 => Len(Tail(rows)) # 0 BY <1>1, <1>2
  <2>2. QED BY <2>1, EmptySeq
<1>5. Head(rows) = rows[1]
  <2>1. SubSeq(rows, 1, Len(rows)) = rows BY SubSeqFull
  <2>2. Head(SubSeq(rows, 1, Len(rows))) = rows[1] BY <1>1, HeadTailOfSubSeq
  <2>3. QED BY <2>1, <2>2
<1>6. QED BY <1>1, <1>2, <1>3, <1>4, <1>5

LEMMA TailApart ==
    ASSUME NEW R, NEW rows \in Seq(R), rows # <<>>, Distinct(rows)
    PROVE  /\ Distinct(Tail(rows)) /\ Opposed(Tail(rows), {Head(rows)})
           /\ \A S : Opposed(rows, S) =>
                Opposed(Tail(rows), S) /\ \A r \in S : Key(Head(rows)) # Key(r)
BY TailOf DEF Distinct, Opposed

LEMMA NextRowFields ==
    ASSUME NEW s \in Tabs, NEW z, SessionTyped(s, z), z.rows # <<>>
    PROVE  LET y == NextRow(z)
           IN  /\ DOMAIN y = SessionFields
               /\ y.rows = Tail(z.rows) /\ y.pc \in {"reply", "select"}
               /\ y.pc = "select" => Tail(z.rows) # <<>>
               /\ y.import = z.import /\ y.pending = z.pending
               /\ y.inserted = z.inserted /\ y.trades = z.trades
               /\ y.created = z.created /\ y.failed = z.failed
               /\ y.broken = z.broken
<1> DEFINE pc == IF Len(z.rows) = 1 THEN "reply" ELSE "select"
<1>1. DOMAIN z = SessionFields /\ z.rows \in Seq(Records(s))
  BY DEF SessionTyped
<1>2. pc = "select" => Tail(z.rows) # <<>> BY <1>1, TailOf
<1>3. pc \in {"reply", "select"} OBVIOUS
<1>4. NextRow(z) = [z EXCEPT !.rows = Tail(z.rows), !.pc = pc] BY DEF NextRow
<1> HIDE DEF pc
<1>5. QED BY <1>1, <1>2, <1>3, <1>4 DEF SessionFields

\* The row is counted as failed, in a transaction that goes on or is broken.
LEMMA RowFailed ==
    ASSUME NEW s \in Tabs, NEW st, NEW rec, NEW z, WorkInv(s, z, st, rec),
           z.rows # <<>>, z.import \in 1..MaxImports[s],
           NEW y, y = [NextRow(z) EXCEPT !.failed = @ \cup {Head(z.rows)}]
    PROVE  SessionInv(s, y, st, rec)
<1>1. SessionTyped(s, z) BY DEF WorkInv
<1>2. z.rows \in Seq(Records(s)) /\ Distinct(z.rows)
  BY DEF WorkInv, SessionTyped, KeysApart
<1>3. /\ DOMAIN y = SessionFields
      /\ y.rows = Tail(z.rows) /\ y.pc \in {"reply", "select"}
      /\ y.pc = "select" => Tail(z.rows) # <<>>
      /\ y.import = z.import /\ y.pending = z.pending
      /\ y.inserted = z.inserted /\ y.trades = z.trades
      /\ y.created = z.created /\ y.failed = z.failed \cup {Head(z.rows)}
      /\ y.broken = z.broken
  BY <1>1, NextRowFields DEF SessionFields
<1>4. SessionTyped(s, y)
  <2>1. Tail(z.rows) \in Seq(Records(s)) /\ Head(z.rows) \in Records(s)
    BY <1>2, TailOf
  <2>2. QED BY <1>1, <1>3, <2>1 DEF SessionTyped
<1>5. AtRow(s, y) BY <1>3 DEF AtRow
<1>6. KeysApart(s, y, rec)
  <2>1. /\ Distinct(Tail(z.rows)) /\ Opposed(Tail(z.rows), {Head(z.rows)})
        /\ Opposed(Tail(z.rows), RowsOf(Of(s, rec)))
        /\ Opposed(Tail(z.rows), z.created \cup z.failed)
    BY <1>2, TailApart DEF WorkInv, KeysApart
  <2>2. Opposed(Tail(z.rows), y.created \cup y.failed)
    BY <1>3, <2>1 DEF Opposed
  <2>3. QED BY <1>3, <2>1, <2>2 DEF WorkInv, KeysApart
<1>7. Counted(y)
  <2> DEFINE counted == z.created \cup z.failed
  <2>a. Opposed(z.rows, counted) BY DEF WorkInv, KeysApart
  <2> HIDE DEF counted
  <2>b. \A r \in counted : Key(Head(z.rows)) # Key(r)
    BY <1>2, <2>a, TailApart
  <2>1. Head(z.rows) \notin z.created BY <2>b DEF counted
  <2>2. QED BY <1>3, <2>1 DEF WorkInv, Counted
<1>8. TradesHaveStock(y, st) BY <1>3 DEF WorkInv, TradesHaveStock
<1>9. QED BY <1>4, <1>5, <1>6, <1>7, <1>8 DEF SessionInv, WorkInv

\* The row is recorded and counted as created.
LEMMA RowRecorded ==
    ASSUME NEW s \in Tabs, NEW st, NEW rec, NEW z, WorkInv(s, z, st, rec),
           z.rows # <<>>, z.import \in 1..MaxImports[s], ~z.broken,
           \/ st[Head(z.rows).symbol] # "none"
           \/ \E stock \in z.inserted : stock.symbol = Head(z.rows).symbol,
           NEW r, r = [row |-> Head(z.rows), session |-> s, import |-> z.import],
           NEW y, y = [NextRow(z) EXCEPT !.trades = @ \cup {r},
                                         !.created = @ \cup {Head(z.rows)}]
    PROVE  SessionInv(s, y, st, rec)
<1> DEFINE row == Head(z.rows)
<1>1. SessionTyped(s, z) BY DEF WorkInv
<1>2. z.rows \in Seq(Records(s)) /\ Distinct(z.rows)
  BY DEF WorkInv, SessionTyped, KeysApart
<1>3. r.row = row /\ r.session = s /\ r.import = z.import OBVIOUS
<1>4. Tail(z.rows) \in Seq(Records(s)) /\ row \in Records(s)
  BY <1>2, TailOf
<1>5. r \in Registered(s) BY <1>4 DEF Registered
<1> HIDE DEF row
<1>6. /\ DOMAIN y = SessionFields
      /\ y.rows = Tail(z.rows) /\ y.pc \in {"reply", "select"}
      /\ y.pc = "select" => Tail(z.rows) # <<>>
      /\ y.import = z.import /\ y.pending = z.pending
      /\ y.inserted = z.inserted /\ y.trades = z.trades \cup {r}
      /\ y.created = z.created \cup {row} /\ y.failed = z.failed
      /\ y.broken = z.broken
  BY <1>1, NextRowFields DEF SessionFields, row
<1>7. SessionTyped(s, y) BY <1>1, <1>4, <1>5, <1>6 DEF SessionTyped
<1>8. AtRow(s, y) BY <1>6 DEF AtRow
<1> DEFINE counted == z.created \cup z.failed
           old     == RowsOf(Of(s, rec))
<1>9. Opposed(z.rows, counted) /\ Opposed(z.rows, old)
  BY DEF WorkInv, KeysApart
<1>10. RowsOf(z.trades) \subseteq counted /\ z.created \subseteq counted
       /\ z.failed \subseteq counted
  BY DEF WorkInv, Counted
<1>11. \A a \in z.trades : a.row \in counted BY <1>10 DEF RowsOf
<1>12. \A b \in Of(s, rec) : b.row \in old BY DEF RowsOf
<1> HIDE DEF counted, old
<1>13. /\ Distinct(Tail(z.rows)) /\ Opposed(Tail(z.rows), {row})
       /\ Opposed(Tail(z.rows), old) /\ Opposed(Tail(z.rows), counted)
       /\ \A a \in old \cup counted : Key(row) # Key(a)
  BY <1>2, <1>9, TailApart DEF row
<1>14. KeysApart(s, y, rec)
  <2>1. Opposed(y.rows, y.created \cup y.failed)
    <3>1. y.created \cup y.failed = counted \cup {row} BY <1>6 DEF counted
    <3>2. Opposed(Tail(z.rows), counted \cup {row}) BY <1>13 DEF Opposed
    <3>3. QED BY <1>6, <3>1, <3>2
  <2>2. \A a \in y.trades : \A b \in Of(s, rec) : Key(a.row) # Key(b.row)
    BY <1>3, <1>6, <1>12, <1>13 DEF WorkInv, KeysApart
  <2>3. \A a, b \in y.trades : Key(a.row) = Key(b.row) => a = b
    BY <1>3, <1>6, <1>11, <1>13 DEF WorkInv, KeysApart
  <2>4. QED BY <1>6, <1>13, <2>1, <2>2, <2>3 DEF KeysApart, old
<1>15. Counted(y)
  <2>1. row \notin z.failed BY <1>10, <1>13
  <2>2. RowsOf(y.trades) = RowsOf(z.trades) \cup {row}
    BY <1>3, <1>6 DEF RowsOf
  <2>3. QED BY <1>6, <2>1, <2>2 DEF WorkInv, Counted
<1>16. TradesHaveStock(y, st)
  BY <1>3, <1>6 DEF WorkInv, TradesHaveStock, row
<1>17. QED BY <1>7, <1>8, <1>14, <1>15, <1>16 DEF SessionInv, WorkInv

-----------------------------------------------------------------------------
(* What a flush, an error and a new object do to a session *)

SameWork(x, z) ==
    /\ z.rows = x.rows /\ z.import = x.import
    /\ z.created = x.created /\ z.failed = x.failed

LEMMA FlushedWork ==
    ASSUME NEW s \in Tabs, NEW st, NEW rec, WorkInv(s, session[s], st, rec)
    PROVE  LET x == session[s]  z == Flushed(s)
           IN  /\ WorkInv(s, z, st, rec) /\ SameWork(x, z)
               /\ z.broken = x.broken /\ z.trades = x.trades /\ z.pc = x.pc
               /\ z.inserted = x.inserted \cup ToSet(x.pending)
<1> DEFINE x == session[s]  z == Flushed(s)
<1>1. SessionTyped(s, x) BY DEF WorkInv
<1>2. DOMAIN x = SessionFields /\ x.pending \in Seq(Stock)
  BY <1>1 DEF SessionTyped
<1>3. /\ DOMAIN z = SessionFields /\ SameWork(x, z)
      /\ z.broken = x.broken /\ z.trades = x.trades /\ z.pc = x.pc
      /\ z.inserted = x.inserted \cup ToSet(x.pending) /\ z.pending = <<>>
  BY <1>2 DEF Flushed, SessionFields, SameWork
<1>4. ToSet(x.pending) \subseteq Stock BY <1>2, ElementOfSeq, LenProperties DEF ToSet
<1>5. WorkInv(s, x, st, rec) OBVIOUS
<1> HIDE DEF x, z
<1>6. SessionTyped(s, z)
  BY <1>1, <1>3, <1>4, EmptySeq DEF SessionTyped, SameWork
<1>7. KeysApart(s, z, rec) /\ Counted(z)
  BY <1>3, <1>5 DEF WorkInv, KeysApart, Counted, SameWork
<1>8. TradesHaveStock(z, st)
  BY <1>3, <1>5 DEF WorkInv, TradesHaveStock
<1>9. QED BY <1>3, <1>6, <1>7, <1>8 DEF WorkInv, x, z

LEMMA BrokenWork ==
    ASSUME NEW s \in Tabs, NEW st, NEW rec, WorkInv(s, session[s], st, rec)
    PROVE  WorkInv(s, Broken(s), st, rec) /\ SameWork(session[s], Broken(s))
<1> DEFINE x == session[s]  z == Broken(s)
<1>1. SessionTyped(s, x) BY DEF WorkInv
<1>2. DOMAIN x = SessionFields BY <1>1 DEF SessionTyped
<1>3. /\ DOMAIN z = SessionFields /\ SameWork(x, z) /\ z.pc = x.pc
      /\ z.broken = TRUE /\ z.trades = {} /\ z.inserted = {}
      /\ z.pending = <<>>
  BY <1>2 DEF Broken, SessionFields, SameWork
<1>4. WorkInv(s, x, st, rec) OBVIOUS
<1> HIDE DEF x, z
<1>5. SessionTyped(s, z)
  BY <1>1, <1>3, EmptySeq DEF SessionTyped, SameWork
<1>6. RowsOf(z.trades) = {} BY <1>3 DEF RowsOf
<1>7. KeysApart(s, z, rec) /\ Counted(z)
  BY <1>3, <1>4, <1>6 DEF WorkInv, KeysApart, Counted, SameWork
<1>8. TradesHaveStock(z, st) BY <1>3 DEF TradesHaveStock
<1>9. QED BY <1>3, <1>5, <1>7, <1>8 DEF WorkInv, x, z

LEMMA AddedWork ==
    ASSUME NEW s \in Tabs, NEW st, NEW rec, WorkInv(s, session[s], st, rec),
           NEW stock \in Stock,
           NEW z, z = [session[s] EXCEPT !.pending = Append(@, stock)]
    PROVE  /\ WorkInv(s, z, st, rec) /\ SameWork(session[s], z)
           /\ z.broken = session[s].broken
<1> DEFINE x == session[s]
<1>1. SessionTyped(s, x) BY DEF WorkInv
<1>2. DOMAIN x = SessionFields /\ x.pending \in Seq(Stock)
  BY <1>1 DEF SessionTyped
<1>3. Append(x.pending, stock) \in Seq(Stock) BY <1>2, AppendProperties
<1>4. /\ DOMAIN z = SessionFields /\ SameWork(x, z) /\ z.pc = x.pc
      /\ z.broken = x.broken /\ z.trades = x.trades /\ z.inserted = x.inserted
      /\ z.pending = Append(x.pending, stock)
  BY <1>2 DEF SessionFields, SameWork
<1>5. WorkInv(s, x, st, rec) OBVIOUS
<1> HIDE DEF x
<1>6. SessionTyped(s, z) BY <1>1, <1>3, <1>4 DEF SessionTyped, SameWork
<1>7. KeysApart(s, z, rec) /\ Counted(z) /\ TradesHaveStock(z, st)
  BY <1>4, <1>5 DEF WorkInv, KeysApart, Counted, TradesHaveStock, SameWork
<1>8. QED BY <1>4, <1>6, <1>7 DEF WorkInv, x

-----------------------------------------------------------------------------
(* The invariant is inductive *)

LEMMA ClosedSession ==
    ASSUME NEW s \in Tabs, NEW st, NEW rec
    PROVE  SessionInv(s, Closed, st, rec)
<1>1. /\ DOMAIN Closed = SessionFields
      /\ Closed.pc = "closed" /\ Closed.rows = <<>> /\ Closed.pending = <<>>
      /\ Closed.inserted = {} /\ Closed.trades = {} /\ Closed.created = {}
      /\ Closed.failed = {} /\ Closed.broken = FALSE
  BY DEF Closed, SessionFields
<1>2. SessionTyped(s, Closed) BY <1>1, EmptySeq DEF SessionTyped
<1>3. AtRow(s, Closed) BY <1>1 DEF AtRow
<1>4. KeysApart(s, Closed, rec) BY <1>1 DEF KeysApart, Distinct, Opposed
<1>5. Counted(Closed) BY <1>1 DEF Counted, RowsOf
<1>6. TradesHaveStock(Closed, st) BY <1>1 DEF TradesHaveStock
<1>7. QED BY <1>2, <1>3, <1>4, <1>5, <1>6 DEF SessionInv, WorkInv

LEMMA InitInvariant == Init => IInv
<1> SUFFICES ASSUME Init PROVE IInv OBVIOUS
<1>1. /\ session = [s \in Sessions |-> Closed]
      /\ tab = [t \in Tabs |-> EmptyTab]
      /\ stocks = [symbol \in Symbols |-> "none"] /\ recorded = {}
  BY DEF Init
<1>2. RecordedInv(stocks, recorded) BY <1>1 DEF RecordedInv
<1>3. \A s \in Tabs : SessionInv(s, Closed, stocks, recorded)
  BY ClosedSession
<1>4. ASSUME NEW t \in Tabs PROVE TabInv(t, EmptyTab, Closed, recorded)
  <2>1. MaxImports[t] \in Nat BY PageAssumption
  <2>2. /\ DOMAIN EmptyTab = TabFields /\ EmptyTab.step = "upload"
        /\ EmptyTab.preview = <<>> /\ EmptyTab.imports = 0
    BY DEF EmptyTab, TabFields
  <2>3. QED BY <2>1, <2>2, EmptySeq DEF TabInv
<1>5. QED BY <1>1, <1>2, <1>3, <1>4, PageAssumption DEF IInv

\* A session that no longer is at the start of its request.
LEMMA OpenSession ==
    ASSUME IInv, NEW s \in Sessions, session[s].pc # "closed"
    PROVE  /\ s \in Tabs /\ session[s].import \in 1..MaxImports[s]
           /\ WorkInv(s, session[s], stocks, recorded)
           /\ DOMAIN session[s] = SessionFields
           /\ tab[s].step # "preview"
           /\ session[s].pc \in {"select", "create", "flush", "record"} =>
                /\ session[s].rows # <<>>
                /\ Row(s) \in Records(s) /\ Row(s).symbol \in Symbols
<1>1. s \in Tabs BY PageAssumption
<1>2. SessionInv(s, session[s], stocks, recorded) BY DEF IInv
<1>3. /\ WorkInv(s, session[s], stocks, recorded) /\ AtRow(s, session[s])
      /\ SessionTyped(s, session[s])
  BY <1>2 DEF SessionInv, WorkInv
<1>4. TabInv(s, tab[s], session[s], recorded) BY <1>1 DEF IInv
<1>5. tab[s].step # "preview" BY <1>4 DEF TabInv
<1>6. ASSUME session[s].pc \in {"select", "create", "flush", "record"}
      PROVE  /\ session[s].rows # <<>>
             /\ Row(s) \in Records(s) /\ Row(s).symbol \in Symbols
  <2>1. session[s].rows # <<>> BY <1>3, <1>6 DEF AtRow
  <2>2. session[s].rows \in Seq(Records(s)) BY <1>3 DEF SessionTyped
  <2>3. Row(s) \in Records(s) BY <2>1, <2>2, TailOf DEF Row
  <2>4. QED BY <1>1, <2>1, <2>3, RecordsTyped DEF RowTyped
<1>7. QED BY <1>1, <1>3, <1>5, <1>6 DEF AtRow, SessionTyped

\* A statement of one session that leaves the tables alone.
LEMMA SessionStep ==
    ASSUME IInv, NEW s \in Sessions, session[s].pc # "closed", NEW y,
           SessionInv(s, y, stocks, recorded),
           session' = [session EXCEPT ![s] = y],
           UNCHANGED <<stocks, recorded, tab>>
    PROVE  IInv'
<1>1. session = [u \in Sessions |-> session[u]] BY DEF IInv
<1>2. /\ session' = [u \in Sessions |-> session'[u]] /\ session'[s] = y
      /\ \A u \in Sessions \ {s} : session'[u] = session[u]
  BY <1>1
<1>3. \A u \in Sessions : SessionInv(u, session'[u], stocks', recorded')
  BY <1>2 DEF IInv
<1>4. ASSUME NEW t \in Tabs PROVE TabInv(t, tab'[t], session'[t], recorded')
  <2>1. TabInv(t, tab[t], session[t], recorded) BY DEF IInv
  <2>2. t \in Sessions BY PageAssumption
  <2>3. CASE t # s BY <1>2, <2>1, <2>2, <2>3
  <2>4. CASE t = s
    <3>1. tab[t].step # "preview" BY <2>4, OpenSession
    <3>2. QED BY <2>1, <3>1 DEF TabInv
  <2>5. QED BY <2>3, <2>4
<1>5. RecordedInv(stocks', recorded') BY DEF IInv
<1>6. tab' = [t \in Tabs |-> tab'[t]] BY DEF IInv
<1>7. QED BY <1>2, <1>3, <1>4, <1>5, <1>6 DEF IInv

LEMMA Moved ==
    ASSUME NEW s \in Tabs, NEW st, NEW rec, NEW z, WorkInv(s, z, st, rec),
           z.import \in 1..MaxImports[s], NEW pc,
           \/ /\ pc \in {"create", "flush", "record"}
              /\ z.rows # <<>> /\ ~z.broken
           \/ pc = "commit",
           NEW y, y = [z EXCEPT !.pc = pc]
    PROVE  SessionInv(s, y, st, rec)
<1>1. SessionTyped(s, z) BY DEF WorkInv
<1>2. DOMAIN z = SessionFields BY <1>1 DEF SessionTyped
<1>3. /\ DOMAIN y = SessionFields /\ SameWork(z, y) /\ y.pc = pc
      /\ y.broken = z.broken /\ y.trades = z.trades /\ y.inserted = z.inserted
      /\ y.pending = z.pending
  BY <1>2 DEF SessionFields, SameWork
<1>4. SessionTyped(s, y) BY <1>1, <1>3 DEF SessionTyped, SameWork
<1>5. AtRow(s, y) BY <1>3 DEF AtRow, SameWork
<1>6. KeysApart(s, y, rec) /\ Counted(y) /\ TradesHaveStock(y, st)
  BY <1>3 DEF WorkInv, KeysApart, Counted, TradesHaveStock, SameWork
<1>7. QED BY <1>4, <1>5, <1>6 DEF SessionInv, WorkInv

\* A row of the session fails in what its transaction has become.
LEMMA FailRowStep ==
    ASSUME IInv, NEW s \in Sessions,
           session[s].pc \in {"select", "create", "flush", "record"},
           NEW z, WorkInv(s, z, stocks, recorded), SameWork(session[s], z),
           FailRow(s, z), UNCHANGED <<stocks, recorded, tab>>
    PROVE  IInv'
<1> DEFINE y == [NextRow(z) EXCEPT !.failed = @ \cup {Head(z.rows)}]
<1>1. /\ s \in Tabs /\ session[s].import \in 1..MaxImports[s]
      /\ session[s].rows # <<>>
  BY OpenSession
<1>2. SessionInv(s, y, stocks, recorded) BY <1>1, RowFailed DEF SameWork
<1>3. session' = [session EXCEPT ![s] = y] BY DEF FailRow, Row, SameWork
<1> HIDE DEF y
<1>4. QED BY <1>2, <1>3, SessionStep

LEMMA ErrorStep ==
    ASSUME IInv, NEW s \in Sessions, DatabaseError(s), UNCHANGED tab
    PROVE  IInv'
<1>1. session[s].pc \in {"flush", "record"} BY DEF DatabaseError, Working
<1>2. /\ WorkInv(s, Broken(s), stocks, recorded)
      /\ SameWork(session[s], Broken(s))
  BY <1>1, OpenSession, BrokenWork
<1>3. FailRow(s, Broken(s)) /\ UNCHANGED <<stocks, recorded>> BY DEF DatabaseError
<1>4. QED BY <1>1, <1>2, <1>3, FailRowStep

LEMMA SelectStep ==
    ASSUME IInv, NEW s \in Sessions, SelectStock(s), UNCHANGED tab
    PROVE  IInv'
<1> DEFINE x == session[s]
           pc == IF FindsStock(s, Row(s).symbol) THEN "record" ELSE "create"
<1>1. x.pc = "select" /\ UNCHANGED <<stocks, recorded>>
  BY DEF SelectStock, Working
<1>2. /\ s \in Tabs /\ x.import \in 1..MaxImports[s] /\ x.rows # <<>>
      /\ WorkInv(s, x, stocks, recorded)
  BY <1>1, OpenSession
<1>3. CASE x.broken
  <2>1. FailRow(s, x) BY <1>3 DEF SelectStock
  <2>2. SameWork(x, x) BY DEF SameWork
  <2>3. QED BY <1>1, <1>2, <2>1, <2>2, FailRowStep
<1>4. CASE ~x.broken
  <2> DEFINE y == [x EXCEPT !.pc = pc]
  <2>1. session' = [session EXCEPT ![s] = y] BY <1>4 DEF SelectStock
  <2>2. pc \in {"create", "record"} OBVIOUS
  <2> HIDE DEF pc
  <2>3. SessionInv(s, y, stocks, recorded) BY <1>2, <1>4, <2>2, Moved
  <2> HIDE DEF y
  <2>4. QED BY <1>1, <2>1, <2>3, SessionStep
<1>5. QED BY <1>3, <1>4

LEMMA RefusalStep ==
    ASSUME IInv, NEW s \in Sessions, InvalidSymbol(s) \/ RefuseSale(s),
           UNCHANGED tab
    PROVE  IInv'
<1>1. /\ session[s].pc \in {"create", "record"} /\ FailRow(s, session[s])
      /\ UNCHANGED <<stocks, recorded>>
  BY DEF InvalidSymbol, RefuseSale, Working
<1>2. WorkInv(s, session[s], stocks, recorded) BY <1>1, OpenSession
<1>3. SameWork(session[s], session[s]) BY DEF SameWork
<1>4. QED BY <1>1, <1>2, <1>3, FailRowStep

LEMMA CreateStep ==
    ASSUME IInv, NEW s \in Sessions, CreateStock(s), UNCHANGED tab
    PROVE  IInv'
<1> DEFINE x == session[s]
           symbol == Row(s).symbol
           added(name) == [x EXCEPT !.pending = Append(@, StockOf(name, symbol))]
<1>1. x.pc = "create" /\ UNCHANGED <<stocks, recorded>>
  BY DEF CreateStock, Working
<1>2. /\ s \in Tabs /\ x.import \in 1..MaxImports[s] /\ x.rows # <<>>
      /\ WorkInv(s, x, stocks, recorded) /\ symbol \in Symbols
  BY <1>1, OpenSession
<1>3. ~x.broken
  <2>1. SessionInv(s, x, stocks, recorded) BY DEF IInv
  <2>2. AtRow(s, x) BY <2>1 DEF SessionInv
  <2>3. QED BY <1>1, <2>2 DEF AtRow
<1>4. ASSUME NEW name \in BOOLEAN
      PROVE  /\ WorkInv(s, added(name), stocks, recorded)
             /\ SameWork(x, added(name)) /\ added(name).broken = x.broken
  <2>1. StockOf(name, symbol) \in Stock BY <1>2 DEF StockOf, Stock
  <2>2. QED BY <1>2, <2>1, AddedWork
<1>5. \/ session' = [session EXCEPT ![s] = [added(TRUE) EXCEPT !.pc = "flush"]]
      \/ FailRow(s, added(FALSE))
  BY DEF CreateStock
<1> HIDE DEF added
<1>6. CASE session' = [session EXCEPT ![s] = [added(TRUE) EXCEPT !.pc = "flush"]]
  <2> DEFINE y == [added(TRUE) EXCEPT !.pc = "flush"]
  <2>1. /\ WorkInv(s, added(TRUE), stocks, recorded)
        /\ added(TRUE).import \in 1..MaxImports[s]
        /\ added(TRUE).rows # <<>> /\ ~added(TRUE).broken
    BY <1>2, <1>3, <1>4 DEF SameWork
  <2>2. SessionInv(s, y, stocks, recorded) BY <1>2, <2>1, Moved
  <2>3. session' = [session EXCEPT ![s] = y] BY <1>6
  <2> HIDE DEF y
  <2>4. QED BY <1>1, <2>2, <2>3, SessionStep
<1>7. CASE FailRow(s, added(FALSE))
  BY <1>1, <1>4, <1>7, FailRowStep
<1>8. QED BY <1>5, <1>6, <1>7

LEMMA FlushStep ==
    ASSUME IInv, NEW s \in Sessions, FlushStock(s), UNCHANGED tab
    PROVE  IInv'
<1> DEFINE x == session[s]
<1>1. x.pc = "flush" /\ UNCHANGED <<stocks, recorded>>
  BY DEF FlushStock, Working
<1>2. /\ s \in Tabs /\ x.import \in 1..MaxImports[s] /\ x.rows # <<>>
      /\ WorkInv(s, x, stocks, recorded)
  BY <1>1, OpenSession
<1>3. CASE FlushFails(s)
  <2>1. FailRow(s, Broken(s)) BY <1>3 DEF FlushStock
  <2>2. QED BY <1>1, <1>2, <2>1, BrokenWork, FailRowStep
<1>4. CASE ~FlushFails(s)
  <2> DEFINE y == [Flushed(s) EXCEPT !.pc = "record"]
  <2>1. session' = [session EXCEPT ![s] = y] BY <1>4 DEF FlushStock
  <2>2. AtRow(s, x)
    <3>1. SessionInv(s, x, stocks, recorded) BY DEF IInv
    <3>2. QED BY <3>1 DEF SessionInv
  <2>3. /\ WorkInv(s, Flushed(s), stocks, recorded)
        /\ Flushed(s).import \in 1..MaxImports[s]
        /\ Flushed(s).rows # <<>> /\ ~Flushed(s).broken
    BY <1>1, <1>2, <2>2, FlushedWork DEF SameWork, AtRow
  <2>4. SessionInv(s, y, stocks, recorded) BY <1>2, <2>3, Moved
  <2> HIDE DEF y
  <2>5. QED BY <1>1, <2>1, <2>4, SessionStep
<1>5. QED BY <1>3, <1>4

LEMMA RecordStep ==
    ASSUME IInv, NEW s \in Sessions, RecordRow(s), UNCHANGED tab
    PROVE  IInv'
<1> DEFINE x == session[s]
           z == Flushed(s)
<1>1. x.pc = "record" /\ UNCHANGED <<stocks, recorded>>
  BY DEF RecordRow, Working
<1>2. /\ s \in Tabs /\ x.import \in 1..MaxImports[s] /\ x.rows # <<>>
      /\ WorkInv(s, x, stocks, recorded)
  BY <1>1, OpenSession
<1>3. CASE FlushFails(s) \/ ~FindsStock(s, Row(s).symbol)
  <2>1. FailRow(s, Broken(s)) BY <1>3 DEF RecordRow
  <2>2. QED BY <1>1, <1>2, <2>1, BrokenWork, FailRowStep
<1>4. CASE ~FlushFails(s) /\ FindsStock(s, Row(s).symbol)
  <2> DEFINE r == [row |-> Head(z.rows), session |-> s, import |-> z.import]
             y == [NextRow(z) EXCEPT !.trades = @ \cup {r},
                                     !.created = @ \cup {Head(z.rows)}]
  <2>1. AtRow(s, x)
    <3>1. SessionInv(s, x, stocks, recorded) BY DEF IInv
    <3>2. QED BY <3>1 DEF SessionInv
  <2>2. /\ WorkInv(s, z, stocks, recorded) /\ SameWork(x, z)
        /\ z.broken = x.broken /\ z.inserted = x.inserted \cup ToSet(x.pending)
    BY <1>2, FlushedWork
  <2> HIDE DEF z
  <2>3. z.import \in 1..MaxImports[s] /\ z.rows # <<>> /\ ~z.broken
    BY <1>1, <1>2, <2>1, <2>2 DEF SameWork, AtRow
  <2>4. Head(z.rows) = Row(s) /\ r = RowOf(s)
    BY <2>2 DEF SameWork, Row, RowOf
  <2>5. \/ stocks[Head(z.rows).symbol] # "none"
        \/ \E stock \in z.inserted : stock.symbol = Head(z.rows).symbol
    BY <1>4, <2>2, <2>4 DEF FindsStock
  <2>6. session' = [session EXCEPT ![s] = y]
    BY <1>4, <2>4 DEF RecordRow, z
  <2>7. SessionInv(s, y, stocks, recorded)
    BY <1>2, <2>2, <2>3, <2>5, RowRecorded
  <2> HIDE DEF y
  <2>8. QED BY <1>1, <2>6, <2>7, SessionStep
<1>5. QED BY <1>3, <1>4

-----------------------------------------------------------------------------
(* The end of a request, and the stock routes *)

LEMMA CommitErrorStep ==
    ASSUME IInv, NEW s \in Sessions, CommitError(s), UNCHANGED tab
    PROVE  IInv'
<1>1. session[s].pc # "closed" BY DEF CommitError, Working
<1>2. SessionInv(s, Closed, stocks, recorded) BY ClosedSession, PageAssumption
<1>3. QED BY <1>1, <1>2, SessionStep DEF CommitError

\* A stock that was there stays.
Grown(st, new) ==
    /\ new \in [Symbols -> {"none", "unnamed", "named"}]
    /\ \A symbol \in Symbols : st[symbol] # "none" => new[symbol] # "none"

LEMMA CommittedStocksGrow ==
    ASSUME RecordedInv(stocks, recorded), NEW inserted, inserted \subseteq Stock
    PROVE  /\ Grown(stocks, CommittedStocks(inserted))
           /\ \A stock \in inserted :
                CommittedStocks(inserted)[stock.symbol] # "none"
<1> DEFINE new == CommittedStocks(inserted)
<1>1. \A symbol \in Symbols :
        \/ new[symbol] \in {"named", "unnamed"}
        \/ /\ new[symbol] = stocks[symbol]
           /\ StockOf(TRUE, symbol) \notin inserted
           /\ StockOf(FALSE, symbol) \notin inserted
  BY DEF CommittedStocks
<1>2. DOMAIN new = Symbols /\ new = [symbol \in Symbols |-> new[symbol]]
  BY DEF CommittedStocks
<1>3. stocks \in [Symbols -> {"none", "unnamed", "named"}] BY DEF RecordedInv
<1> HIDE DEF new
<1>4. Grown(stocks, new) BY <1>1, <1>2, <1>3 DEF Grown
<1>5. ASSUME NEW stock \in inserted PROVE new[stock.symbol] # "none"
  <2>1. stock.symbol \in Symbols /\ stock.named \in BOOLEAN BY DEF Stock
  <2>2. stock = StockOf(stock.named, stock.symbol) BY DEF Stock, StockOf
  <2>3. \/ stock = StockOf(TRUE, stock.symbol)
        \/ stock = StockOf(FALSE, stock.symbol)
    BY <2>1, <2>2
  <2>4. QED BY <1>1, <2>1, <2>3
<1>6. QED BY <1>4, <1>5 DEF new

LEMMA TradesKeepStock ==
    ASSUME NEW s \in Tabs, NEW x, SessionTyped(s, x), NEW st, NEW new,
           TradesHaveStock(x, st), Grown(st, new)
    PROVE  TradesHaveStock(x, new)
<1>1. \A r \in x.trades : r.row.symbol \in Symbols
  BY RecordsTyped DEF SessionTyped, Registered, RowTyped
<1>2. QED BY <1>1 DEF TradesHaveStock, Grown

LEMMA CommitStep ==
    ASSUME IInv, NEW s \in Sessions, Commit(s), UNCHANGED tab
    PROVE  IInv'
<1> DEFINE x == session[s]
<1>1. x.pc = "commit" /\ session' = [session EXCEPT ![s] = Closed]
  BY DEF Commit, Working
<1>2. s \in Tabs /\ WorkInv(s, x, stocks, recorded) /\ x.import \in 1..MaxImports[s]
  BY <1>1, OpenSession
<1>3. CASE x.broken \/ FlushFails(s)
  <2>1. UNCHANGED <<stocks, recorded>> BY <1>3 DEF Commit
  <2>2. SessionInv(s, Closed, stocks, recorded) BY <1>2, ClosedSession
  <2>3. QED BY <1>1, <2>1, <2>2, SessionStep
<1>4. CASE ~x.broken /\ ~FlushFails(s)
  <2> DEFINE z == Flushed(s)
  <2>1. /\ stocks' = CommittedStocks(z.inserted)
        /\ recorded' = recorded \cup x.trades
    BY <1>4 DEF Commit
  <2>2. WorkInv(s, z, stocks, recorded) /\ z.trades = x.trades
    BY <1>2, FlushedWork
  <2> HIDE DEF z
  <2>3. SessionTyped(s, z) /\ TradesHaveStock(z, stocks) /\ KeysApart(s, z, recorded)
    BY <2>2 DEF WorkInv
  <2>4. z.inserted \subseteq Stock /\ x.trades \subseteq Registered(s)
    BY <2>2, <2>3 DEF SessionTyped
  <2>5. RecordedInv(stocks, recorded) BY DEF IInv
  <2>6. /\ Grown(stocks, stocks')
        /\ \A stock \in z.inserted : stocks'[stock.symbol] # "none"
    BY <2>1, <2>4, <2>5, CommittedStocksGrow
  <2>7. \A r \in x.trades : r.session = s /\ r.row.symbol \in Symbols
    BY <1>2, <2>4, RecordsTyped DEF Registered, RowTyped
  <2>8. \A r \in recorded : r.row.symbol \in Symbols
    BY <2>5, RecordsTyped DEF RecordedInv, Registered, RowTyped
  <2>9. RecordedInv(stocks', recorded')
    <3>1. \A r \in x.trades : stocks'[r.row.symbol] # "none"
      BY <2>2, <2>3, <2>6, <2>7 DEF TradesHaveStock, Grown
    <3>2. \A r \in recorded' : stocks'[r.row.symbol] # "none"
      BY <2>1, <2>5, <2>6, <2>8, <3>1 DEF RecordedInv, Grown
    <3>3. \A r \in recorded' : \E u \in Tabs : r \in Registered(u)
      BY <1>2, <2>1, <2>4, <2>5 DEF RecordedInv
    <3>4. \A a, b \in x.trades : Key(a.row) = Key(b.row) => a = b
      BY <2>2, <2>3 DEF KeysApart
    <3>5. \A a \in x.trades : \A b \in recorded :
            b.session = s => Key(a.row) # Key(b.row)
      BY <2>2, <2>3 DEF KeysApart, Of
    <3>6. \A a, b \in recorded' :
            a.session = b.session /\ Key(a.row) = Key(b.row) => a = b
      BY <2>1, <2>5, <2>7, <3>4, <3>5 DEF RecordedInv
    <3>7. QED BY <2>6, <3>2, <3>3, <3>6 DEF RecordedInv, Grown
  <2>10. \A u \in Tabs \ {s} : Of(u, recorded') = Of(u, recorded)
    BY <2>1, <2>7 DEF Of
  <2>11. /\ session' = [u \in Sessions |-> session'[u]] /\ session'[s] = Closed
         /\ \A u \in Sessions \ {s} : session'[u] = session[u]
    BY <1>1 DEF IInv
  <2>12. ASSUME NEW u \in Sessions
         PROVE  SessionInv(u, session'[u], stocks', recorded')
    <3>1. CASE u = s BY <1>2, <2>11, <3>1, ClosedSession
    <3>2. CASE u # s
      <4>1. SessionInv(u, session[u], stocks, recorded) /\ u \in Tabs
        BY PageAssumption DEF IInv
      <4>2. KeysApart(u, session[u], recorded')
        BY <2>10, <3>2, <4>1 DEF SessionInv, WorkInv, KeysApart
      <4>3. TradesHaveStock(session[u], stocks')
        BY <2>6, <4>1, TradesKeepStock DEF SessionInv, WorkInv
      <4>4. QED BY <2>11, <3>2, <4>1, <4>2, <4>3 DEF SessionInv, WorkInv
    <3>3. QED BY <3>1, <3>2
  <2>13. ASSUME NEW t \in Tabs PROVE TabInv(t, tab'[t], session'[t], recorded')
    <3>1. TabInv(t, tab[t], session[t], recorded) /\ t \in Sessions
      BY PageAssumption DEF IInv
    <3>2. CASE t = s
      <4>1. tab[t].step # "preview" BY <1>1, <3>2, OpenSession
      <4>2. QED BY <3>1, <4>1 DEF TabInv
    <3>3. CASE t # s BY <2>10, <2>11, <3>1, <3>3 DEF TabInv
    <3>4. QED BY <3>2, <3>3
  <2>14. tab' = [t \in Tabs |-> tab'[t]] BY DEF IInv
  <2>15. QED BY <2>9, <2>11, <2>12, <2>13, <2>14 DEF IInv
<1>5. QED BY <1>3, <1>4

\* A stock is added or named: nothing that is there is lost.
LEMMA RegisterStep ==
    ASSUME IInv, NEW symbol \in Symbols,
           RegisterStock(symbol) \/ RefreshStock(symbol), UNCHANGED tab
    PROVE  IInv'
<1>1. /\ stocks' = [stocks EXCEPT ![symbol] = "named"]
      /\ UNCHANGED <<recorded, session>>
  BY DEF RegisterStock, RefreshStock
<1>2. RecordedInv(stocks, recorded) BY DEF IInv
<1>3. Grown(stocks, stocks') BY <1>1, <1>2 DEF RecordedInv, Grown
<1>4. \A r \in recorded : r.row.symbol \in Symbols
  BY <1>2, RecordsTyped DEF RecordedInv, Registered, RowTyped
<1>5. RecordedInv(stocks', recorded')
  BY <1>1, <1>2, <1>3, <1>4 DEF RecordedInv, Grown
<1>6. ASSUME NEW s \in Sessions
      PROVE  SessionInv(s, session'[s], stocks', recorded')
  <2>1. SessionInv(s, session[s], stocks, recorded) /\ s \in Tabs
    BY PageAssumption DEF IInv
  <2>2. TradesHaveStock(session[s], stocks')
    BY <1>3, <2>1, TradesKeepStock DEF SessionInv, WorkInv
  <2>3. QED BY <1>1, <2>1, <2>2 DEF SessionInv, WorkInv
<1>7. \A t \in Tabs : TabInv(t, tab'[t], session'[t], recorded')
  BY <1>1 DEF IInv
<1>8. QED BY <1>1, <1>5, <1>6, <1>7 DEF IInv

\* A stock that no record refers to, committed or not, is deleted.
LEMMA DeleteStep ==
    ASSUME IInv, NEW symbol \in Symbols, DeleteStock(symbol), UNCHANGED tab
    PROVE  IInv'
<1>1. /\ stocks' = [stocks EXCEPT ![symbol] = "none"]
      /\ UNCHANGED <<recorded, session>>
      /\ \A r \in recorded : r.row.symbol # symbol
      /\ \A s \in Sessions : \A r \in session[s].trades : r.row.symbol # symbol
  BY DEF DeleteStock, References
<1>2. RecordedInv(stocks, recorded) BY DEF IInv
<1>3. \A other : other # symbol => stocks'[other] = stocks[other]
  BY <1>1, <1>2 DEF RecordedInv
<1>4. RecordedInv(stocks', recorded')
  BY <1>1, <1>2, <1>3 DEF RecordedInv
<1>5. ASSUME NEW s \in Sessions
      PROVE  SessionInv(s, session'[s], stocks', recorded')
  <2>1. SessionInv(s, session[s], stocks, recorded) BY DEF IInv
  <2>2. TradesHaveStock(session[s], stocks')
    BY <1>1, <1>3, <2>1 DEF SessionInv, WorkInv, TradesHaveStock
  <2>3. QED BY <1>1, <2>1, <2>2 DEF SessionInv, WorkInv
<1>6. \A t \in Tabs : TabInv(t, tab'[t], session'[t], recorded')
  BY <1>1 DEF IInv
<1>7. QED BY <1>1, <1>4, <1>5, <1>6 DEF IInv

-----------------------------------------------------------------------------
(* The page *)

\* A step of the page that leaves every session alone.
LEMMA PageStep ==
    ASSUME IInv, NEW t \in Tabs, NEW p, TabInv(t, p, session[t], recorded),
           tab' = [tab EXCEPT ![t] = p], UNCHANGED masterVars
    PROVE  IInv'
<1>1. UNCHANGED <<stocks, recorded, session>> BY DEF masterVars
<1>2. /\ tab' = [u \in Tabs |-> tab'[u]] /\ tab'[t] = p
      /\ \A u \in Tabs \ {t} : tab'[u] = tab[u]
  BY DEF IInv
<1>3. \A u \in Tabs : TabInv(u, tab'[u], session'[u], recorded')
  BY <1>1, <1>2 DEF IInv
<1>4. \A s \in Sessions : SessionInv(s, session'[s], stocks', recorded')
  BY <1>1 DEF IInv
<1>5. RecordedInv(stocks', recorded') BY <1>1 DEF IInv
<1>6. QED BY <1>1, <1>2, <1>3, <1>4, <1>5 DEF IInv

\* What a tab has registered is among the records the preview leaves out.
LEMMA RegisteredOfTab ==
    ASSUME RecordedInv(stocks, recorded), NEW t \in Tabs
    PROVE  RowsOf(Of(t, recorded)) \subseteq RegisteredRecords(t)
<1>1. ASSUME NEW r \in Of(t, recorded)
      PROVE  r \in recorded /\ (r.row.kind = "dividend" <=> t = "dividends")
  <2>1. r \in recorded /\ r.session = t BY DEF Of
  <2>2. PICK s \in Tabs : r \in Registered(s) BY <2>1 DEF RecordedInv
  <2>3. s = t /\ r.row \in Records(t) BY <2>1, <2>2 DEF Registered
  <2>4. r.row.kind \in Kinds(t) BY <2>3, RecordsTyped DEF RowTyped
  <2>5. QED BY <2>1, <2>4, PageAssumption DEF Kinds
<1>2. QED BY <1>1 DEF RowsOf, RegisteredRecords

LEMMA PreviewStep ==
    ASSUME IInv, NEW t \in Tabs, Preview(t)
    PROVE  IInv'
<1> DEFINE p == tab[t]
<1>1. /\ session[t].pc = "closed" /\ p.imports < MaxImports[t]
      /\ UNCHANGED masterVars
  BY DEF Preview
<1>2. PICK period \in Periods, rates \in RateTables :
        \E order \in detect_new(ParsedFile(t, Export(t, period), rates).rows,
                                RegisteredRecords(t)) :
            tab' = [tab EXCEPT ![t].step = "preview", ![t].preview = order,
                               ![t].imports = @ + 1]
  BY DEF Preview
<1>3. PICK order \in detect_new(ParsedFile(t, Export(t, period), rates).rows,
                                RegisteredRecords(t)) :
        tab' = [tab EXCEPT ![t].step = "preview", ![t].preview = order,
                           ![t].imports = @ + 1]
  BY <1>2
<1>4. /\ order \in Seq(Records(t)) /\ Distinct(order)
      /\ Opposed(order, RegisteredRecords(t))
  BY PreviewIsNew
<1>5. TabInv(t, p, session[t], recorded) /\ RecordedInv(stocks, recorded)
  BY DEF IInv
<1>6. Opposed(order, RowsOf(Of(t, recorded)))
  BY <1>4, <1>5, RegisteredOfTab DEF Opposed
<1> DEFINE q == [p EXCEPT !.step = "preview", !.preview = order,
                          !.imports = p.imports + 1]
<1>7. tab' = [tab EXCEPT ![t] = q]
  <2>1. tab = [u \in Tabs |-> tab[u]] BY DEF IInv
  <2>2. QED BY <1>3, <2>1
<1>8. MaxImports[t] \in Nat BY PageAssumption
<1>9. /\ DOMAIN q = TabFields /\ q.step = "preview" /\ q.preview = order
      /\ q.imports = p.imports + 1
  BY <1>5 DEF TabInv, TabFields
<1> HIDE DEF q
<1>10. TabInv(t, q, session[t], recorded)
  BY <1>1, <1>4, <1>5, <1>6, <1>8, <1>9 DEF TabInv
<1>11. QED BY <1>1, <1>7, <1>10, PageStep

LEMMA ResetStep ==
    ASSUME IInv, NEW t \in Tabs, Reset(t)
    PROVE  IInv'
<1> DEFINE q == [EmptyTab EXCEPT !.imports = tab[t].imports]
<1>1. tab' = [tab EXCEPT ![t] = q] /\ UNCHANGED masterVars BY DEF Reset
<1>2. /\ DOMAIN q = TabFields /\ q.step = "upload" /\ q.preview = <<>>
      /\ q.imports = tab[t].imports
  BY DEF EmptyTab, TabFields
<1> HIDE DEF q
<1>3. TabInv(t, tab[t], session[t], recorded) BY DEF IInv
<1>4. TabInv(t, q, session[t], recorded) BY <1>2, <1>3, EmptySeq DEF TabInv
<1>5. QED BY <1>1, <1>4, PageStep

\* The request is opened or answered: its session and its tab change together.
LEMMA TabStep ==
    ASSUME IInv, NEW t \in Tabs, NEW y, NEW p,
           SessionInv(t, y, stocks, recorded), TabInv(t, p, y, recorded),
           session' = [session EXCEPT ![t] = y], tab' = [tab EXCEPT ![t] = p],
           UNCHANGED <<stocks, recorded>>
    PROVE  IInv'
<1>1. t \in Sessions BY PageAssumption
<1>2. /\ session' = [u \in Sessions |-> session'[u]] /\ session'[t] = y
      /\ \A u \in Sessions \ {t} : session'[u] = session[u]
  BY <1>1 DEF IInv
<1>3. /\ tab' = [u \in Tabs |-> tab'[u]] /\ tab'[t] = p
      /\ \A u \in Tabs \ {t} : tab'[u] = tab[u]
  BY DEF IInv
<1>4. \A u \in Sessions : SessionInv(u, session'[u], stocks', recorded')
  BY <1>2 DEF IInv
<1>5. \A u \in Tabs : TabInv(u, tab'[u], session'[u], recorded')
  BY <1>2, <1>3, PageAssumption DEF IInv
<1>6. RecordedInv(stocks', recorded') BY DEF IInv
<1>7. QED BY <1>2, <1>3, <1>4, <1>5, <1>6 DEF IInv

LEMMA ConfirmStep ==
    ASSUME IInv, NEW t \in Tabs, Confirm(t)
    PROVE  IInv'
<1> DEFINE p == tab[t]
           y == [session[t] EXCEPT !.pc = "select", !.rows = p.preview,
                                   !.import = p.imports]
           q == [p EXCEPT !.step = "confirming", !.preview = <<>>]
<1>1. /\ p.step = "preview" /\ p.preview # <<>>
      /\ UNCHANGED <<stocks, recorded>>
  BY DEF Confirm
<1>2. t \in Sessions BY PageAssumption
<1>3. TabInv(t, p, session[t], recorded) BY DEF IInv
<1>4. SessionInv(t, session[t], stocks, recorded) BY <1>2 DEF IInv
<1>5. session[t] = Closed BY <1>1, <1>3, <1>4 DEF TabInv, SessionInv, AtRow
<1>6. session' = [session EXCEPT ![t] = y]
  <2>1. session = [u \in Sessions |-> session[u]] BY DEF IInv
  <2>2. session' = [session EXCEPT ![t].pc = "select", ![t].rows = p.preview,
                                   ![t].import = p.imports]
    BY DEF Confirm
  <2>3. QED BY <1>2, <2>1, <2>2
<1>7. tab' = [tab EXCEPT ![t] = q]
  <2>1. tab = [u \in Tabs |-> tab[u]] BY DEF IInv
  <2>2. tab' = [tab EXCEPT ![t].step = "confirming", ![t].preview = <<>>]
    BY DEF Confirm
  <2>3. QED BY <2>1, <2>2
<1>8. /\ DOMAIN q = TabFields /\ q.step = "confirming" /\ q.preview = <<>>
      /\ q.imports = p.imports
  BY <1>3 DEF TabInv, TabFields
<1>9. /\ DOMAIN y = SessionFields /\ y.pc = "select" /\ y.rows = p.preview
      /\ y.import = p.imports /\ y.pending = <<>> /\ y.inserted = {}
      /\ y.trades = {} /\ y.created = {} /\ y.failed = {} /\ y.broken = FALSE
  BY <1>5 DEF Closed, SessionFields
<1> HIDE DEF y, q
<1>10. TabInv(t, q, y, recorded) BY <1>3, <1>8, EmptySeq DEF TabInv
<1>11. SessionInv(t, y, stocks, recorded)
  <2>1. MaxImports[t] \in Nat BY PageAssumption
  <2>2. SessionTyped(t, y) BY <1>3, <1>9, EmptySeq DEF SessionTyped, TabInv
  <2>3. AtRow(t, y) BY <1>1, <1>3, <1>9, <2>1 DEF AtRow, TabInv
  <2>4. KeysApart(t, y, recorded)
    BY <1>1, <1>3, <1>9 DEF TabInv, KeysApart, Opposed
  <2>5. Counted(y) BY <1>9 DEF Counted, RowsOf
  <2>6. TradesHaveStock(y, stocks) BY <1>9 DEF TradesHaveStock
  <2>7. QED BY <2>2, <2>3, <2>4, <2>5, <2>6 DEF SessionInv, WorkInv
<1>12. QED BY <1>1, <1>6, <1>7, <1>10, <1>11, TabStep

LEMMA AnswerStep ==
    ASSUME IInv, NEW t \in Tabs, Answer(t)
    PROVE  IInv'
<1> DEFINE x == session[t]
           y == [x EXCEPT !.pc = "commit"]
           q == [tab[t] EXCEPT !.step = "complete", !.created = x.created,
                               !.failed = x.failed]
<1>1. x.pc = "reply" /\ UNCHANGED <<stocks, recorded>>
  BY DEF Answer, Reply, Working
<1>2. t \in Sessions BY PageAssumption
<1>3. WorkInv(t, x, stocks, recorded) /\ x.import \in 1..MaxImports[t]
  BY <1>1, <1>2, OpenSession
<1>4. SessionInv(t, y, stocks, recorded) BY <1>3, Moved
<1>5. TabInv(t, tab[t], x, recorded) BY DEF IInv
<1>6. /\ DOMAIN q = TabFields /\ q.step = "complete"
      /\ q.preview = tab[t].preview /\ q.imports = tab[t].imports
  BY <1>5 DEF TabInv, TabFields
<1>7. session' = [session EXCEPT ![t] = y]
  <2>1. session = [u \in Sessions |-> session[u]] BY DEF IInv
  <2>2. session' = [session EXCEPT ![t].pc = "commit"] BY DEF Answer, Reply
  <2>3. QED BY <1>2, <2>1, <2>2
<1>8. tab' = [tab EXCEPT ![t] = q]
  <2>1. tab = [u \in Tabs |-> tab[u]] BY DEF IInv
  <2>2. tab' = [tab EXCEPT ![t].step = "complete", ![t].created = x.created,
                           ![t].failed = x.failed]
    BY DEF Answer
  <2>3. QED BY <2>1, <2>2
<1> HIDE DEF y, q
<1>9. TabInv(t, q, y, recorded) BY <1>5, <1>6 DEF TabInv
<1>10. QED BY <1>1, <1>4, <1>7, <1>8, <1>9, TabStep

-----------------------------------------------------------------------------
(* The theorems *)

LEMMA StatementStep ==
    ASSUME IInv, NEW s \in Sessions, Statement(s)
    PROVE  IInv'
<1>1. UNCHANGED tab BY DEF Statement
<1>2. CASE SelectStock(s) BY <1>1, <1>2, SelectStep
<1>3. CASE InvalidSymbol(s) BY <1>1, <1>3, RefusalStep
<1>4. CASE CreateStock(s) BY <1>1, <1>4, CreateStep
<1>5. CASE FlushStock(s) BY <1>1, <1>5, FlushStep
<1>6. CASE RefuseSale(s) BY <1>1, <1>6, RefusalStep
<1>7. CASE RecordRow(s) BY <1>1, <1>7, RecordStep
<1>8. CASE BreakDeadlock(s)
  <2>1. DatabaseError(s) \/ CommitError(s) BY <1>8 DEF BreakDeadlock
  <2>2. QED BY <1>1, <2>1, ErrorStep, CommitErrorStep
<1>9. CASE Commit(s) BY <1>1, <1>9, CommitStep
<1>10. QED
  BY <1>2, <1>3, <1>4, <1>5, <1>6, <1>7, <1>8, <1>9, Zenon DEF Statement

LEMMA InvariantStep == IInv /\ [Next]_vars => IInv'
<1> SUFFICES ASSUME IInv, [Next]_vars PROVE IInv' OBVIOUS
<1>1. CASE UNCHANGED vars
  BY <1>1 DEF vars, IInv
<1>2. ASSUME NEW t \in Tabs, Preview(t) \/ Confirm(t) \/ Answer(t) \/ Reset(t)
      PROVE  IInv'
  BY <1>2, PreviewStep, ConfirmStep, AnswerStep, ResetStep
<1>3. ASSUME NEW s \in Sessions, DatabaseError(s) \/ CommitError(s), UNCHANGED tab
      PROVE  IInv'
  BY <1>3, ErrorStep, CommitErrorStep
<1>4. ASSUME NEW symbol \in Symbols, UNCHANGED tab,
             \/ RegisterStock(symbol) \/ RefreshStock(symbol)
             \/ DeleteStock(symbol)
      PROVE  IInv'
  BY <1>4, RegisterStep, DeleteStep
<1>5. QED BY <1>1, <1>2, <1>3, <1>4, StatementStep DEF Next

LEMMA Invariance == Spec => []IInv
<1>1. QED BY InitInvariant, InvariantStep, PTL DEF Spec

\* The types hold: in particular a registered row has a known symbol, kind and
\* account, and belongs to an import the page counted.
THEOREM TypesHold == Spec => []TypeOK
<1>1. IInv => TypeOK
  <2> SUFFICES ASSUME IInv PROVE TypeOK OBVIOUS
  <2>1. RecordedInv(stocks, recorded) BY DEF IInv
  <2>2. ASSUME NEW r \in recorded
        PROVE  /\ r.session \in Tabs /\ r.import \in 1..MaxImports[r.session]
               /\ r.row.symbol \in Symbols
               /\ r.session = "trades" => r.row.account \in AccountTypes
               /\ r.row.kind \in IF r.session = "trades" THEN {"buy", "sell"}
                                 ELSE {"dividend"}
    <3>1. PICK s \in Tabs : r \in Registered(s) BY <2>1 DEF RecordedInv
    <3>2. /\ r.session = s /\ r.import \in 1..MaxImports[s]
          /\ r.row \in Records(s)
      BY <3>1 DEF Registered
    <3>3. RowTyped(s, r.row) BY <3>2, RecordsTyped
    <3>4. QED BY <3>2, <3>3 DEF RowTyped, Kinds
  <2>3. \A s \in Sessions : SessionTyped(s, session[s])
    BY DEF IInv, SessionInv, WorkInv
  <2>4. \A t \in Tabs : TabInv(t, tab[t], session[t], recorded) BY DEF IInv
  <2>5. QED BY <2>1, <2>2, <2>3, <2>4 DEF TypeOK, RecordedInv, SessionTyped, TabInv
<1>2. QED BY <1>1, Invariance, PTL

\* One execution of the broker is registered once, for every sequence of files,
\* with any overlap, under any exchange rates at the two previews, and however
\* the confirmations ended.
THEOREM ImportsOnce == Spec => []ImportedOnce
<1>1. IInv => ImportedOnce
  <2> SUFFICES ASSUME IInv, NEW a \in recorded, NEW b \in recorded,
                      SameExecution(a.row, b.row)
               PROVE  a = b
    BY DEF ImportedOnce
  <2>1. RecordedInv(stocks, recorded) BY DEF IInv
  <2>2. PICK s \in Tabs : a \in Registered(s) BY <2>1 DEF RecordedInv
  <2>3. PICK t \in Tabs : b \in Registered(t) BY <2>1 DEF RecordedInv
  <2>4. /\ a.session = s /\ a.row \in Records(s)
        /\ b.session = t /\ b.row \in Records(t)
    BY <2>2, <2>3 DEF Registered
  <2>5. s = t /\ Key(a.row) = Key(b.row) BY <2>4, SameExecutionSameKey
  <2>6. QED BY <2>1, <2>4, <2>5 DEF RecordedInv
<1>2. QED BY <1>1, Invariance, PTL

\* No registered record loses its stock, whatever the stock routes and the
\* other tab do between the statements of its import.
THEOREM RecordsKeepStock == Spec => []RecordsHaveStock
<1>1. IInv => RecordsHaveStock
  BY DEF IInv, RecordedInv, RecordsHaveStock
<1>2. QED BY <1>1, Invariance, PTL

\* Only the commit of a request registers records: those it counted as created,
\* all of them, and none it counted as failed.
THEOREM ImportsAreWhole == Spec => AllOrNothing
<1> DEFINE Whole ==
      recorded' # recorded =>
        \E t \in Tabs :
            LET new == {r.row : r \in recorded' \ recorded}
            IN  /\ Working(t, "commit")
                /\ new = session[t].created
                /\ new \cap session[t].failed = {}
<1>1. IInv /\ [Next]_vars => [Whole]_vars
  <2> SUFFICES ASSUME IInv, Next, recorded' # recorded
               PROVE  \E t \in Tabs :
                        LET new == {r.row : r \in recorded' \ recorded}
                        IN  /\ Working(t, "commit")
                            /\ new = session[t].created
                            /\ new \cap session[t].failed = {}
    OBVIOUS
  <2>1. PICK s \in Sessions : Commit(s)
    <3>1. \A t \in Tabs : ~(Preview(t) \/ Confirm(t) \/ Answer(t) \/ Reset(t))
      BY DEF Preview, Confirm, Answer, Reply, Reset, masterVars
    <3>2. \A s \in Sessions : ~(DatabaseError(s) \/ CommitError(s))
      BY DEF DatabaseError, CommitError
    <3>3. \A symbol \in Symbols : ~(\/ RegisterStock(symbol) \/ RefreshStock(symbol)
                                    \/ DeleteStock(symbol))
      BY DEF RegisterStock, RefreshStock, DeleteStock
    <3>4. \E s \in Sessions : Statement(s) BY <3>1, <3>2, <3>3 DEF Next
    <3>5. \A s \in Sessions : Statement(s) => Commit(s)
      BY <3>2 DEF Statement, SelectStock, InvalidSymbol, CreateStock, FlushStock,
                  RefuseSale, RecordRow, BreakDeadlock
    <3>6. QED BY <3>4, <3>5
  <2>2. /\ session[s].pc = "commit" /\ ~session[s].broken
        /\ recorded' = recorded \cup session[s].trades
    BY <2>1 DEF Commit, Working
  <2>3. s \in Tabs /\ WorkInv(s, session[s], stocks, recorded)
    BY <2>2, OpenSession
  <2>4. \A r \in session[s].trades : r \notin recorded
    <3>1. session[s].trades \subseteq Registered(s)
      BY <2>3 DEF WorkInv, SessionTyped
    <3>2. \A r \in session[s].trades : r.session = s
      BY <3>1 DEF Registered
    <3>3. QED BY <2>3, <3>2 DEF WorkInv, KeysApart, Of
  <2>5. recorded' \ recorded = session[s].trades BY <2>2, <2>4
  <2>6. {r.row : r \in recorded' \ recorded} = session[s].created
    BY <2>2, <2>3, <2>5 DEF WorkInv, Counted, RowsOf
  <2>7. session[s].created \cap session[s].failed = {}
    BY <2>3 DEF WorkInv, Counted
  <2>8. QED BY <2>2, <2>3, <2>6, <2>7 DEF Working
<1>2. QED BY <1>1, Invariance, PTL DEF Spec, AllOrNothing
=============================================================================
