----------------------------- MODULE CsvImport -----------------------------
(***************************************************************************)
(* The import page and its routes: a file of trades (routes/transactions)  *)
(* or of dividends (routes/dividends) is uploaded, the records that are    *)
(* not yet registered are shown, and what was shown is registered.         *)
(* Nothing is kept between preview and confirmation but the page itself.   *)
(***************************************************************************)
EXTENDS StockMaster

CONSTANTS
    Tabs,           \* the two halves of the page, "trades" and "dividends"
    History,        \* [Tabs -> line -> row], what the broker would export
    RateTables,     \* answers of the daily rate service; failed: no rates
    Faulty,         \* sessions on which the database may fail
    Periods,        \* first and last days of the files the user exports
    MaxImports      \* [Tabs -> Nat], bound on the confirmations of a tab

ASSUME PageAssumption ==
    /\ Tabs \subseteq {"trades", "dividends"}
    /\ Sessions = Tabs /\ Faulty \subseteq Sessions
    /\ \A t \in Tabs : MaxImports[t] \in Nat

\* What the broker writes: finitely many numbered lines, a known custody, and
\* in the code column a symbol or nothing.
ASSUME FileAssumption ==
    \A t \in Tabs :
        /\ IsFiniteSet(DOMAIN History[t]) /\ DOMAIN History[t] \subseteq Nat
        /\ t = "trades" => \A i \in DOMAIN History[t] :
            /\ History[t][i].custody \in AccountTypes \cup {"NISA"}
            /\ History[t][i].code \in Symbols \cup {NoSymbol}


VARIABLE tab

vars == <<stocks, recorded, session, tab>>

EmptyTab ==
    [step |-> "upload", preview |-> <<>>, imports |-> 0,
     created |-> {}, failed |-> {}]

Init ==
    /\ stocks = [symbol \in Symbols |-> "none"]
    /\ recorded = {}
    /\ session = [s \in Sessions |-> Closed]
    /\ tab = [t \in Tabs |-> EmptyTab]

\* The export of a period.
Export(t, period) ==
    Restrict(History[t], {i \in DOMAIN History[t] :
        period[1] <= History[t][i].day /\ History[t][i].day <= period[2]})

ParsedFile(t, file, rates) ==
    IF t = "trades" THEN apply_usdjpy_rates(parse_csv_content(file), rates)
    ELSE parse_dividend_csv_content(file)

RegisteredRecords(t) ==
    {r.row : r \in {r \in recorded :
        (r.row.kind = "dividend") <=> (t = "dividends")}}

\* preview_csv_import and preview_dividend_csv_import.  A new file is uploaded
\* when the previous confirmation is over.
Preview(t) ==
    /\ tab[t].step = "upload"
    /\ session[t].pc = "closed"
    /\ tab[t].imports < MaxImports[t]
    /\ \E period \in Periods, rates \in RateTables :
        LET parsed == ParsedFile(t, Export(t, period), rates)
        IN  \E order \in detect_new(parsed.rows, RegisteredRecords(t)) :
                tab' = [tab EXCEPT ![t].step = "preview", ![t].preview = order,
                                   ![t].imports = @ + 1]
    /\ UNCHANGED masterVars

Reset(t) ==
    /\ \/ tab[t].step = "complete"
       \/ (tab[t].step = "preview" /\ tab[t].preview = <<>>)
    /\ tab' = [tab EXCEPT ![t] = [EmptyTab EXCEPT !.imports = tab[t].imports]]
    /\ UNCHANGED masterVars

\* confirm_csv_import and confirm_dividend_csv_import.
Confirm(t) ==
    /\ tab[t].step = "preview" /\ tab[t].preview # <<>>
    /\ session' = [session EXCEPT ![t].pc = "select",
                                  ![t].rows = tab[t].preview,
                                  ![t].import = tab[t].imports]
    /\ tab' = [tab EXCEPT ![t].step = "confirming", ![t].preview = <<>>]
    /\ UNCHANGED <<stocks, recorded>>

Answer(t) ==
    /\ Reply(t)
    /\ tab' = [tab EXCEPT ![t].step = "complete",
                          ![t].created = session[t].created,
                          ![t].failed = session[t].failed]

Statement(s) ==
    /\ \/ SelectStock(s) \/ InvalidSymbol(s) \/ CreateStock(s) \/ FlushStock(s)
       \/ RefuseSale(s) \/ RecordRow(s) \/ BreakDeadlock(s) \/ Commit(s)
    /\ UNCHANGED tab

Next ==
    \/ \E t \in Tabs : Preview(t) \/ Confirm(t) \/ Answer(t) \/ Reset(t)
    \/ \E s \in Sessions :
        \/ Statement(s)
        \/ (s \in Faulty /\ (DatabaseError(s) \/ CommitError(s)) /\ UNCHANGED tab)
    \/ \E symbol \in Symbols :
        /\ \/ RegisterStock(symbol) \/ RefreshStock(symbol)
           \/ DeleteStock(symbol)
        /\ UNCHANGED tab

Spec == Init /\ [][Next]_vars

Fairness ==
    /\ \A s \in Sessions : WF_vars(Statement(s))
    /\ \A t \in Tabs : WF_vars(Answer(t))

FairSpec == Spec /\ Fairness

-----------------------------------------------------------------------------
(* Properties *)

TypeOK ==
    /\ stocks \in [Symbols -> {"none", "unnamed", "named"}]
    /\ \A r \in recorded :
        /\ r.session \in Tabs /\ r.import \in 1..MaxImports[r.session]
        /\ r.row.symbol \in Symbols
        /\ r.session = "trades" => r.row.account \in AccountTypes
        /\ r.row.kind \in IF r.session = "trades" THEN {"buy", "sell"}
                          ELSE {"dividend"}
    /\ \A s \in Sessions :
        session[s].pc \in {"closed", "select", "create", "flush", "record",
                           "reply", "commit"}
    /\ \A t \in Tabs :
        tab[t].step \in {"upload", "preview", "confirming", "complete"}

SameExecution(a, b) ==
    IF a.kind = b.kind /\ a.kind # "dividend" /\ a.usd # NoPrice
    THEN [a EXCEPT !.price = 0] = [b EXCEPT !.price = 0]
    ELSE a = b

\* Files whose periods overlap, imported one after the other, register nothing
\* twice: not when confirmations failed in part or were lost, and not when the
\* exchange rates known at the two previews differ (README.md:17).
ImportedOnce ==
    \A a, b \in recorded : SameExecution(a.row, b.row) => a = b

\* A confirmation registers all the rows it counted as created or none, and no
\* row it counted as failed, whatever failed on the way and whatever the other
\* tab and the stock routes did meanwhile (ADR 0001: a request is one
\* transaction).
AllOrNothing ==
    [][recorded' # recorded =>
        \E t \in Tabs :
            LET new == {r.row : r \in recorded' \ recorded}
            IN  /\ Working(t, "commit")
                /\ new = session[t].created
                /\ new \cap session[t].failed = {}]_vars

\* No registered trade or dividend loses its stock to a deletion that runs
\* between the statements of its import.
RecordsHaveStock == \A r \in recorded : stocks[r.row.symbol] # "none"

\* Every request ends: two imports that register the same new stocks in a
\* different order do not block each other for ever.
SessionsEnd ==
    \A s \in Sessions : session[s].pc # "closed" ~> session[s].pc = "closed"

\* What the page shows as registered ("registered successfully") is in the
\* database once the request is over.
CreatedAreRecorded ==
    \A t \in Tabs :
        tab[t].step = "complete" /\ session[t].pc = "closed" =>
            tab[t].created \subseteq {r.row : r \in recorded}
=============================================================================
