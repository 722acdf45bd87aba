------------------------- MODULE PriceHistoryProofs -------------------------
(***************************************************************************)
(* What the store of prices promises its readers, for every set of users   *)
(* and symbols and every choice of the windows that meets DaysAssumption.  *)
(***************************************************************************)
EXTENDS PriceHistory, FiniteSetTheorems, TLAPS

Dated(rows) == \A r \in rows : r.date \in Int

\* The writes of a transaction, one set of bars per symbol.
DatedWrites(fetched) == \A s \in Symbols : Dated(fetched[s])

\* A session with the attributes of another, but for pc, and other writes.
ShapedSession(t) ==
    t.pc # "idle" =>
        /\ {"pc", "fetched"} \subseteq DOMAIN t
        /\ t.fetched = [s \in Symbols |-> t.fetched[s]]
        /\ DatedWrites(t.fetched)

DatedInv ==
    /\ today \in Int /\ newest \in Int
    /\ prices = [s \in Symbols |-> prices[s]] /\ DatedWrites(prices)
    /\ ShapedSession(session) /\ ShapedSession(request)

LEMMA BarsAreDated ==
    ASSUME NEW from \in Int, NEW to \in Int, NEW b
    PROVE  Dated(Bars(from, to, b))
BY DEF Dated, Bars

LEMMA WrittenIsDated ==
    ASSUME DatedInv, NEW fetched, DatedWrites(fetched), NEW pruned, NEW s \in Symbols
    PROVE  Dated(Written(s, fetched, pruned))
BY DEF DatedInv, DatedWrites, Dated, Written, upsert_prices, prune_old_prices

\* What a transaction writes leaves, of every date the weekly ranking may read,
\* a bar: its own or the one that was there.
LEMMA WrittenKeepsReadable ==
    ASSUME DatedInv, NEW fetched, NEW pruned, NEW s \in Symbols
    PROVE  {r.date : r \in get_recent_prices(prices[s], today, WeekDays)}
               \subseteq {r.date : r \in Written(s, fetched, pruned)}
<1> SUFFICES ASSUME NEW r \in prices[s], r.date >= today - WeekDays
             PROVE  \E q \in Written(s, fetched, pruned) : q.date = r.date
    BY DEF get_recent_prices
<1>1. \E q \in upsert_prices(prices[s], fetched[s]) : q.date = r.date
    BY DEF upsert_prices
<1>2. r.date >= today - KeepDays
    BY DaysAssumption DEF DatedInv, DatedWrites, Dated
<1> QED
    BY <1>1, <1>2 DEF Written, prune_old_prices

LEMMA DatedInvInit == Init => DatedInv
<1> SUFFICES ASSUME Init PROVE DatedInv
    OBVIOUS
<1>1. DatedWrites(prices)
    BY BarsAreDated, DaysAssumption, HoldingsAssumption
    DEF Init, DatedWrites, Dated
<1> QED
    BY <1>1, HoldingsAssumption DEF Init, DatedInv, ShapedSession, NoSession

\* The symbols, of which all that matters here is what is fetched for them.
LEMMA FetchedOne ==
    ASSUME NEW t, t.pc # "idle", {"pc", "fetched"} \subseteq DOMAIN t,
           ShapedSession(t), NEW s \in Symbols, NEW bars, Dated(bars)
    PROVE  LET f == [t.fetched EXCEPT ![s] = bars]
           IN  f = [x \in Symbols |-> f[x]] /\ DatedWrites(f)
BY DEF ShapedSession, DatedWrites

LEMMA Rested == ShapedSession(NoSession)
BY DEF ShapedSession, NoSession

LEMMA NothingFetched ==
    NoFetch = [s \in Symbols |-> NoFetch[s]] /\ DatedWrites(NoFetch)
BY DEF NoFetch, DatedWrites, Dated

LEMMA DatedInvStep == DatedInv /\ [Next]_vars => DatedInv'
<1> SUFFICES ASSUME DatedInv, [Next]_vars PROVE DatedInv'
    OBVIOUS
<1> USE DEF dayVars, storeVars
<1>1. CASE UNCHANGED <<today, newest, prices, session, request>>
    BY <1>1 DEF DatedInv, ShapedSession, DatedWrites, Dated
<1>2. CASE UNCHANGED vars \/ Schedule \/ Exit \/ Retry
    BY <1>1, <1>2 DEF vars, Schedule, Exit, Retry
<1>3. CASE NextDay
    <2>1. today' \in Int /\ newest' \in Int
        BY <1>3 DEF NextDay, DatedInv
    <2> QED
        BY <1>3, <2>1 DEF NextDay, DatedInv, ShapedSession, DatedWrites, Dated
<1>4. CASE UNCHANGED <<today, newest, prices, request>> /\ ShapedSession(session')
    BY <1>4 DEF DatedInv, ShapedSession, DatedWrites, Dated
<1>5. CASE UNCHANGED <<today, newest, prices, session>> /\ ShapedSession(request')
    BY <1>5 DEF DatedInv, ShapedSession, DatedWrites, Dated
<1>6. CASE Kill \/ RaiseUser
    BY <1>4, <1>6, Rested DEF Kill, RaiseUser
<1>7. CASE TakeTarget
    BY <1>4, <1>7, NothingFetched DEF TakeTarget, ShapedSession
<1>8. ASSUME NEW s \in Symbols, RefreshSymbol(s) PROVE DatedInv'
    <2>1. PICK bars \in {{}, Bars(today - FetchDays, newest, basis[s])} :
              session' = [session EXCEPT
                !.todo = @ \ {s}, !.fetched[s] = bars, !.pruned = @ \union {s},
                !.failed = IF bars = {} /\ KindOf[s] # "fund" THEN @ \union {s}
                           ELSE @]
        BY <1>8, Zenon DEF RefreshSymbol
    <2>2. Dated(bars)
        <3>1. Dated({}) /\ today - FetchDays \in Int /\ newest \in Int
            BY DaysAssumption DEF Dated, DatedInv
        <3> QED
            BY <2>1, <3>1, BarsAreDated
    <2>3. session.pc = "refresh" /\ ShapedSession(session)
        BY <1>8 DEF RefreshSymbol, DatedInv
    <2>4. /\ {"pc", "fetched"} \subseteq DOMAIN session'
          /\ session'.fetched = [session.fetched EXCEPT ![s] = bars]
        BY <2>1, <2>3 DEF ShapedSession
    <2>5. ShapedSession(session')
        BY <2>2, <2>3, <2>4, FetchedOne DEF ShapedSession
    <2> QED
        BY <1>4, <1>8, <2>5 DEF RefreshSymbol
<1>9. ASSUME NEW s \in Symbols, RefreshFails(s) PROVE DatedInv'
    BY <1>4, <1>9 DEF RefreshFails, DatedInv, ShapedSession
<1>10. CASE ValueHoldings
    BY <1>4, <1>10 DEF ValueHoldings, DatedInv, ShapedSession
<1>11. CASE CommitUser
    <2>1. DatedWrites(session.fetched)
        BY <1>11 DEF CommitUser, DatedInv, ShapedSession
    <2>2. \A s \in Symbols : Dated(Written(s, session.fetched, session.pruned))
        BY <2>1, WrittenIsDated
    <2> QED
        BY <1>11, <2>2, Rested DEF CommitUser, DatedInv, DatedWrites, Dated, ShapedSession
<1>12. ASSUME NEW u \in Users, NEW s \in Symbols, Trade(u, s) PROVE DatedInv'
    <2>1. CASE UNCHANGED request
        BY <1>1, <1>12, <2>1 DEF Trade
    <2>2. CASE request' = [pc |-> "lookup", user |-> u, symbol |-> s,
                           fetched |-> NoFetch]
        BY <1>5, <1>12, <2>2, NothingFetched DEF Trade, ShapedSession
    <2> QED
        BY <1>12, <2>1, <2>2 DEF Trade
<1>13. CASE LookUp
    <2> DEFINE s == request.symbol
    <2>1. PICK bars \in {{}, Bars(today - ReadDays, newest, basis[s])} :
              request' = [request EXCEPT !.pc = "commit", !.fetched[s] = bars]
        BY <1>13, Zenon DEF LookUp
    <2> HIDE DEF s
    <2>2. Dated(bars)
        <3>1. Dated({}) /\ today - ReadDays \in Int /\ newest \in Int
            BY DaysAssumption DEF Dated, DatedInv
        <3> QED
            BY <2>1, <3>1, BarsAreDated
    <2>3. request.pc = "lookup" /\ ShapedSession(request)
        BY <1>13 DEF LookUp, DatedInv
    <2>4. /\ {"pc", "fetched"} \subseteq DOMAIN request'
          /\ request'.fetched = [request.fetched EXCEPT ![s] = bars]
        BY <2>1, <2>3 DEF ShapedSession
    <2>5. ShapedSession(request')
        BY <2>2, <2>3, <2>4 DEF ShapedSession, DatedWrites
    <2> QED
        BY <1>5, <1>13, <2>5 DEF LookUp
<1>14. CASE CommitTrade
    <2>1. DatedWrites(request.fetched)
        BY <1>14 DEF CommitTrade, DatedInv, ShapedSession
    <2>2. \A s \in Symbols : Dated(Written(s, request.fetched, {}))
        BY <2>1, WrittenIsDated
    <2> QED
        BY <1>14, <2>2, Rested
        DEF CommitTrade, DatedInv, DatedWrites, Dated, ShapedSession
<1>15. CASE RaiseTrade
    BY <1>5, <1>15, Rested DEF RaiseTrade
<1> QED
    BY <1>2, <1>3, <1>6, <1>7, <1>8, <1>9, <1>10, <1>11, <1>12, <1>13, <1>14, <1>15
    DEF Next

\* For every choice of the windows, no transaction of the job or of a trade takes
\* a bar away that the weekly ranking of that day may still read, whatever else
\* is in flight and whichever of them commits last.
THEOREM ReadableStay == Spec => ReadableBarsStay
<1> DEFINE Keeps ==
        \A s \in Symbols :
            {r.date : r \in get_recent_prices(prices[s], today, WeekDays)}
                \subseteq {r.date : r \in prices'[s]}
<1>1. DatedInv /\ [Next]_vars => [Keeps]_vars
    <2> SUFFICES ASSUME DatedInv, Next PROVE Keeps
        BY DEF vars
    <2>1. CASE prices' = prices
        BY <2>1 DEF get_recent_prices
    <2>2. CASE CommitUser
        BY <2>2, WrittenKeepsReadable DEF CommitUser
    <2>3. CASE CommitTrade
        BY <2>3, WrittenKeepsReadable DEF CommitTrade
    <2>4. CommitUser \/ CommitTrade \/ prices' = prices
        BY Zenon DEF Next, NextDay, Schedule, TakeTarget, Exit, Kill, Retry,
            RefreshSymbol, RefreshFails, ValueHoldings, RaiseUser, Trade, LookUp, RaiseTrade,
            storeVars
    <2> QED
        BY <2>1, <2>2, <2>3, <2>4
<1> QED
    BY <1>1, DatedInvInit, DatedInvStep, PTL DEF Spec, ReadableBarsStay

-----------------------------------------------------------------------------
(* One adjustment for the prices of a ranking.  A refresh writes all dates *)
(* from FetchDays back to the newest bar there is, with the adjustment of  *)
(* its day; a ranking of that day or of a later one reads no further back. *)

\* A user is being served while the transaction of the job is open.
JobServes == "pc" \in DOMAIN job /\ (job.pc = "user" <=> session.pc # "idle")

\* What the job has fetched, it has fetched today.
FetchedToday ==
    session.pc # "idle" =>
        \A s \in Symbols :
            \/ session.fetched[s] = {}
            \/ session.fetched[s] = Bars(today - FetchDays, newest, basis[s])

NotAhead(rows) == \A r \in rows : r.date <= newest

NoneAhead ==
    /\ \A s \in Symbols : NotAhead(prices[s])
    /\ request.pc # "idle" => \A s \in Symbols : NotAhead(request.fetched[s])

\* Rows from the first day on have one basis.
Alike(rows, first) ==
    \A a, b \in rows : a.date >= first /\ b.date >= first => a.basis = b.basis

SyncedAlike ==
    \A s \in Symbols :
        synced[s] # Unsynced =>
            /\ synced[s] \in Int /\ synced[s] <= today
            /\ Alike(prices[s], synced[s] - FetchDays)

BasisInv == DatedInv /\ JobServes /\ FetchedToday /\ NoneAhead /\ SyncedAlike

LEMMA BasisInvInit == Init => BasisInv
<1> SUFFICES ASSUME Init PROVE BasisInv
    OBVIOUS
<1>1. \A s \in Symbols :
          prices[s] = {} \/ prices[s] = Bars(FirstDay - FetchDays, FirstDay, 0)
    BY DEF Init
<1>2. NoneAhead
    BY <1>1, HoldingsAssumption DEF Init, NoneAhead, NotAhead, NoSession, Bars
<1>3. SyncedAlike
    BY <1>1, HoldingsAssumption DEF Init, SyncedAlike, Alike, Bars
<1>4. JobServes /\ FetchedToday
    BY DEF Init, JobServes, FetchedToday, NoSession, NoJob
<1> QED
    BY <1>2, <1>3, <1>4, DatedInvInit DEF BasisInv

\* An upsert and a pruning add no row but the fetched ones.
LEMMA WrittenRows ==
    ASSUME NEW fetched, NEW pruned, NEW s, NEW r \in Written(s, fetched, pruned)
    PROVE  r \in prices[s] \/ r \in fetched[s]
BY DEF Written, upsert_prices, prune_old_prices

\* What a refresh leaves is of one basis from FetchDays back on.
LEMMA RefreshedAlike ==
    ASSUME BasisInv, NEW fetched, NEW pruned, NEW s \in Symbols, NEW b,
           fetched[s] = Bars(today - FetchDays, newest, b)
    PROVE  Alike(Written(s, fetched, pruned), today - FetchDays)
<1> SUFFICES ASSUME NEW r \in Written(s, fetched, pruned), r.date >= today - FetchDays
             PROVE  r.basis = b
    BY DEF Alike
<1>1. CASE r \in fetched[s]
    BY <1>1 DEF Bars
<1>2. CASE r \in prices[s] /\ r \notin fetched[s]
    <2>1. r.date \in (today - FetchDays)..newest
        BY <1>2, DaysAssumption
            DEF BasisInv, DatedInv, DatedWrites, Dated, NoneAhead, NotAhead
    <2>2. [date |-> r.date, basis |-> b] \in fetched[s]
        BY <2>1 DEF Bars
    <2> QED
        BY <1>2, <2>2 DEF Written, upsert_prices, prune_old_prices
<1> QED
    BY <1>1, <1>2, WrittenRows

LEMMA BasisInvStep == BasisInv /\ [Next]_vars => BasisInv'
<1> SUFFICES ASSUME BasisInv, [Next]_vars PROVE BasisInv'
    OBVIOUS
<1> USE DEF dayVars, storeVars
<1>0. DatedInv' /\ DatedInv
    BY DatedInvStep DEF BasisInv
<1>1. JobServes'
    <2>1. CASE UNCHANGED <<job, session>>
        BY <2>1 DEF BasisInv, JobServes
    <2>2. CASE Schedule \/ Exit \/ Retry
        BY <2>2 DEF BasisInv, JobServes, Schedule, Exit, Retry, StartJob, ExitJob,
            RetryJob, Fetched, ExitCode
    <2>3. CASE TakeTarget \/ Kill \/ RaiseUser \/ CommitUser
        <3>1. CASE TakeTarget
            BY <3>1 DEF BasisInv, JobServes, TakeTarget, TakeUser
        <3>2. CASE Kill
            BY <3>2 DEF BasisInv, JobServes, Kill, KillJob, NoSession
        <3>3. ASSUME NEW succeeded, NEW symbols, UserDone(succeeded, symbols)
              PROVE  "pc" \in DOMAIN job' /\ job'.pc = "choose"
            BY <3>3 DEF BasisInv, JobServes, UserDone
        <3>4. CASE RaiseUser \/ CommitUser
            <4>1. session' = NoSession
                BY <3>4, Zenon DEF RaiseUser, CommitUser
            <4>2. UserDone(FALSE, {}) \/ UserDone(TRUE, session.failed)
                BY <3>4, Zenon DEF RaiseUser, CommitUser
            <4> QED
                BY <3>3, <4>1, <4>2 DEF JobServes, NoSession
        <3> QED
            BY <2>3, <3>1, <3>2, <3>4
    <2>4. ASSUME NEW s \in Symbols, RefreshSymbol(s) \/ RefreshFails(s) PROVE JobServes'
        BY <1>0, <2>4
        DEF BasisInv, JobServes, RefreshSymbol, RefreshFails, DatedInv, ShapedSession
    <2>5. CASE ValueHoldings
        BY <1>0, <2>5 DEF BasisInv, JobServes, ValueHoldings, DatedInv, ShapedSession
    <2>6. CASE \/ UNCHANGED vars \/ NextDay
               \/ \E u \in Users, s \in Symbols : Trade(u, s)
               \/ LookUp \/ CommitTrade \/ RaiseTrade
        BY <2>1, <2>6 DEF vars, NextDay, Trade, LookUp, CommitTrade, RaiseTrade
    <2> QED
        BY <2>2, <2>3, <2>4, <2>5, <2>6, Zenon DEF Next
<1>2. FetchedToday'
    <2>1. CASE UNCHANGED <<session, today, newest, basis>>
        BY <2>1 DEF BasisInv, FetchedToday
    <2>2. CASE NextDay
        BY <2>2 DEF BasisInv, FetchedToday, JobServes, NextDay, JobOver
    <2>3. CASE TakeTarget \/ Kill \/ RaiseUser \/ CommitUser
        <3>1. CASE TakeTarget
            BY <3>1 DEF FetchedToday, TakeTarget, NoFetch
        <3>2. CASE Kill \/ RaiseUser \/ CommitUser
            <4>1. session' = NoSession
                BY <3>2, Zenon DEF Kill, RaiseUser, CommitUser
            <4> QED
                BY <4>1 DEF FetchedToday, NoSession
        <3> QED
            BY <2>3, <3>1, <3>2
    <2>4. ASSUME NEW s \in Symbols, RefreshSymbol(s) PROVE FetchedToday'
        <3>1. PICK bars \in {{}, Bars(today - FetchDays, newest, basis[s])} :
                  session' = [session EXCEPT
                    !.todo = @ \ {s}, !.fetched[s] = bars, !.pruned = @ \union {s},
                    !.failed = IF bars = {} /\ KindOf[s] # "fund" THEN @ \union {s}
                               ELSE @]
            BY <2>4, Zenon DEF RefreshSymbol
        <3>2. session.pc # "idle" /\ UNCHANGED <<today, newest, basis>>
            BY <2>4 DEF RefreshSymbol
        <3>3. session'.fetched = [session.fetched EXCEPT ![s] = bars]
            BY <1>0, <3>1, <3>2 DEF DatedInv, ShapedSession
        <3> QED
            BY <1>0, <3>1, <3>2, <3>3 DEF BasisInv, FetchedToday, DatedInv, ShapedSession
    <2>5. ASSUME NEW s \in Symbols, RefreshFails(s) PROVE FetchedToday'
        BY <1>0, <2>5 DEF BasisInv, FetchedToday, RefreshFails, DatedInv, ShapedSession
    <2>6. CASE ValueHoldings
        BY <1>0, <2>6 DEF BasisInv, FetchedToday, ValueHoldings, DatedInv, ShapedSession
    <2>7. CASE \/ UNCHANGED vars \/ Schedule \/ Exit \/ Retry
               \/ \E u \in Users, s \in Symbols : Trade(u, s)
               \/ LookUp \/ CommitTrade \/ RaiseTrade
        BY <2>1, <2>7
        DEF vars, Schedule, Exit, Retry, Trade, LookUp, CommitTrade, RaiseTrade
    <2> QED
        BY <2>2, <2>3, <2>4, <2>5, <2>6, <2>7, Zenon DEF Next
<1>3. NoneAhead'
    <2>1. CASE UNCHANGED <<newest, prices, request>>
        BY <2>1 DEF BasisInv, NoneAhead, NotAhead
    <2>2. CASE NextDay
        BY <1>0, <2>2 DEF BasisInv, NoneAhead, NotAhead, NextDay, DatedInv, DatedWrites,
            Dated, NoSession
    <2>3. CASE CommitUser
        <3>1. session.pc # "idle" /\ UNCHANGED <<newest, request>>
            BY <2>3 DEF CommitUser
        <3>2. \A s \in Symbols : NotAhead(session.fetched[s])
            BY <3>1 DEF BasisInv, FetchedToday, NotAhead, Bars
        <3>3. \A s \in Symbols :
                  NotAhead(Written(s, session.fetched, session.pruned))
            BY <3>2, WrittenRows DEF BasisInv, NoneAhead, NotAhead
        <3> QED
            BY <2>3, <3>1, <3>3 DEF BasisInv, NoneAhead, NotAhead, CommitUser
    <2>4. CASE CommitTrade
        <3>1. \A s \in Symbols : NotAhead(Written(s, request.fetched, {}))
            BY <2>4, WrittenRows DEF BasisInv, NoneAhead, NotAhead, CommitTrade
        <3> QED
            BY <2>4, <3>1 DEF NoneAhead, NotAhead, CommitTrade, NoSession
    <2>5. ASSUME NEW u \in Users, NEW s \in Symbols, Trade(u, s) PROVE NoneAhead'
        <3>1. CASE UNCHANGED request
            BY <2>1, <2>5, <3>1 DEF Trade
        <3>2. CASE request' = [pc |-> "lookup", user |-> u, symbol |-> s,
                               fetched |-> NoFetch]
            BY <2>5, <3>2 DEF BasisInv, NoneAhead, NotAhead, Trade, NoFetch
        <3> QED
            BY <2>5, <3>1, <3>2 DEF Trade
    <2>6. CASE LookUp
        <3> DEFINE s == request.symbol
        <3>1. PICK bars \in {{}, Bars(today - ReadDays, newest, basis[s])} :
                  request' = [request EXCEPT !.pc = "commit", !.fetched[s] = bars]
            BY <2>6, Zenon DEF LookUp
        <3> HIDE DEF s
        <3>2. NotAhead(bars)
            BY <3>1 DEF NotAhead, Bars
        <3>3. request.pc # "idle" /\ UNCHANGED <<newest, prices>>
            BY <2>6 DEF LookUp
        <3>4. request'.fetched = [request.fetched EXCEPT ![s] = bars]
            BY <1>0, <3>1, <3>3 DEF DatedInv, ShapedSession
        <3> QED
            BY <1>0, <3>2, <3>3, <3>4
            DEF BasisInv, NoneAhead, NotAhead, DatedInv, ShapedSession
    <2>7. CASE RaiseTrade
        BY <2>7 DEF BasisInv, NoneAhead, NotAhead, RaiseTrade, NoSession
    <2>8. CASE \/ UNCHANGED vars \/ Schedule \/ TakeTarget \/ Exit \/ Kill \/ Retry
               \/ \E s \in Symbols : RefreshSymbol(s) \/ RefreshFails(s)
               \/ ValueHoldings \/ RaiseUser
        BY <2>1, <2>8 DEF vars, Schedule, TakeTarget, Exit, Kill, Retry,
            RefreshSymbol, RefreshFails, ValueHoldings, RaiseUser
    <2> QED
        BY <2>2, <2>3, <2>4, <2>5, <2>6, <2>7, <2>8, Zenon DEF Next
<1>4. SyncedAlike'
    <2>1. CASE UNCHANGED <<today, prices, synced>>
        BY <2>1 DEF BasisInv, SyncedAlike, Alike
    <2>2. CASE NextDay
        BY <1>0, <2>2 DEF BasisInv, SyncedAlike, Alike, NextDay, DatedInv
    <2>3. CASE CommitUser
        <3> SUFFICES ASSUME NEW s \in Symbols, synced'[s] # Unsynced
                     PROVE  /\ synced'[s] \in Int /\ synced'[s] <= today
                            /\ Alike(prices'[s], synced'[s] - FetchDays)
            BY <2>3 DEF SyncedAlike, Alike, CommitUser
        <3>1. session.pc # "idle"
            BY <2>3 DEF CommitUser
        <3>2. CASE session.fetched[s] # {}
            <4>1. session.fetched[s] = Bars(today - FetchDays, newest, basis[s])
                BY <3>1, <3>2 DEF BasisInv, FetchedToday
            <4>2. synced'[s] = today
                BY <2>3, <3>2 DEF CommitUser
            <4> QED
                BY <1>0, <2>3, <4>1, <4>2, RefreshedAlike DEF CommitUser, DatedInv
        <3>3. CASE session.fetched[s] = {}
            <4>1. synced'[s] = synced[s]
                BY <2>3, <3>3 DEF CommitUser
            <4>2. prices'[s] \subseteq prices[s]
                BY <2>3, <3>3, WrittenRows DEF CommitUser
            <4> QED
                BY <4>1, <4>2 DEF BasisInv, SyncedAlike, Alike
        <3> QED
            BY <3>2, <3>3
    <2>4. CASE CommitTrade
        <3> SUFFICES ASSUME NEW s \in Symbols, synced'[s] # Unsynced
                     PROVE  /\ synced'[s] \in Int /\ synced'[s] <= today
                            /\ Alike(prices'[s], synced'[s] - FetchDays)
            BY <2>4 DEF SyncedAlike, Alike, CommitTrade
        <3>1. request.fetched[s] = {} /\ synced'[s] = synced[s]
            BY <2>4 DEF CommitTrade
        <3>2. prices'[s] \subseteq prices[s]
            BY <2>4, <3>1, WrittenRows DEF CommitTrade
        <3> QED
            BY <3>1, <3>2 DEF BasisInv, SyncedAlike, Alike
    <2>5. CASE \/ UNCHANGED vars \/ Schedule \/ TakeTarget \/ Exit \/ Kill \/ Retry
               \/ \E s \in Symbols : RefreshSymbol(s) \/ RefreshFails(s)
               \/ ValueHoldings \/ RaiseUser \/ LookUp \/ RaiseTrade
               \/ \E u \in Users, s \in Symbols : Trade(u, s)
        BY <2>1, <2>5 DEF vars, Schedule, TakeTarget, Exit, Kill, Retry, RefreshSymbol,
            RefreshFails, ValueHoldings, RaiseUser, LookUp, RaiseTrade, Trade
    <2> QED
        BY <2>2, <2>3, <2>4, <2>5, Zenon DEF Next
<1> QED
    BY <1>0, <1>1, <1>2, <1>3, <1>4 DEF BasisInv

\* For every choice of the windows, of the symbols that split and of the days they
\* do: once a refresh of a symbol has committed, and until a trade writes bars of its own,
\* the two prices of the weekly ranking have one adjustment.
THEOREM OneBasis == Spec => []SameBasis
<1>1. BasisInv => SameBasis
    <2> SUFFICES ASSUME BasisInv, NEW s \in Symbols, synced[s] # Unsynced,
                        NEW a \in weekly_prices(prices[s], today),
                        NEW b \in weekly_prices(prices[s], today)
                 PROVE  a.basis = b.basis
        BY DEF SameBasis
    <2>1. weekly_prices(prices[s], today)
              \subseteq get_recent_prices(prices[s], today, WeekDays)
        BY Zenon DEF weekly_prices
    <2>2. ASSUME NEW r \in weekly_prices(prices[s], today)
          PROVE  r \in prices[s] /\ r.date >= synced[s] - FetchDays
        BY <2>1, DaysAssumption
        DEF get_recent_prices, BasisInv, SyncedAlike, DatedInv, DatedWrites, Dated
    <2> QED
        BY <2>2 DEF BasisInv, SyncedAlike, Alike
<1> QED
    BY <1>1, BasisInvInit, BasisInvStep, PTL DEF Spec

-----------------------------------------------------------------------------
(* The exit code of the job.  What is wrong with a valued holding is first *)
(* noted in the session of the user, then, with its commit, in the job.    *)

JobFields ==
    {"pc", "attempt", "targets", "left", "user", "failures", "failedSymbols"}

SessionFields ==
    {"pc", "user", "listed", "todo", "fetched", "pruned", "failed", "valued"}

Bad(v) == v.price = NoPrice \/ v.unfetched

\* A symbol of the user that is done and has no bars is a failure.
SessionNotes(t) ==
    /\ t.pc = "refresh" =>
        /\ DOMAIN t = SessionFields
        /\ t.fetched = [s \in Symbols |-> t.fetched[s]]
        /\ \A s \in (t.listed \ t.todo) \cap Symbols :
            KindOf[s] # "fund" /\ t.fetched[s] = {} => s \in t.failed
    /\ t.pc = "commit" => \A v \in t.valued : Bad(v) => v.symbol \in t.failed

JobNotes ==
    /\ DOMAIN job = JobFields /\ job.failures \in Nat
    /\ job.left \subseteq job.targets /\ job.targets \subseteq Users
    /\ job.pc = "succeeded" => job.failures = 0 /\ job.failedSymbols = {}
    /\ \A v \in report : Bad(v) => v.symbol \in job.failedSymbols

NotesInv ==
    /\ JobNotes /\ SessionNotes(session)
    /\ held \in [Users -> SUBSET Symbols]
    /\ session.pc # "idle" => session.user \in Users
    /\ request.pc # "idle" => request.user \in Users /\ request.symbol \in Symbols

LEMMA NotesInvInit == Init => NotesInv
BY HoldingsAssumption DEF Init, NotesInv, JobNotes, SessionNotes, NoJob, JobFields,
   NoSession

\* The job goes on to its next user.
LEMMA UserDoneNotes ==
    ASSUME NotesInv, job.pc # "succeeded", NEW ok \in BOOLEAN, NEW symbols,
           UserDone(ok, symbols),
           \A v \in report' \ report : Bad(v) => v.symbol \in symbols
    PROVE  JobNotes'
<1>1. DOMAIN job = JobFields /\ job.failures \in Nat BY DEF NotesInv, JobNotes
<1>2. /\ DOMAIN job' = JobFields /\ job'.pc = "choose"
      /\ job'.left = job.left /\ job'.targets = job.targets
      /\ job'.failures \in Nat
      /\ job'.failedSymbols = job.failedSymbols \cup symbols
  BY <1>1 DEF UserDone, JobFields
<1>3. \A v \in report' : Bad(v) => v.symbol \in job'.failedSymbols
  BY <1>2 DEF NotesInv, JobNotes
<1>4. QED BY <1>2, <1>3 DEF NotesInv, JobNotes

\* A new process, or a new run, has valued nothing.
LEMMA FetchedNotes ==
    ASSUME NEW a, job' = Fetched(Users, a), report' = {}
    PROVE  JobNotes'
BY DEF JobNotes, Fetched, JobFields

LEMMA SymbolNotes ==
    ASSUME SessionNotes(session), NEW s \in Symbols, session.pc = "refresh",
           RefreshSymbol(s) \/ RefreshFails(s)
    PROVE  SessionNotes(session') /\ session'.user = session.user
<1>1. /\ {"pc", "user", "listed", "todo", "fetched", "pruned", "failed", "valued"}
            = DOMAIN session
      /\ session.fetched = [x \in Symbols |-> session.fetched[x]]
      /\ \A x \in (session.listed \ session.todo) \cap Symbols :
            KindOf[x] # "fund" /\ session.fetched[x] = {} => x \in session.failed
  BY DEF SessionNotes, SessionFields
<1>2. CASE RefreshSymbol(s)
  <2>1. PICK bars \in {{}, Bars(today - FetchDays, newest, basis[s])} :
          session' = [session EXCEPT
            !.todo = @ \ {s}, !.fetched[s] = bars, !.pruned = @ \union {s},
            !.failed = IF bars = {} /\ KindOf[s] # "fund" THEN @ \union {s}
                       ELSE @]
    BY <1>2, Zenon DEF RefreshSymbol
  <2>2. /\ DOMAIN session' = DOMAIN session /\ session'.pc = "refresh"
        /\ session'.listed = session.listed /\ session'.todo = session.todo \ {s}
        /\ session'.user = session.user
        /\ session'.fetched = [session.fetched EXCEPT ![s] = bars]
        /\ session'.failed = IF bars = {} /\ KindOf[s] # "fund"
                             THEN session.failed \cup {s} ELSE session.failed
    BY <1>1, <2>1
  <2>3. /\ session'.fetched = [x \in Symbols |-> session'.fetched[x]]
        /\ session'.fetched[s] = bars
        /\ \A x \in Symbols \ {s} : session'.fetched[x] = session.fetched[x]
    BY <1>1, <2>2
  <2>4. \A x \in (session'.listed \ session'.todo) \cap Symbols :
            KindOf[x] # "fund" /\ session'.fetched[x] = {} => x \in session'.failed
    BY <1>1, <2>2, <2>3
  <2>5. QED BY <1>1, <2>2, <2>3, <2>4 DEF SessionNotes, SessionFields
<1>3. CASE RefreshFails(s)
  <2>1. PICK pc \in {"refresh", "broken"} :
          session' = [session EXCEPT !.pc = pc, !.todo = @ \ {s},
                                     !.failed = @ \union {s}]
    BY <1>3, Zenon DEF RefreshFails
  <2>2. /\ DOMAIN session' = DOMAIN session /\ session'.pc = pc
        /\ session'.listed = session.listed /\ session'.todo = session.todo \ {s}
        /\ session'.fetched = session.fetched /\ session'.user = session.user
        /\ session'.failed = session.failed \cup {s}
    BY <1>1, <2>1
  <2>3. QED BY <1>1, <2>1, <2>2 DEF SessionNotes, SessionFields
<1>4. QED BY <1>2, <1>3

\* Whatever has no price, or was listed and has no bars, is noted.
LEMMA ValuedNotes ==
    ASSUME NotesInv, ValueHoldings
    PROVE  SessionNotes(session') /\ session'.user = session.user
<1>1. /\ session.pc = "refresh" /\ session.todo = {}
      /\ {"pc", "user", "listed", "todo", "fetched", "pruned", "failed", "valued"}
            = DOMAIN session
      /\ \A x \in (session.listed \ session.todo) \cap Symbols :
            KindOf[x] # "fund" /\ session.fetched[x] = {} => x \in session.failed
  BY DEF NotesInv, SessionNotes, ValueHoldings, SessionFields
<1>2. PICK answered \in [held[session.user] -> BOOLEAN] :
        LET price(s) ==
                get_current_price(s, Written(s, session.fetched, session.pruned),
                                  answered[s])
            valued == {[user |-> session.user, symbol |-> s, price |-> price(s),
                        unfetched |-> /\ s \in session.listed /\ KindOf[s] # "fund"
                                      /\ session.fetched[s] = {}] :
                            s \in held[session.user]}
        IN  session' = [session EXCEPT !.pc = "commit", !.valued = valued,
                    !.failed = @ \union
                        {v.symbol :
                            v \in {x \in valued : price_fetch_failed(x.price)}}]
  BY Zenon DEF ValueHoldings
<1> DEFINE price(s) ==
               get_current_price(s, Written(s, session.fetched, session.pruned),
                                 answered[s])
           valued == {[user |-> session.user, symbol |-> s, price |-> price(s),
                       unfetched |-> /\ s \in session.listed /\ KindOf[s] # "fund"
                                     /\ session.fetched[s] = {}] :
                           s \in held[session.user]}
<1>3. session' = [session EXCEPT !.pc = "commit", !.valued = valued,
                    !.failed = @ \union
                        {v.symbol : v \in {x \in valued : x.price = NoPrice}}]
  BY <1>2 DEF price_fetch_failed
<1>4. held[session.user] \subseteq Symbols BY <1>1 DEF NotesInv
<1>5. ASSUME NEW v \in valued, v.unfetched PROVE v.symbol \in session.failed
  <2>1. PICK s \in held[session.user] :
          v = [user |-> session.user, symbol |-> s, price |-> price(s),
               unfetched |-> /\ s \in session.listed /\ KindOf[s] # "fund"
                             /\ session.fetched[s] = {}]
    OBVIOUS
  <2> HIDE DEF price
  <2>2. v.symbol = s BY <2>1
  <2>3. s \in session.listed /\ KindOf[s] # "fund" /\ session.fetched[s] = {}
    BY <1>5, <2>1
  <2>4. QED BY <1>1, <1>4, <2>2, <2>3
<1> HIDE DEF valued, price
<1>6. /\ session'.pc = "commit" /\ session'.user = session.user
      /\ session'.valued = valued
      /\ session'.failed = session.failed \cup
                {v.symbol : v \in {x \in valued : x.price = NoPrice}}
  BY <1>1, <1>3
<1>7. \A v \in session'.valued : Bad(v) => v.symbol \in session'.failed
  BY <1>5, <1>6 DEF Bad
<1>8. QED BY <1>6, <1>7 DEF SessionNotes

LEMMA NotesInvStep == NotesInv /\ JobServes /\ [Next]_vars => NotesInv'
<1> SUFFICES ASSUME NotesInv, JobServes, [Next]_vars PROVE NotesInv'
  OBVIOUS
<1> USE DEF dayVars, storeVars
<1>1. CASE UNCHANGED <<job, session, report, held, request>>
  BY <1>1 DEF NotesInv, JobNotes
<1>2. CASE UNCHANGED vars \/ NextDay
  BY <1>1, <1>2 DEF vars, NextDay
<1>3. CASE Schedule
  <2>1. JobNotes' BY <1>3, FetchedNotes DEF Schedule, StartJob
  <2>2. QED BY <1>3, <2>1 DEF Schedule, NotesInv
<1>4. CASE Retry
  <2>1. CASE job' = Fetched(Users, job.attempt + 1)
    <3>1. report' = {} BY <1>4, <2>1 DEF Retry, JobOver, Fetched
    <3>2. JobNotes' BY <2>1, <3>1, FetchedNotes
    <3>3. QED BY <1>4, <3>2 DEF Retry, NotesInv
  <2>2. CASE job' = [job EXCEPT !.pc = "lost"]
    <3>1. /\ job'.pc = "lost" /\ DOMAIN job' = JobFields
          /\ job'.failures = job.failures /\ job'.failedSymbols = job.failedSymbols
          /\ job'.left = job.left /\ job'.targets = job.targets
      BY <2>2 DEF NotesInv, JobNotes, JobFields
    <3>2. report' = report BY <1>4, <3>1 DEF Retry, JobOver
    <3>3. JobNotes' BY <3>1, <3>2 DEF NotesInv, JobNotes
    <3>4. QED BY <1>4, <3>3 DEF Retry, NotesInv
  <2>3. QED BY <1>4, <2>1, <2>2 DEF Retry, RetryJob
<1>5. CASE TakeTarget
  <2>1. PICK u \in job.left :
          job' = [job EXCEPT !.pc = "user", !.user = u, !.left = @ \ {u}]
    BY <1>5 DEF TakeTarget, TakeUser
  <2>2. /\ job'.pc = "user" /\ DOMAIN job' = JobFields /\ job'.user = u
        /\ job'.failures = job.failures /\ job'.failedSymbols = job.failedSymbols
        /\ job'.left \subseteq job.left /\ job'.targets = job.targets
    BY <2>1 DEF NotesInv, JobNotes, JobFields
  <2>3. JobNotes' BY <1>5, <2>2 DEF NotesInv, JobNotes, TakeTarget
  <2>4. u \in Users BY DEF NotesInv, JobNotes
  <2>5. session' = [pc |-> "refresh", user |-> u, listed |-> held[u],
                    todo |-> held[u], fetched |-> NoFetch, pruned |-> {},
                    failed |-> {}, valued |-> {}]
    BY <1>5, <2>2 DEF TakeTarget
  <2>6. SessionNotes(session') /\ session'.user = u
    BY <2>5 DEF SessionNotes, SessionFields, NoFetch
  <2>7. QED BY <1>5, <2>3, <2>4, <2>6 DEF TakeTarget, NotesInv
<1>6. CASE Exit
  <2>1. /\ job.pc = "choose" /\ job' = [job EXCEPT !.pc = ExitCode]
    BY <1>6 DEF Exit, ExitJob
  <2>2. /\ job'.pc = ExitCode /\ DOMAIN job' = JobFields
        /\ job'.failures = job.failures /\ job'.failedSymbols = job.failedSymbols
        /\ job'.left = job.left /\ job'.targets = job.targets
    BY <2>1 DEF NotesInv, JobNotes, JobFields
  <2>3. ExitCode = "succeeded" => job.failures = 0 /\ job.failedSymbols = {}
    BY DEF ExitCode, NotesInv, JobNotes
  <2>4. JobNotes' BY <1>6, <2>2, <2>3 DEF NotesInv, JobNotes, Exit
  <2>5. QED BY <1>6, <2>4 DEF Exit, NotesInv
<1>7. CASE Kill
  <2>1. job' = [job EXCEPT !.pc = "killed", !.user = "none"]
    BY <1>7 DEF Kill, KillJob
  <2>2. /\ job'.pc = "killed" /\ DOMAIN job' = JobFields
        /\ job'.failures = job.failures /\ job'.failedSymbols = job.failedSymbols
        /\ job'.left = job.left /\ job'.targets = job.targets
    BY <2>1 DEF NotesInv, JobNotes, JobFields
  <2>3. JobNotes' BY <1>7, <2>2 DEF NotesInv, JobNotes, Kill
  <2>4. QED BY <1>7, <2>3 DEF Kill, NotesInv, SessionNotes, NoSession
<1>8. ASSUME NEW s \in Symbols, RefreshSymbol(s) \/ RefreshFails(s)
      PROVE  NotesInv'
  <2>1. session.pc = "refresh" /\ UNCHANGED <<job, report, held, request>>
    BY <1>8 DEF RefreshSymbol, RefreshFails
  <2>2. SessionNotes(session') /\ session'.user = session.user
    BY <1>8, <2>1, SymbolNotes DEF NotesInv
  <2>3. JobNotes' BY <2>1 DEF NotesInv, JobNotes
  <2>4. QED BY <2>1, <2>2, <2>3 DEF NotesInv
<1>9. CASE ValueHoldings
  <2>1. session.pc = "refresh" /\ UNCHANGED <<job, report, held, request>>
    BY <1>9 DEF ValueHoldings
  <2>2. SessionNotes(session') /\ session'.user = session.user
    BY <1>9, ValuedNotes
  <2>3. JobNotes' BY <2>1 DEF NotesInv, JobNotes
  <2>4. QED BY <2>1, <2>2, <2>3 DEF NotesInv
<1>10. CASE CommitUser
  <2>1. /\ session.pc = "commit" /\ UserDone(TRUE, session.failed)
        /\ report' = report \cup session.valued /\ session' = NoSession
        /\ UNCHANGED <<held, request>>
    BY <1>10 DEF CommitUser
  <2>2. job.pc # "succeeded" BY <2>1 DEF JobServes
  <2>3. \A v \in report' \ report : Bad(v) => v.symbol \in session.failed
    BY <2>1 DEF NotesInv, SessionNotes
  <2>4. JobNotes' BY <2>1, <2>2, <2>3, UserDoneNotes
  <2>5. QED BY <2>1, <2>4 DEF NotesInv, SessionNotes, NoSession
<1>11. CASE RaiseUser
  <2>1. /\ session.pc # "idle" /\ UserDone(FALSE, {}) /\ session' = NoSession
        /\ UNCHANGED <<held, request, report>>
    BY <1>11 DEF RaiseUser
  <2>2. job.pc # "succeeded" BY <2>1 DEF JobServes
  <2>3. JobNotes' BY <2>1, <2>2, UserDoneNotes
  <2>4. QED BY <2>1, <2>3 DEF NotesInv, SessionNotes, NoSession
<1>12. CASE \/ \E u \in Users, s \in Symbols : Trade(u, s)
            \/ LookUp \/ CommitTrade \/ RaiseTrade
  <2>1. UNCHANGED <<job, report, session>>
    BY <1>12 DEF Trade, LookUp, CommitTrade, RaiseTrade
  <2>2. /\ held' \in [Users -> SUBSET Symbols]
        /\ request'.pc # "idle" =>
                request'.user \in Users /\ request'.symbol \in Symbols
    <3>1. ASSUME NEW u \in Users, NEW s \in Symbols, Trade(u, s)
          PROVE  /\ held' \in [Users -> SUBSET Symbols]
                 /\ request'.pc # "idle" =>
                        request'.user \in Users /\ request'.symbol \in Symbols
      BY <3>1 DEF Trade, NotesInv
    <3>2. CASE LookUp
      <4>1. request'.user = request.user /\ request'.symbol = request.symbol
        BY <3>2 DEF LookUp
      <4>2. QED BY <3>2, <4>1 DEF LookUp, NotesInv
    <3>3. CASE CommitTrade BY <3>3 DEF CommitTrade, NotesInv, NoSession
    <3>4. CASE RaiseTrade BY <3>4 DEF RaiseTrade, NotesInv, NoSession
    <3>5. QED BY <1>12, <3>1, <3>2, <3>3, <3>4
  <2>3. JobNotes' BY <2>1 DEF NotesInv, JobNotes
  <2>4. QED BY <2>1, <2>2, <2>3 DEF NotesInv
<1>13. QED
  BY <1>2, <1>3, <1>4, <1>5, <1>6, <1>7, <1>8, <1>9, <1>10, <1>11, <1>12, Zenon
  DEF Next

\* Exit code 0 of the daily job hides nothing, for any users, holdings, failures
\* and retries: every holding it has valued has a price, of bars it has fetched
\* unless the holding is newer than its list (_runner.py:97-103).
THEOREM NothingHidden == Spec => []SucceededIsPriced
<1>1. NotesInv => SucceededIsPriced
  BY DEF NotesInv, JobNotes, SucceededIsPriced, Bad
<1>2. BasisInv => JobServes BY DEF BasisInv
<1>3. QED
  BY <1>1, <1>2, BasisInvInit, BasisInvStep, NotesInvInit, NotesInvStep, PTL
  DEF Spec

-----------------------------------------------------------------------------
(* The rows of a symbol: one per day, none of a later one than the last the *)
(* provider has published, and none of a fund; n is that day and b the      *)
(* number of splits.                                                        *)

RowsOK(rows, s, n, b) ==
    /\ IsFiniteSet(rows)
    /\ \A r \in rows : r.date <= n /\ r.basis \in 0..b
    /\ \A r1, r2 \in rows : r1.date = r2.date => r1 = r2
    /\ KindOf[s] = "fund" => rows = {}

StoreInv ==
    /\ today \in FirstDay..LastDay /\ newest \in FirstDay..today
    /\ basis = [s \in Symbols |-> basis[s]]
    /\ \A s \in Symbols :
        /\ basis[s] \in Nat
        /\ RowsOK(prices[s], s, newest, basis[s])
        /\ session.pc # "idle" => RowsOK(session.fetched[s], s, newest, basis[s])
        /\ request.pc # "idle" => RowsOK(request.fetched[s], s, newest, basis[s])

LEMMA NoRowsOK == \A s, n, b : RowsOK({}, s, n, b)
BY FS_EmptySet DEF RowsOK

LEMMA BarsOK ==
    ASSUME NEW s, KindOf[s] # "fund", NEW from \in Int, NEW n \in Int, NEW b \in Nat
    PROVE  RowsOK(Bars(from, n, b), s, n, b)
<1> DEFINE f == [d \in from..n |-> [date |-> d, basis |-> b]]
<1>1. f \in Surjection(from..n, Bars(from, n, b)) BY DEF Surjection, Bars
<1>2. IsFiniteSet(from..n) BY FS_Interval
<1> HIDE DEF f
<1>3. IsFiniteSet(Bars(from, n, b)) BY <1>1, <1>2, FS_Surjection
<1>4. QED BY <1>3 DEF RowsOK, Bars

\* What is fetched takes the place of the rows of its days.
LEMMA WrittenOK ==
    ASSUME NEW s, NEW n, NEW b, NEW fetched, NEW pruned,
           RowsOK(prices[s], s, n, b), RowsOK(fetched[s], s, n, b)
    PROVE  RowsOK(Written(s, fetched, pruned), s, n, b)
<1> DEFINE rows == Written(s, fetched, pruned)
           kept == {r \in prices[s] : \A q \in fetched[s] : q.date # r.date}
<1>1. rows \subseteq fetched[s] \cup kept
  BY DEF Written, upsert_prices, prune_old_prices
<1>2. IsFiniteSet(rows)
  <2>1. IsFiniteSet(kept) BY FS_Subset DEF RowsOK
  <2>2. IsFiniteSet(fetched[s] \cup kept) BY <2>1, FS_Union DEF RowsOK
  <2>3. QED BY <1>1, <2>2, FS_Subset
<1> HIDE DEF rows
<1>3. \A r1, r2 \in rows : r1.date = r2.date => r1 = r2
  BY <1>1 DEF RowsOK
<1>4. \A r \in rows : r.date <= n /\ r.basis \in 0..b BY <1>1 DEF RowsOK
<1>5. KindOf[s] = "fund" => rows = {} BY <1>1 DEF RowsOK
<1>6. RowsOK(rows, s, n, b) BY <1>2, <1>3, <1>4, <1>5 DEF RowsOK
<1>7. QED BY <1>6 DEF rows

LEMMA StoreInvInit == Init => StoreInv
<1> SUFFICES ASSUME Init PROVE StoreInv OBVIOUS
<1>1. /\ FirstDay \in Nat /\ LastDay \in Nat /\ FirstDay <= LastDay
      /\ FirstDay - FetchDays \in Int
  BY HoldingsAssumption, DaysAssumption
<1>2. /\ today = FirstDay /\ newest = FirstDay /\ basis = [s \in Symbols |-> 0]
      /\ session.pc = "idle" /\ request.pc = "idle"
  BY DEF Init, NoSession
<1>3. ASSUME NEW s \in Symbols PROVE RowsOK(prices[s], s, newest, basis[s])
  <2>1. \/ prices[s] = {}
        \/ KindOf[s] # "fund" /\ prices[s] = Bars(FirstDay - FetchDays, FirstDay, 0)
    BY DEF Init
  <2>2. basis[s] = 0 /\ 0 \in Nat BY <1>2
  <2>3. KindOf[s] # "fund" =>
          RowsOK(Bars(FirstDay - FetchDays, FirstDay, 0), s, FirstDay, 0)
    BY <1>1, <2>2, BarsOK
  <2>4. RowsOK(prices[s], s, FirstDay, 0) BY <2>1, <2>3, NoRowsOK
  <2>5. QED BY <1>2, <2>2, <2>4
<1>4. QED BY <1>1, <1>2, <1>3 DEF StoreInv

LEMMA StoreInvStep == StoreInv /\ BasisInv /\ [Next]_vars => StoreInv'
<1> SUFFICES ASSUME StoreInv, BasisInv, [Next]_vars PROVE StoreInv'
  OBVIOUS
<1> USE DEF dayVars, storeVars
<1>0. /\ DatedInv /\ JobServes /\ today \in Nat /\ newest \in Nat
      /\ FirstDay \in Nat /\ LastDay \in Nat
  BY HoldingsAssumption DEF BasisInv, StoreInv
<1>1. CASE UNCHANGED <<today, newest, basis, prices, session, request>>
  BY <1>1 DEF StoreInv
<1>2. CASE UNCHANGED vars \/ Schedule \/ Exit \/ Retry
  BY <1>1, <1>2 DEF vars, Schedule, Exit, Retry
<1>3. CASE NextDay
  <2>1. PICK split \in SUBSET {s \in SplitSymbols : basis[s] = 0} :
          basis' = [s \in Symbols |-> IF s \in split THEN 1 ELSE basis[s]]
    BY <1>3 DEF NextDay
  <2>2. /\ today' \in FirstDay..LastDay /\ newest' \in FirstDay..today'
        /\ newest <= newest' /\ newest' \in Int
    BY <1>0, <1>3 DEF NextDay, StoreInv
  <2>3. session.pc = "idle" /\ request.pc = "idle"
    BY <1>0, <1>3 DEF NextDay, JobServes, JobOver, NoSession
  <2>4. \A s \in Symbols : basis'[s] \in Nat /\ basis[s] <= basis'[s]
    BY <2>1 DEF StoreInv
  <2>5. ASSUME NEW s \in Symbols PROVE RowsOK(prices[s], s, newest', basis'[s])
    <3>1. \A r \in prices[s] : r.date \in Int
      BY <1>0 DEF DatedInv, DatedWrites, Dated
    <3>2. basis[s] \in Nat /\ RowsOK(prices[s], s, newest, basis[s])
      BY DEF StoreInv
    <3>3. QED BY <1>0, <2>2, <2>4, <3>1, <3>2 DEF RowsOK
  <2>6. UNCHANGED <<prices, session, request>> BY <1>3 DEF NextDay
  <2>7. basis' = [s \in Symbols |-> basis'[s]] BY <2>1
  <2>8. QED BY <2>2, <2>3, <2>4, <2>5, <2>6, <2>7 DEF StoreInv
<1>4. CASE /\ UNCHANGED <<today, newest, basis, prices, request>>
           /\ session'.pc # "idle" => \A s \in Symbols :
                RowsOK(session'.fetched[s], s, newest, basis[s])
  BY <1>4 DEF StoreInv
<1>5. CASE /\ UNCHANGED <<today, newest, basis, prices, session>>
           /\ request'.pc # "idle" => \A s \in Symbols :
                RowsOK(request'.fetched[s], s, newest, basis[s])
  BY <1>5 DEF StoreInv
<1>6. CASE Kill \/ RaiseUser
  <2>1. session' = NoSession /\ UNCHANGED <<today, newest, basis, prices, request>>
    BY <1>6 DEF Kill, RaiseUser
  <2>2. QED BY <1>4, <2>1 DEF NoSession
<1>7. CASE TakeTarget
  <2>1. session'.fetched = NoFetch BY <1>7 DEF TakeTarget
  <2>2. \A s \in Symbols : session'.fetched[s] = {} BY <2>1 DEF NoFetch
  <2>3. QED BY <1>4, <1>7, <2>2, NoRowsOK DEF TakeTarget
<1>8. ASSUME NEW s \in Symbols, RefreshSymbol(s) PROVE StoreInv'
  <2>1. PICK bars \in {{}, Bars(today - FetchDays, newest, basis[s])} :
          /\ KindOf[s] = "fund" => bars = {}
          /\ session' = [session EXCEPT
            !.todo = @ \ {s}, !.fetched[s] = bars, !.pruned = @ \union {s},
            !.failed = IF bars = {} /\ KindOf[s] # "fund" THEN @ \union {s}
                       ELSE @]
    BY <1>8, Zenon DEF RefreshSymbol
  <2>2. RowsOK(bars, s, newest, basis[s])
    <3>1. today - FetchDays \in Int /\ newest \in Int /\ basis[s] \in Nat
      BY <1>0, DaysAssumption DEF StoreInv
    <3>2. QED BY <2>1, <3>1, NoRowsOK, BarsOK
  <2>3. session.pc = "refresh" /\ ShapedSession(session)
    BY <1>0, <1>8 DEF RefreshSymbol, DatedInv
  <2>4. session'.fetched = [session.fetched EXCEPT ![s] = bars]
    BY <2>1, <2>3 DEF ShapedSession
  <2>5. /\ session'.fetched[s] = bars
        /\ \A x \in Symbols \ {s} : session'.fetched[x] = session.fetched[x]
    BY <2>3, <2>4 DEF ShapedSession
  <2>6. \A x \in Symbols : RowsOK(session'.fetched[x], x, newest, basis[x])
    BY <2>2, <2>3, <2>5 DEF StoreInv
  <2>7. QED BY <1>4, <1>8, <2>6 DEF RefreshSymbol
<1>9. ASSUME NEW s \in Symbols, RefreshFails(s) PROVE StoreInv'
  <2>1. session.pc # "idle" /\ session'.fetched = session.fetched
    BY <1>0, <1>9 DEF RefreshFails, DatedInv, ShapedSession
  <2>2. QED BY <1>4, <1>9, <2>1 DEF RefreshFails, StoreInv
<1>10. CASE ValueHoldings
  <2>1. session.pc # "idle" /\ session'.fetched = session.fetched
    BY <1>0, <1>10 DEF ValueHoldings, DatedInv, ShapedSession
  <2>2. QED BY <1>4, <1>10, <2>1 DEF ValueHoldings, StoreInv
<1>11. CASE CommitUser
  <2>1. session.pc # "idle" /\ session' = NoSession BY <1>11 DEF CommitUser
  <2>2. \A s \in Symbols :
          RowsOK(Written(s, session.fetched, session.pruned), s, newest, basis[s])
    BY <2>1, WrittenOK DEF StoreInv
  <2>3. \A s \in Symbols : RowsOK(prices'[s], s, newest, basis[s])
    BY <1>11, <2>2 DEF CommitUser
  <2>4. QED BY <1>11, <2>1, <2>3 DEF CommitUser, StoreInv, NoSession
<1>12. ASSUME NEW u \in Users, NEW s \in Symbols, Trade(u, s) PROVE StoreInv'
  <2>1. CASE UNCHANGED request BY <1>1, <1>12, <2>1 DEF Trade
  <2>2. CASE request' = [pc |-> "lookup", user |-> u, symbol |-> s,
                         fetched |-> NoFetch]
    <3>1. \A x \in Symbols : request'.fetched[x] = {} BY <2>2 DEF NoFetch
    <3>2. QED BY <1>5, <1>12, <3>1, NoRowsOK DEF Trade
  <2>3. QED BY <1>12, <2>1, <2>2 DEF Trade
<1>13. CASE LookUp
  <2> DEFINE s == request.symbol
  <2>1. PICK bars \in {{}, Bars(today - ReadDays, newest, basis[s])} :
          /\ bars # {} => KindOf[s] \in {"jp", "us"}
          /\ request' = [request EXCEPT !.pc = "commit", !.fetched[s] = bars]
    BY <1>13, Zenon DEF LookUp
  <2> HIDE DEF s
  <2>2. request.pc = "lookup" /\ ShapedSession(request)
    BY <1>0, <1>13 DEF LookUp, DatedInv
  <2>3. request'.fetched = [request.fetched EXCEPT ![s] = bars]
    BY <2>1, <2>2 DEF ShapedSession
  <2>4. ASSUME NEW x \in Symbols
        PROVE  RowsOK(request'.fetched[x], x, newest, basis[x])
    <3>1. CASE x = s
      <4>1. request'.fetched[x] = bars BY <2>2, <2>3, <3>1 DEF ShapedSession
      <4>2. today - ReadDays \in Int /\ newest \in Int /\ basis[x] \in Nat
        BY <1>0, DaysAssumption DEF StoreInv
      <4>3. QED BY <2>1, <3>1, <4>1, <4>2, NoRowsOK, BarsOK
    <3>2. CASE x # s
      <4>1. request'.fetched[x] = request.fetched[x]
        BY <2>2, <2>3, <3>2 DEF ShapedSession
      <4>2. QED BY <2>2, <4>1 DEF StoreInv
    <3>3. QED BY <3>1, <3>2
  <2>5. QED BY <1>5, <1>13, <2>4 DEF LookUp
<1>14. CASE CommitTrade
  <2>1. request.pc # "idle" /\ request' = NoSession BY <1>14 DEF CommitTrade
  <2>2. \A s \in Symbols :
          RowsOK(Written(s, request.fetched, {}), s, newest, basis[s])
    BY <2>1, WrittenOK DEF StoreInv
  <2>3. \A s \in Symbols : RowsOK(prices'[s], s, newest, basis[s])
    BY <1>14, <2>2 DEF CommitTrade
  <2>4. QED BY <1>14, <2>1, <2>3 DEF CommitTrade, StoreInv, NoSession
<1>15. CASE RaiseTrade
  BY <1>5, <1>15 DEF RaiseTrade, NoSession
<1>16. QED
  BY <1>2, <1>3, <1>6, <1>7, <1>8, <1>9, <1>10, <1>11, <1>12, <1>13, <1>14, <1>15,
     Zenon DEF Next

\* Rows with one date each are as many as their dates.
LEMMA DatesAsManyAsRows ==
    ASSUME NEW rows, IsFiniteSet(rows),
           \A r1, r2 \in rows : r1.date = r2.date => r1 = r2
    PROVE  Cardinality({r.date : r \in rows}) = Cardinality(rows)
<1> DEFINE dates == {r.date : r \in rows}
           f == [r \in rows |-> r.date]
<1>1. f \in Bijection(rows, dates)
  <2>1. f \in [rows -> dates] OBVIOUS
  <2>2. f \in Surjection(rows, dates) BY DEF Surjection
  <2>3. IsInjective(f)
    <3>1. DOMAIN f = rows /\ \A r \in rows : f[r] = r.date OBVIOUS
    <3> HIDE DEF f
    <3>2. QED BY <3>1 DEF IsInjective
  <2>4. QED BY <2>1, <2>2, <2>3 DEF Bijection, Injection
<1> HIDE DEF f, dates
<1>2. ExistsBijection(rows, dates) BY <1>1 DEF ExistsBijection
<1>3. Cardinality(dates) = Cardinality(rows) BY <1>2, FS_Bijection
<1>4. QED BY <1>3 DEF dates

\* The types, and: one row per symbol and day, whoever wrote it last, none later
\* than what is published, none of a fund, none adjusted for a split to come.
THEOREM TypesHold == Spec => []TypeOK
<1>1. StoreInv /\ BasisInv /\ NotesInv => TypeOK
  <2> SUFFICES ASSUME StoreInv, BasisInv, NotesInv PROVE TypeOK OBVIOUS
  <2>1. job.pc = "user" <=> session.pc # "idle" BY DEF BasisInv, JobServes
  <2>2. job.left \subseteq job.targets /\ job.targets \subseteq Users
    BY DEF NotesInv, JobNotes
  <2>3. \A s \in Symbols :
          Cardinality({r.date : r \in prices[s]}) = Cardinality(prices[s])
    BY DatesAsManyAsRows DEF StoreInv, RowsOK
  <2>4. QED BY <2>1, <2>2, <2>3 DEF TypeOK, StoreInv, RowsOK
<1>2. BasisInv => JobServes BY DEF BasisInv
<1>3. QED
  BY <1>1, <1>2, BasisInvInit, BasisInvStep, NotesInvInit, NotesInvStep,
     StoreInvInit, StoreInvStep, PTL DEF Spec

=============================================================================
